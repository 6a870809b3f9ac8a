------------------------ MODULE ReplicateDiffProofs ------------------------
(***************************************************************************)
(* A diff once given lacks nothing, for any uploads and readers, however   *)
(* long the diffs.  An upload can have something stored only while it has  *)
(* the map's lock.  So nothing is stored when a reader has it, and what is *)
(* stored later is timed after the range that this reader asked about.     *)
(***************************************************************************)
EXTENDS Replication, ExtractUpdateProofs, Integers, FiniteSetTheorems, TLAPS

\* Whoever must hold the lock does.
LockInv ==
    /\ \A u \in Uploads : stored[u] # {} => mapLock = u
    /\ \A r \in Readers : asked[r].stage = "leave" => mapLock = r

\* What is stored by now and not committed is not timed before the time given.
StoredAfter(to) == \A u \in Uploads : \A e \in stored[u] : to <= e.time

AskedInv ==
    \A r \in Readers :
        /\ asked[r].to <= now
        /\ asked[r].stage = "read" => StoredAfter(asked[r].to)

AnswersInv ==
    \A a \in answers : a.to <= now /\ a.edits = InRange(a.from, a.to) /\ StoredAfter(a.to)

DiffInv == DiffTypeOK /\ IsFiniteSet(Blocks) /\ LockInv /\ AskedInv /\ AnswersInv

------------------------------------------------------------------------------
\* The pages rest on how division works, which is given for one divisor and one
\* that is a multiple of it.
LEMMA DivMod ==
  ASSUME NEW m \in Nat, NEW d \in Nat \ {0}
  PROVE  /\ m \div d \in Nat /\ m % d \in Nat
         /\ m = (m \div d) * d + (m % d) /\ (m % d) < d
  OBVIOUS

LEMMA Unique ==
  ASSUME NEW d \in Nat \ {0}, NEW q \in Int, NEW p \in Int, NEW r \in Nat, NEW s \in Nat,
         q * d + r = p * d + s, r < d, s < d
  PROVE  r = s
  <1>1. (q - p) * d = s - r
    OBVIOUS
  <1>2. CASE q - p >= 1
    <2>1. (q - p) * d >= d
      BY <1>2
    <2> QED BY <1>1, <2>1
  <1>3. CASE q - p <= -1
    <2>1. (q - p) * d <= -d
      BY <1>3
    <2> QED BY <1>1, <2>1
  <1>4. CASE q = p
    BY <1>4
  <1> QED BY <1>2, <1>3, <1>4

LEMMA ModMod ==
  ASSUME NEW m \in Nat, NEW d \in Nat \ {0}, NEW k \in Nat \ {0}
  PROVE  (m % (d * k)) % d = m % d
  <1>1. d * k \in Nat \ {0}
    OBVIOUS
  <1> DEFINE r == m % (d * k)
             q == m \div (d * k)
  <1>2. r \in Nat /\ q \in Nat /\ m = q * (d * k) + r
    BY <1>1, DivMod
  <1> HIDE DEF r, q
  <1>3. r % d \in Nat /\ r \div d \in Nat /\ r = (r \div d) * d + (r % d) /\ r % d < d
    BY <1>2, DivMod
  <1>4. m % d \in Nat /\ m \div d \in Nat /\ m = (m \div d) * d + (m % d) /\ m % d < d
    BY DivMod
  <1> DEFINE s == r \div d
             u == r % d
             p == m \div d
             v == m % d
  <1>5. s \in Nat /\ u \in Nat /\ p \in Nat /\ v \in Nat /\ u < d /\ v < d
    BY <1>3, <1>4
  <1>6. m = q * (d * k) + (s * d + u) /\ m = p * d + v
    BY <1>2, <1>3, <1>4
  <1> HIDE DEF s, u, p, v
  <1>7. q * (d * k) = (q * k) * d
    BY <1>2
  <1>8. q * k \in Nat
    BY <1>2
  <1>9. (q * k) * d + s * d = (q * k + s) * d
    BY <1>2, <1>5, <1>8
  <1>10. (q * k) * d \in Nat /\ s * d \in Nat
    BY <1>2, <1>5, <1>8
  <1>11. (q * k + s) * d + u = p * d + v
    BY <1>5, <1>6, <1>7, <1>9, <1>10
  <1> DEFINE w == q * k + s
  <1>12. w \in Int /\ w * d + u = p * d + v
    BY <1>5, <1>8, <1>11
  <1> HIDE DEF w
  <1>13. u = v
    BY <1>5, <1>12, Unique
  <1> QED
    BY <1>13 DEF u, v, r

\* The page worked out for a time begins, as a time, at the end of its step.
LEMMA PathOfTime ==
  ASSUME NEW step \in Steps, NEW ts \in Nat, Epoch <= ts
  PROVE  LET start == PageStart(step, TimestampToPath(ts, step))
         IN start - step <= ts /\ ts < start
  <1> DEFINE t == ts - Epoch
             P2 == step * Fan
             P3 == P2 * Fan
             a == t \div P3
             b == (t % P3) \div P2
             c == (t % P2) \div step
             rest == (t % P2) % step
  <1>1. step \in Nat \ {0} /\ Fan \in Nat \ {0} /\ Offset \in Nat /\ Epoch \in Nat /\ t \in Nat
    BY TimesAssumption
  <1>2. P2 \in Nat \ {0}
    BY <1>1
  <1>3. P3 \in Nat \ {0}
    BY <1>1, <1>2
  <1>4. TimestampToPath(ts, step) = <<a + Offset, b, c + 1>>
    BY DEF TimestampToPath, PageStep, PageStep2
  <1>5. PageStart(step, <<a + Offset, b, c + 1>>) =
           ((a + Offset) - Offset) * P3 + b * P2 + (c + 1) * step + Epoch
    BY DEF PageStart, PageStep, PageStep2
  <1>6. (t % P3) % P2 = t % P2
    BY <1>1, <1>2, ModMod
  <1> HIDE DEF P2, P3
  <1>7. a \in Nat /\ t % P3 \in Nat /\ t = a * P3 + (t % P3)
    BY <1>1, <1>3, DivMod
  <1>8. b \in Nat /\ t % P2 \in Nat /\ t % P3 = b * P2 + (t % P2)
    BY <1>2, <1>6, <1>7, DivMod
  <1>9. c \in Nat /\ rest \in Nat /\ t % P2 = c * step + rest /\ rest < step
    BY <1>1, <1>8, DivMod
  <1> HIDE DEF a, b, c, rest
  <1>10. a * P3 \in Nat /\ b * P2 \in Nat /\ c * step \in Nat /\ (c + 1) * step = c * step + step
    BY <1>1, <1>2, <1>3, <1>7, <1>8, <1>9
  <1>11. (a + Offset) - Offset = a
    BY <1>1, <1>7
  <1>12. t = a * P3 + b * P2 + c * step + rest
    BY <1>7, <1>8, <1>9, <1>10
  <1>13. PageStart(step, TimestampToPath(ts, step)) = a * P3 + b * P2 + c * step + step + Epoch
    BY <1>1, <1>4, <1>5, <1>10, <1>11
  <1> QED
    BY <1>1, <1>9, <1>10, <1>12, <1>13

\* How far division reaches.
LEMMA DivReaches ==
  ASSUME NEW m \in Nat, NEW d \in Nat \ {0}, NEW k \in Nat
  PROVE  k <= m \div d <=> k * d <= m
  <1> DEFINE q == m \div d
             r == m % d
  <1>1. q \in Nat /\ r \in Nat /\ m = q * d + r /\ r < d
    BY DivMod
  <1> HIDE DEF q, r
  <1>2. CASE k <= q
    <2>1. q * d = k * d + (q - k) * d /\ (q - k) * d >= 0 /\ k * d \in Nat
      BY <1>1, <1>2
    <2> QED
      BY <1>1, <1>2, <2>1 DEF q
  <1>3. CASE k > q
    <2> DEFINE e == k - q
    <2>1. e \in Nat /\ e >= 1 /\ k = q + e
      BY <1>1, <1>3
    <2> HIDE DEF e
    <2>2. k * d = q * d + e * d /\ e * d >= d /\ q * d \in Nat
      BY <1>1, <2>1
    <2> DEFINE x == q * d
               y == k * d
               z == e * d
    <2>3. x \in Nat /\ y = x + z /\ z \in Int /\ z >= d /\ m = x + r
      BY <1>1, <2>1, <2>2
    <2> HIDE DEF x, y, z
    <2>4. y > m
      BY <1>1, <2>3
    <2> QED
      BY <1>1, <1>3, <2>4 DEF q, y
  <1> QED
    BY <1>1, <1>2, <1>3

\* The entries of a catalog are those, of Fan at most, that have begun: at each
\* of a catalog's three levels.
LEMMA Begun ==
  ASSUME NEW start \in Int, now \in Int, NEW d \in Nat \ {0}, NEW k
  PROVE  (now >= start /\ k \in Entries((now - start) \div d))
            <=> (k \in 0..(Fan - 1) /\ now >= start + k * d)
  <1>1. Fan \in Nat \ {0}
    BY TimesAssumption
  <1>2. CASE k \in Nat /\ now >= start
    <2>1. (now - start) \in Nat
      BY <1>2
    <2> DEFINE m == now - start
    <2>2. k <= m \div d <=> k * d <= m
      BY <1>2, <2>1, DivReaches
    <2>3. m \div d \in Nat
      BY <2>1, DivMod
    <2>4. k * d \in Nat
      BY <1>2
    <2>5. k * d <= m <=> now >= start + k * d
      BY <2>1, <2>4
    <2> HIDE DEF m
    <2>6. k \in Entries(m \div d) <=> k \in 0..(Fan - 1) /\ k <= m \div d
      BY <1>1, <1>2, <2>3 DEF Entries
    <2> QED
      BY <1>2, <2>2, <2>5, <2>6 DEF m
  <1>3. CASE k \in Nat /\ ~(now >= start)
    <2>1. k * d \in Nat
      BY <1>3
    <2> QED
      BY <1>3, <2>1
  <1>4. CASE k \notin Nat
    <2>1. k \notin 0..(Fan - 1) /\ \A n : k \notin Entries(n)
      BY <1>1, <1>4 DEF Entries
    <2> QED
      BY <2>1
  <1> QED
    BY <1>2, <1>3, <1>4

\* The pages listed are those found: an entry that lists a page begins with the
\* first of its pages, and so before it.
LEMMA PageListed ==
  ASSUME now \in Nat, Epoch <= now, now <= MaxTime, NEW step \in Steps, NEW a, NEW b, NEW c
  PROVE  (a \in catalog(step) /\ b \in catalog2(step, a) /\ c \in catalog3(step, a, b))
            <=> (<<a, b, c>> \in Paths(step) /\ Found(step, <<a, b, c>>))
  <1> DEFINE P2 == PageStep2(step)
             P3 == PageStep(step)
             fans == 0..(Fan - 1)
             last == Offset..((MaxTime - Epoch) \div P3 + Offset)
             start2 == PageStart(step, <<a, 0, 0>>)
             start3 == PageStart(step, <<a, b, 0>>)
             start == PageStart(step, <<a, b, c>>)
  <1>1. /\ step \in Nat \ {0} /\ Fan \in Nat \ {0} /\ Offset \in Nat /\ Epoch \in Nat
        /\ MaxTime \in Nat
    BY TimesAssumption
  <1>2. P2 \in Nat \ {0}
    BY <1>1 DEF PageStep2
  <1>3. P3 \in Nat \ {0}
    BY <1>1, <1>2 DEF PageStep
  <1>4. <<a, b, c>> \in Paths(step) <=> a \in last /\ b \in fans /\ c \in fans
    BY DEF Paths
  <1> HIDE DEF P2, P3
  \* An entry of the first catalog has begun, and a page of it can be named.
  <1>5. ASSUME NEW t \in Nat, NEW k \in Nat
        PROVE  k + Offset \in Offset..(t \div P3 + Offset) <=> k * P3 <= t
    <2>1. t \div P3 \in Nat /\ (k <= t \div P3 <=> k * P3 <= t)
      BY <1>3, DivMod, DivReaches
    <2> QED
      BY <1>1, <2>1
  <1>6. CASE a \in Nat /\ Offset <= a /\ b \in Nat /\ c \in Nat
    <2> DEFINE k == a - Offset
               x == k * P3
               y == b * P2
               z == c * step
    <2>1. k \in Nat /\ a = k + Offset
      BY <1>1, <1>6
    <2>2. x \in Nat /\ y \in Nat /\ z \in Nat
      BY <1>1, <1>2, <1>3, <1>6, <2>1
    <2>3. /\ start2 = x + Epoch
          /\ start3 = x + y + Epoch
          /\ start = x + y + z + Epoch
      BY <1>1, <1>2, <2>1, <2>2 DEF PageStart, P2, P3
    <2>4. a \in catalog(step) <=> x <= now - Epoch
      <3>1. now - Epoch \in Nat
        BY <1>1
      <3> QED
        BY <1>5, <2>1, <3>1 DEF catalog, P3
    <2>5. a \in last <=> x <= MaxTime - Epoch
      <3>1. MaxTime - Epoch \in Nat
        BY <1>1
      <3> QED
        BY <1>5, <2>1, <3>1 DEF P3
    <2> HIDE DEF k, x, start2, start3, start
    <2>6. b \in catalog2(step, a) <=> b \in fans /\ now >= start2 + y
      <3>0. now \in Int
        BY <1>1
      <3>1. start2 \in Int
        BY <1>1, <2>2, <2>3
      <3>2. (now >= start2 /\ b \in Entries((now - start2) \div P2))
               <=> (b \in 0..(Fan - 1) /\ now >= start2 + b * P2)
        BY <1>2, <3>0, <3>1, Begun, Zenon
      <3>3. b \in catalog2(step, a) <=> now >= start2 /\ b \in Entries((now - start2) \div P2)
        BY <1>1, <3>1 DEF catalog2, start2, P2
      <3> QED
        BY <3>2, <3>3
    <2>7. c \in catalog3(step, a, b) <=> c \in fans /\ now >= start3 + z
      <3>0. now \in Int
        BY <1>1
      <3>1. start3 \in Int
        BY <1>1, <2>2, <2>3
      <3>2. (now >= start3 /\ c \in Entries((now - start3) \div step))
               <=> (c \in 0..(Fan - 1) /\ now >= start3 + c * step)
        BY <1>1, <3>1, <3>0, Begun, Zenon
      <3>3. c \in catalog3(step, a, b) <=> now >= start3 /\ c \in Entries((now - start3) \div step)
        BY <1>1, <3>1 DEF catalog3, start3
      <3> QED
        BY <3>2, <3>3
    <2>8. Found(step, <<a, b, c>>) <=> now >= start
      BY DEF Found, start
    <2> HIDE DEF y, z, last, fans
    <2> QED
      BY <1>1, <1>4, <2>2, <2>3, <2>4, <2>5, <2>6, <2>7, <2>8
  <1>7. CASE ~(a \in Nat /\ Offset <= a /\ b \in Nat /\ c \in Nat)
    <2>1. ~(a \in last /\ b \in fans /\ c \in fans)
      BY <1>1, <1>7
    <2>2. ~(a \in catalog(step) /\ b \in catalog2(step, a) /\ c \in catalog3(step, a, b))
      <3>1. a \in catalog(step) => a \in Nat /\ Offset <= a
        BY <1>1 DEF catalog
      <3>2. b \in catalog2(step, a) => b \in Nat
        BY <1>1 DEF catalog2, Entries
      <3>3. c \in catalog3(step, a, b) => c \in Nat
        BY <1>1 DEF catalog3, Entries
      <3> QED
        BY <1>7, <3>1, <3>2, <3>3
    <2> QED
      BY <1>4, <2>1, <2>2
  <1> QED
    BY <1>6, <1>7

------------------------------------------------------------------------------
USE TimesAssumption

LEMMA InitDiffInv ==
  ASSUME InitDiffs
  PROVE  DiffInv
  <1> USE DEF InitDiffs, NotAsked
  <1>1. DiffTypeOK
    BY DEF DiffTypeOK, Edit
  <1>2. Blocks = {}
    BY DEF Blocks
  <1>3. IsFiniteSet(Blocks)
    BY <1>2, FS_EmptySet
  <1>4. LockInv /\ AskedInv /\ AnswersInv
    BY DEF LockInv, AskedInv, AnswersInv
  <1> QED
    BY <1>1, <1>3, <1>4 DEF DiffInv

\* A page's diff lies between natural numbers.
LEMMA PageNatural ==
  ASSUME NEW step \in Steps, NEW page \in Paths(step)
  PROVE  /\ PageStart(step, page) \in Nat
         /\ PageStart(step, page) - step \in Nat
         /\ PageStart(step, page) - step <= PageStart(step, page)
  <1>1. step \in Nat /\ Fan \in Nat /\ Offset \in Nat /\ Epoch \in Nat /\ step <= Epoch
    OBVIOUS
  <1>2. step * Fan \in Nat
    BY <1>1
  <1>3. step * Fan * Fan \in Nat
    BY <1>1, <1>2
  <1>4. page[1] \in Nat /\ page[1] - Offset \in Nat /\ page[2] \in Nat /\ page[3] \in Nat
    BY <1>1 DEF Paths
  <1>5. /\ (page[1] - Offset) * (step * Fan * Fan) \in Nat
        /\ page[2] * (step * Fan) \in Nat
        /\ page[3] * step \in Nat
    BY <1>1, <1>2, <1>3, <1>4
  <1> DEFINE A == (page[1] - Offset) * (step * Fan * Fan)
             B == page[2] * (step * Fan)
             C == page[3] * step
  <1>6. PageStart(step, page) = A + B + C + Epoch
    BY DEF PageStart, PageStep, PageStep2
  <1>7. A \in Nat /\ B \in Nat /\ C \in Nat
    BY <1>5
  <1> HIDE DEF A, B, C
  <1> QED
    BY <1>1, <1>6, <1>7

\* A reader asks about a range that is over.
LEMMA AskKeeps ==
  ASSUME DiffInv, NEW r \in Readers, NEW from \in Nat, NEW to \in Nat,
         to <= now, Ask(r, from, to)
  PROVE  DiffInv'
  <1> USE DEF DiffInv, Ask
  <1>1. asked' \in [Readers -> [stage: {"idle", "wait", "leave", "read"}, from: Nat, to: Nat]]
    BY DEF DiffTypeOK
  <1>2. DiffTypeOK'
    BY <1>1 DEF DiffTypeOK
  <1>3. IsFiniteSet(Blocks)'
    BY DEF Blocks
  <1>4. \A s \in Readers :
           asked'[s] = IF s = r THEN [stage |-> "wait", from |-> from, to |-> to] ELSE asked[s]
    BY DEF DiffTypeOK
  <1>5. LockInv'
    BY <1>4 DEF LockInv
  <1>6. AskedInv'
    BY <1>4 DEF AskedInv, StoredAfter
  <1>7. AnswersInv'
    BY DEF AnswersInv, StoredAfter, InRange
  <1> QED
    BY <1>2, <1>3, <1>5, <1>6, <1>7

LEMMA UploadKeeps ==
  ASSUME DiffInv, NEW u \in Uploads, LockMap(u) \/ StoreBlock(u) \/ EndUpload(u)
  PROVE  DiffInv'
  <1> USE DEF DiffInv
  <1>1. CASE LockMap(u)
    <2> USE <1>1 DEF LockMap
    <2>1. DiffTypeOK' /\ IsFiniteSet(Blocks)'
      BY DEF DiffTypeOK, Blocks
    <2>2. LockInv'
      BY DEF LockInv
    <2>3. AskedInv' /\ AnswersInv'
      BY DEF AskedInv, AnswersInv, StoredAfter, InRange
    <2> QED
      BY <2>1, <2>2, <2>3
  <1>2. CASE StoreBlock(u)
    <2> DEFINE new == [block |-> Cardinality(Blocks) + 1, time |-> now]
    <2>1. new \in Edit /\ new.time = now /\ now \in Nat
      BY FS_CardinalityType DEF Edit, DiffTypeOK
    <2> HIDE DEF new
    <2>2. stored' = [stored EXCEPT ![u] = @ \cup {new}] /\ mapLock = u
          /\ UNCHANGED <<now, mapLock, edits, asked, answers>>
      BY <1>2 DEF StoreBlock, new
    <2>3. \A v \in Uploads : stored'[v] = IF v = u THEN stored[v] \cup {new} ELSE stored[v]
      BY <2>2 DEF DiffTypeOK
    <2>4. DiffTypeOK'
      BY <2>1, <2>2 DEF DiffTypeOK
    <2>5. Blocks' \subseteq Blocks \cup {new}
      BY <2>2, <2>3 DEF Blocks
    <2>6. IsFiniteSet(Blocks)'
      BY <2>5, FS_AddElement, FS_Subset
    <2>7. LockInv'
      BY <2>2, <2>3 DEF LockInv
    <2>8. \A to \in Nat : to <= now /\ StoredAfter(to) => StoredAfter(to)'
      BY <2>1, <2>3 DEF StoredAfter
    <2>9. AskedInv'
      BY <2>2, <2>8 DEF AskedInv, DiffTypeOK
    <2>10. AnswersInv'
      BY <2>2, <2>8 DEF AnswersInv, InRange, DiffTypeOK
    <2> QED
      BY <2>4, <2>6, <2>7, <2>9, <2>10
  <1>3. CASE EndUpload(u)
    <2> USE <1>3 DEF EndUpload
    <2>1. edits' = edits \cup stored[u] \/ edits' = edits
      OBVIOUS
    <2>2. \A v \in Uploads : stored'[v] = IF v = u THEN {} ELSE stored[v]
      BY DEF DiffTypeOK
    <2>3. DiffTypeOK'
      BY <2>1, <2>2 DEF DiffTypeOK
    <2>4. Blocks' \subseteq Blocks
      BY <2>1, <2>2 DEF Blocks
    <2>5. IsFiniteSet(Blocks)'
      BY <2>4, FS_Subset
    <2>6. LockInv'
      BY <2>2 DEF LockInv
    <2>7. AskedInv'
      BY <2>2 DEF AskedInv, StoredAfter
    <2>8. ASSUME NEW a \in answers PROVE InRange(a.from, a.to)' = InRange(a.from, a.to)
      <3>1. \A e \in stored[u] : e.time \in Nat /\ a.to \in Nat /\ a.to <= e.time
        BY DEF AnswersInv, StoredAfter, DiffTypeOK, Edit
      <3> QED
        BY <2>1, <3>1 DEF InRange
    <2>9. AnswersInv'
      BY <2>2, <2>8 DEF AnswersInv, StoredAfter
    <2> QED
      BY <2>3, <2>5, <2>6, <2>7, <2>9
  <1> QED
    BY <1>1, <1>2, <1>3

LEMMA ReaderKeeps ==
  ASSUME DiffInv, NEW r \in Readers, WaitForUploads(r) \/ LetGo(r) \/ ReadDiff(r)
  PROVE  DiffInv'
  <1> USE DEF DiffInv
  <1>1. CASE WaitForUploads(r)
    <2> USE <1>1 DEF WaitForUploads
    <2>1. DiffTypeOK' /\ IsFiniteSet(Blocks)'
      BY DEF DiffTypeOK, Blocks
    <2>2. \A s \in Readers : asked'[s] = IF s = r THEN [asked[s] EXCEPT !.stage = "leave"] ELSE asked[s]
      BY DEF DiffTypeOK
    <2>3. LockInv'
      BY <2>2 DEF LockInv
    <2>4. AskedInv'
      BY <2>2 DEF AskedInv, StoredAfter, DiffTypeOK
    <2>5. AnswersInv'
      BY DEF AnswersInv, StoredAfter, InRange
    <2> QED
      BY <2>1, <2>3, <2>4, <2>5
  <1>2. CASE LetGo(r)
    <2> USE <1>2 DEF LetGo
    <2>1. DiffTypeOK' /\ IsFiniteSet(Blocks)'
      BY DEF DiffTypeOK, Blocks
    <2>2. \A s \in Readers : asked'[s] = IF s = r THEN [asked[s] EXCEPT !.stage = "read"] ELSE asked[s]
      BY DEF DiffTypeOK
    <2>3. mapLock = r /\ \A u \in Uploads : stored[u] = {}
      BY DEF LockInv
    <2>4. LockInv'
      BY <2>2, <2>3 DEF LockInv, DiffTypeOK
    <2>5. StoredAfter(asked[r].to)'
      BY <2>3 DEF StoredAfter
    <2>6. AskedInv'
      BY <2>2, <2>5 DEF AskedInv, StoredAfter, DiffTypeOK
    <2>7. AnswersInv'
      BY DEF AnswersInv, StoredAfter, InRange
    <2> QED
      BY <2>1, <2>4, <2>6, <2>7
  <1>3. CASE ReadDiff(r)
    <2> USE <1>3 DEF ReadDiff
    <2> DEFINE a == [from |-> asked[r].from, to |-> asked[r].to,
                     edits |-> InRange(asked[r].from, asked[r].to)]
    <2>1. a \in [from: Nat, to: Nat, edits: SUBSET Edit]
      BY DEF DiffTypeOK, InRange
    <2>2. DiffTypeOK'
      BY <2>1 DEF DiffTypeOK, NotAsked
    <2>3. IsFiniteSet(Blocks)'
      BY DEF Blocks
    <2>4. \A s \in Readers : asked'[s] = IF s = r THEN NotAsked ELSE asked[s]
      BY DEF DiffTypeOK
    <2>5. LockInv'
      BY <2>4 DEF LockInv, NotAsked
    <2>6. AskedInv'
      BY <2>4 DEF AskedInv, StoredAfter, NotAsked, DiffTypeOK
    <2>7. a.to <= now /\ a.edits = InRange(a.from, a.to) /\ StoredAfter(a.to)
      BY DEF AskedInv
    <2>8. AnswersInv'
      BY <2>7 DEF AnswersInv, StoredAfter, InRange
    <2> QED
      BY <2>2, <2>3, <2>5, <2>6, <2>8
  <1> QED
    BY <1>1, <1>2, <1>3

LEMMA NextDiffInv ==
  ASSUME DiffInv, [NextDiffs]_diffVars
  PROVE  DiffInv'
  <1>1. CASE Tick
    <2> USE <1>1 DEF Tick, DiffInv
    <2>1. DiffTypeOK' /\ IsFiniteSet(Blocks)'
      BY DEF DiffTypeOK, Blocks
    <2>2. LockInv'
      BY DEF LockInv
    <2>3. AskedInv' /\ AnswersInv'
      BY DEF AskedInv, AnswersInv, StoredAfter, InRange, DiffTypeOK
    <2> QED
      BY <2>1, <2>2, <2>3
  <1>2. ASSUME NEW r \in Readers, NEW step \in Steps, NEW page \in Paths(step), getoscdiff(r, step, page)
        PROVE  DiffInv'
    BY <1>2, PageNatural, AskKeeps DEF getoscdiff, Found
  <1>3. ASSUME NEW r \in Readers, NEW from \in Epoch..now, NEW to \in Epoch..now, customdiff(r, from, to)
        PROVE  DiffInv'
    <2>1. from \in Nat /\ to \in Nat
      BY DEF DiffInv, DiffTypeOK
    <2> QED
      BY <1>3, <2>1, AskKeeps DEF customdiff
  <1>4. CASE UNCHANGED diffVars
    BY <1>4 DEF diffVars, DiffInv, DiffTypeOK, Blocks, LockInv, AskedInv, AnswersInv, StoredAfter, InRange
  <1> QED
    BY <1>1, <1>2, <1>3, <1>4, UploadKeeps, ReaderKeeps DEF NextDiffs

LEMMA DiffInvariance ==
  DiffSpec => []DiffInv
  <1>1. InitDiffs => DiffInv
    BY InitDiffInv
  <1>2. DiffInv /\ [NextDiffs]_diffVars => DiffInv'
    BY NextDiffInv
  <1> QED
    BY <1>1, <1>2, PTL DEF DiffSpec

------------------------------------------------------------------------------
\* Every variable keeps its type.
THEOREM DiffTypeCorrect ==
  DiffSpec => []DiffTypeOK
  <1>1. DiffInv => DiffTypeOK
    BY DEF DiffInv
  <1> QED
    BY <1>1, DiffInvariance, PTL

\* A diff that was given has all the edits of its range there will ever be:
\* taking the lock of uploads before it is read leaves none to be committed later.
THEOREM DiffsAreFinal ==
  DiffSpec => []DiffsFinal
  <1>1. DiffInv => DiffsFinal
    BY DEF DiffInv, AnswersInv, DiffsFinal
  <1> QED
    BY <1>1, DiffInvariance, PTL

\* The page worked out for a time is the one whose diff has it, for any lengths
\* of steps and catalogs: also where one page, entry or catalog ends.
THEOREM PathsAreRight ==
  DiffSpec => []PathsHaveTheirTimes
  <1>1. DiffInv => PathsHaveTheirTimes
    BY PathOfTime DEF DiffInv, DiffTypeOK, PathsHaveTheirTimes
  <1> QED
    BY <1>1, DiffInvariance, PTL

\* The catalogs list the pages that can be read, for any lengths of steps and
\* catalogs: also where an entry or a catalog is full, and where it is just begun.
THEOREM CatalogsAreRight ==
  DiffSpec => []CatalogsListWhatIsFound
  <1>1. DiffInv => CatalogsListWhatIsFound
    <2> SUFFICES ASSUME DiffInv, NEW step \in Steps
                 PROVE  Listed(step) = {page \in Paths(step) : Found(step, page)}
      BY DEF CatalogsListWhatIsFound
    <2>1. now \in Nat /\ Epoch <= now /\ now <= MaxTime
      BY DEF DiffInv, DiffTypeOK
    <2>2. \A a, b, c : <<a, b, c>> \in Listed(step) <=>
             a \in catalog(step) /\ b \in catalog2(step, a) /\ c \in catalog3(step, a, b)
      BY DEF Listed
    <2>3. \A page \in Listed(step) : \E a, b, c : page = <<a, b, c>>
      BY DEF Listed
    <2>4. \A page \in Paths(step) : \E a, b, c : page = <<a, b, c>>
      BY DEF Paths
    <2> QED
      BY <2>1, <2>2, <2>3, <2>4, PageListed
  <1> QED
    BY <1>1, DiffInvariance, PTL

\* Times, pages and lists agree (replicate/views.py), whatever is uploaded and read.
THEOREM PagesAreRight ==
  DiffSpec => []PagesFitTimes
  <1>1. PathsHaveTheirTimes /\ CatalogsListWhatIsFound => PagesFitTimes
    BY DEF PagesFitTimes
  <1> QED
    BY <1>1, PathsAreRight, CatalogsAreRight, PTL

------------------------------------------------------------------------------
\* Extracts and diffs side by side: each is as if there were no other, so that what is
\* proved of the one and of the other holds of both.
THEOREM EachIsApart ==
  ReplicationSpec => Spec /\ DiffSpec
  <1>1. ReplicationInit => Init /\ InitDiffs
    BY DEF ReplicationInit
  <1>2. ASSUME [ReplicationNext]_replicationVars
        PROVE  [Next]_vars /\ [NextDiffs]_diffVars
    BY <1>2 DEF ReplicationNext, replicationVars
  <1> QED
    BY <1>1, <1>2, PTL DEF ReplicationSpec, Spec, DiffSpec

\* Every variable of either keeps its type, while both go on (src/replicate/).
THEOREM ReplicationTypesCorrect ==
  ReplicationSpec => []TypesOK
  <1>1. TypeOK /\ DiffTypeOK => TypesOK
    BY DEF TypesOK
  <1> QED
    BY <1>1, EachIsApart, ExtractTypeCorrect, DiffTypeCorrect, PTL
=============================================================================
