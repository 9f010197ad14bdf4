---------------------------- MODULE SmsCodes_proofs ----------------------------
(***************************************************************************)
(* Theorems about SmsCodes, for any number of phones, codes, records and    *)
(* requests in flight, any faults, and any lifetime, limit and second.      *)
(***************************************************************************)
EXTENDS SmsCodes, TLAPS, FiniteSetTheorems

-------------------------------------------------------------------------------
(* The inductive invariant. *)

\* What a request knows at each of its statements: a login that is about to save
\* has picked a record of its own number and code, which has at most been marked
\* since it was read.
RequestsKnowTheirCode ==
    \A p \in Procs :
        /\ checked[p] <= clock
        /\ pc[p] # "idle" => phone[p] \in Phones /\ code[p] \in Codes
        /\ pc[p] = "save" =>
             /\ target[p] \in Reading
             /\ target[p].id \in WithCode(phone[p], code[p])
             /\ codes[target[p].id] \in {target[p].row, Marked(target[p].row)}

\* The two dates of a record are cuts of the one moment it was dated at.
RecordsAreDated ==
    \A i \in Rows(codes) :
        /\ codes[i].expires = CutToSecond(sentAt[i] + TTL)
        /\ codes[i].created = CutToSecond(sentAt[i])
        /\ sentAt[i] <= clock

\* A list of records has a last one.
NewestExists == \A ph \in Phones : To(ph) # {} => \E i \in Ids : IsLast(codes, i, To(ph))

\* Every record that is used up, and every login that may still use one up, was
\* counted when the login found a record.
LoginsAreCounted ==
    \A ph \in Phones, c \in Codes :
        /\ IsFiniteSet(UsedUp(ph, c)) /\ IsFiniteSet(Logging(ph, c))
        /\ Cardinality(UsedUp(ph, c)) + Cardinality(Logging(ph, c)) <= finds[<<ph, c>>]

Inv ==
    /\ TypeOK
    /\ RequestsKnowTheirCode
    /\ RecordsAreDated
    /\ NewestExists
    /\ LoginsAreCounted

\* A login that no other with its number and code runs beside has one to itself
\* to use up: there is an unused record when it comes to pick, and the one it has
\* picked is unused when it comes to save.
LoginsHaveARecord ==
    \A p \in Procs : pc[p] \in {"pick", "save"} /\ p \notin overlapped =>
        /\ Logging(phone[p], code[p]) \subseteq {p}
        /\ pc[p] = "pick" => Unused(phone[p], code[p]) # {}
        /\ pc[p] = "save" => ~codes[target[p].id].used

Slips(ph, c) == {s \in slips : s[1] = ph /\ s[2] = c}

\* Every login that was accepted has used up a record or is one of the slips, which
\* bear the numbers of accepted logins.
LoginsArePaid ==
    \A ph \in Phones, c \in Codes :
        /\ IsFiniteSet(Slips(ph, c))
        /\ \A s \in Slips(ph, c) : s[3] <= accepts[<<ph, c>>]
        /\ accepts[<<ph, c>>] <= Cardinality(UsedUp(ph, c)) + Cardinality(Slips(ph, c))

Marks == LoginsHaveARecord /\ LoginsArePaid

-------------------------------------------------------------------------------
(* Dates and lists. *)

\* Cutting a date takes less than a second off it.
LEMMA CutIsClose ==
    ASSUME NEW t \in Nat
    PROVE  /\ CutToSecond(t) \in Nat
           /\ CutToSecond(t) <= t
           /\ t < CutToSecond(t) + SecondTicks
BY Parameters DEF CutToSecond

\* Of an earlier and a later date the cuts are in this order, too.
LEMMA CutKeepsOrder ==
    ASSUME NEW t \in Nat, NEW u \in Nat, t <= u
    PROVE  CutToSecond(t) <= CutToSecond(u)
<1> DEFINE m == t \div SecondTicks
           n == u \div SecondTicks
<1>1. /\ SecondTicks \in Nat \ {0} /\ m \in Nat /\ n \in Nat
      /\ m * SecondTicks <= t /\ u < n * SecondTicks + SecondTicks
    BY Parameters
<1>2. m <= n
  <2>1. m * SecondTicks < (n + 1) * SecondTicks
      BY <1>1
  <2> HIDE DEF m, n
  <2> QED
      BY <1>1, <2>1
<1> HIDE DEF m, n
<1>3. m * SecondTicks <= n * SecondTicks
    BY <1>1, <1>2
<1> QED
    BY <1>3 DEF CutToSecond, m, n

\* Two rows of a table are in one order or the other.
LEMMA BeforeIsTotal ==
    ASSUME NEW table, NEW i \in Ids, NEW j \in Ids, i # j,
           table[i].created \in Nat, table[j].created \in Nat
    PROVE  Before(table, i, j) \/ Before(table, j, i)
BY KeysAreNumbers DEF Before

\* and the order is transitive.
LEMMA BeforeIsTransitive ==
    ASSUME NEW table, NEW i \in Ids, NEW j \in Ids, NEW k \in Ids,
           table[i].created \in Nat, table[j].created \in Nat, table[k].created \in Nat,
           Before(table, i, j), Before(table, j, k)
    PROVE  Before(table, i, k)
BY KeysAreNumbers DEF Before

\* The stored records have the types of their fields.
LEMMA RowsAreRecords ==
    ASSUME TypeOK, NEW i \in Rows(codes)
    PROVE  /\ i \in Ids /\ codes[i] \in Record /\ codes[i] # None
           /\ codes[i].phone \in Phones /\ codes[i].code \in Codes
           /\ codes[i].expires \in Nat /\ codes[i].created \in Nat
           /\ codes[i].used \in BOOLEAN /\ sentAt[i] \in Nat
BY DEF TypeOK, Rows, Record

-------------------------------------------------------------------------------
(* The invariant holds at the start and every action keeps it. *)

\* The empty table satisfies the invariant.
LEMMA InitInv == Init => Inv
<1> SUFFICES ASSUME Init PROVE Inv
    OBVIOUS
<1> USE DEF Init
<1>1. TypeOK
    BY DEF TypeOK
<1>2. Rows(codes) = {}
    BY DEF Rows
<1>3. RequestsKnowTheirCode /\ RecordsAreDated
    BY <1>2 DEF RequestsKnowTheirCode, RecordsAreDated
<1>4. ASSUME NEW ph \in Phones, NEW c \in Codes
      PROVE  UsedUp(ph, c) = {} /\ Logging(ph, c) = {} /\ finds[<<ph, c>>] = 0
    BY <1>2 DEF UsedUp, WithCode, To, Logging
<1>5. NewestExists
    BY <1>2 DEF NewestExists, To
<1>6. IsFiniteSet({}) /\ Cardinality({}) = 0
    BY FS_EmptySet
<1>7. LoginsAreCounted
  <2> SUFFICES ASSUME NEW ph \in Phones, NEW c \in Codes
               PROVE  /\ IsFiniteSet(UsedUp(ph, c)) /\ IsFiniteSet(Logging(ph, c))
                      /\ Cardinality(UsedUp(ph, c)) + Cardinality(Logging(ph, c))
                           <= finds[<<ph, c>>]
      BY DEF LoginsAreCounted
  <2>1. /\ IsFiniteSet(UsedUp(ph, c)) /\ IsFiniteSet(Logging(ph, c))
        /\ Cardinality(UsedUp(ph, c)) = 0 /\ Cardinality(Logging(ph, c)) = 0
        /\ finds[<<ph, c>>] = 0
      BY ONLY <1>4, <1>6
  <2> QED
      BY ONLY <2>1
<1> QED
    BY <1>1, <1>3, <1>5, <1>7 DEF Inv

\* As long as no record is used up and no login begins, the count is right.
LEMMA CountIsKept ==
    ASSUME Inv, finds' = finds,
           \A ph \in Phones, c \in Codes :
               UsedUp(ph, c)' = UsedUp(ph, c) /\ Logging(ph, c)' \subseteq Logging(ph, c)
    PROVE  LoginsAreCounted'
<1> SUFFICES ASSUME NEW ph \in Phones, NEW c \in Codes
             PROVE  /\ IsFiniteSet(UsedUp(ph, c)') /\ IsFiniteSet(Logging(ph, c)')
                    /\ Cardinality(UsedUp(ph, c)') + Cardinality(Logging(ph, c)')
                         <= finds'[<<ph, c>>]
    BY DEF LoginsAreCounted
<1>1. /\ IsFiniteSet(UsedUp(ph, c)) /\ IsFiniteSet(Logging(ph, c))
      /\ Cardinality(UsedUp(ph, c)) + Cardinality(Logging(ph, c)) <= finds[<<ph, c>>]
    BY DEF Inv, LoginsAreCounted
<1>2. /\ IsFiniteSet(Logging(ph, c)')
      /\ Cardinality(Logging(ph, c)') <= Cardinality(Logging(ph, c))
    BY <1>1, FS_Subset
<1>3. /\ Cardinality(UsedUp(ph, c)) \in Nat /\ Cardinality(Logging(ph, c)) \in Nat
      /\ Cardinality(Logging(ph, c)') \in Nat /\ finds[<<ph, c>>] \in Nat
    BY <1>1, <1>2, FS_CardinalityType DEF Inv, TypeOK
<1> QED
    BY <1>1, <1>2, <1>3

\* A request to send that is let through.
LEMMA CheckKeepsInv ==
    ASSUME Inv, NEW p \in Procs, NEW ph \in Phones, Check(p, ph)
    PROVE  Inv'
<1>1. PICK c \in Codes : /\ pc[p] = "idle" /\ pc' = [pc EXCEPT ![p] = "store"]
                         /\ phone' = [phone EXCEPT ![p] = ph]
                         /\ code' = [code EXCEPT ![p] = c]
    BY DEF Check, Begin
<1>2. /\ checked' = [checked EXCEPT ![p] = clock]
      /\ UNCHANGED <<clock, codes, target, overlapped, sentAt, finds, accepts, slips, covered>>
    BY DEF Check, observed
<1>3. TypeOK'
    BY <1>1, <1>2 DEF Inv, TypeOK
<1>4. RequestsKnowTheirCode'
    BY <1>1, <1>2 DEF Inv, TypeOK, RequestsKnowTheirCode, WithCode, To
<1>5. RecordsAreDated' /\ NewestExists'
    BY <1>2 DEF Inv, RecordsAreDated, NewestExists, To, IsLast
<1>6. ASSUME NEW n \in Phones, NEW d \in Codes
      PROVE  UsedUp(n, d)' = UsedUp(n, d) /\ Logging(n, d)' \subseteq Logging(n, d)
    BY <1>1, <1>2 DEF UsedUp, WithCode, To, Logging, Inv, TypeOK
<1>7. LoginsAreCounted'
    BY <1>2, <1>6, CountIsKept
<1> QED
    BY <1>3, <1>4, <1>5, <1>7 DEF Inv

\* A request is over, whatever it has come to, without a write to the table.
LEMMA EndKeepsInv ==
    ASSUME Inv, NEW p \in Procs, EndRequest(p), accepts' \in [Phones \X Codes -> Nat],
           slips' \in SUBSET (Phones \X Codes \X Nat),
           UNCHANGED <<clock, codes, sentAt, finds, covered>>
    PROVE  Inv'
<1>1. TypeOK'
    BY DEF Inv, TypeOK, EndRequest
<1>2. RequestsKnowTheirCode'
    BY DEF Inv, TypeOK, RequestsKnowTheirCode, EndRequest, WithCode, To
<1>3. RecordsAreDated' /\ NewestExists'
    BY DEF Inv, RecordsAreDated, NewestExists, To, IsLast
<1>4. ASSUME NEW n \in Phones, NEW d \in Codes
      PROVE  UsedUp(n, d)' = UsedUp(n, d) /\ Logging(n, d)' \subseteq Logging(n, d)
    BY DEF EndRequest, UsedUp, WithCode, To, Logging, Inv, TypeOK
<1>5. LoginsAreCounted'
    BY <1>4, CountIsKept
<1> QED
    BY <1>1, <1>2, <1>3, <1>5 DEF Inv

\* The insert of a record: it is the last of the list, or the last stays last.
LEMMA StoreKeepsInv ==
    ASSUME Inv, NEW p \in Procs, Store(p)
    PROVE  Inv'
<1>1. PICK i \in Ids \ Rows(codes), t \in Now(p) :
        /\ codes' = Created(codes, i, NewRecord(p, t))
        /\ sentAt' = [sentAt EXCEPT ![i] = t]
    BY DEF Store
<1>2. /\ pc[p] = "store" /\ pc' = [pc EXCEPT ![p] = "send"]
      /\ UNCHANGED <<clock, phone, code, checked, target, overlapped, finds, accepts, slips, covered>>
    BY DEF Store
<1>3. /\ t \in Nat /\ t <= clock /\ clock \in Nat /\ TTL \in Nat
      /\ phone[p] \in Phones /\ code[p] \in Codes
    BY <1>2, Parameters DEF Now, Inv, TypeOK, RequestsKnowTheirCode
<1>4. NewRecord(p, t) \in Record
    BY <1>3, CutIsClose DEF NewRecord, Record
<1>5. /\ codes[i] = None /\ codes'[i] = NewRecord(p, t) /\ codes'[i] # None
      /\ \A j \in Ids \ {i} : codes'[j] = codes[j] /\ sentAt'[j] = sentAt[j]
      /\ sentAt'[i] = t
      /\ Rows(codes') = Rows(codes) \cup {i}
    BY <1>1, <1>4, NoneIsNoRecord DEF Inv, TypeOK, Created, Rows
<1>6. TypeOK'
    BY <1>1, <1>2, <1>3, <1>4 DEF Inv, TypeOK, Created
<1>7. /\ codes'[i].phone = phone[p] /\ ~codes'[i].used
      /\ codes'[i].expires = CutToSecond(t + TTL)
      /\ codes'[i].created = CutToSecond(t)
    BY <1>5 DEF NewRecord
<1>8. \A n \in Phones : To(n)' = IF n = phone[p] THEN To(n) \cup {i} ELSE To(n)
    BY <1>5, <1>7 DEF To, Rows
<1>9. RequestsKnowTheirCode'
  <2>1. \A n \in Phones, d \in Codes : \A j \in WithCode(n, d) :
           j \in WithCode(n, d)' /\ codes'[j] = codes[j]
      BY <1>1, <1>5, <1>8 DEF WithCode, To, Rows
  <2> QED
      BY <1>2, <2>1 DEF Inv, TypeOK, RequestsKnowTheirCode
<1>10. RecordsAreDated'
    BY <1>2, <1>3, <1>5, <1>7 DEF Inv, RecordsAreDated, Rows
<1>11. NewestExists'
  <2> SUFFICES ASSUME NEW n \in Phones, To(n)' # {}
               PROVE  \E k \in Ids : IsLast(codes', k, To(n)')
      BY DEF NewestExists
  <2>1. CASE n # phone[p]
    <3>1. PICK k \in Ids : IsLast(codes, k, To(n))
        BY <1>8, <2>1 DEF Inv, NewestExists
    <3> QED
        BY <1>5, <1>8, <2>1, <3>1 DEF IsLast, Before, To, Rows
  <2>2. CASE n = phone[p] /\ To(n) = {}
      BY <1>8, <2>2 DEF IsLast
  <2>3. CASE n = phone[p] /\ To(n) # {}
    <3>1. PICK k \in Ids : IsLast(codes, k, To(n))
        BY <2>3 DEF Inv, NewestExists
    <3>2. k \in To(n) /\ \A j \in To(n) \ {k} : Before(codes, j, k)
        BY <3>1 DEF IsLast
    <3>3. \A j \in To(n) : j \in Ids /\ j # i /\ codes'[j] = codes[j]
        BY <1>5 DEF To, Rows
    <3>4. \A j \in To(n)' : j \in Ids /\ codes'[j].created \in Nat
        BY <1>6, RowsAreRecords DEF To, Rows, TypeOK, Record
    <3>5. \A j \in To(n) \ {k} : Before(codes', j, k)
        BY <3>2, <3>3 DEF Before
    <3>6. To(n)' = To(n) \cup {i}
        BY <1>8, <2>3
    <3>7. CASE Before(codes', k, i)
      <4>1. \A j \in To(n) : Before(codes', j, i)
          BY <3>2, <3>4, <3>5, <3>6, <3>7, BeforeIsTransitive
      <4> QED
          BY <3>6, <4>1 DEF IsLast
    <3>8. CASE Before(codes', i, k)
        BY <3>2, <3>5, <3>6, <3>8 DEF IsLast
    <3> QED
        BY <3>2, <3>3, <3>4, <3>6, <3>7, <3>8, BeforeIsTotal
  <2> QED
      BY <2>1, <2>2, <2>3
<1>12. ASSUME NEW n \in Phones, NEW d \in Codes
       PROVE  UsedUp(n, d)' = UsedUp(n, d) /\ Logging(n, d)' \subseteq Logging(n, d)
  <2>1. UsedUp(n, d)' = UsedUp(n, d)
      BY <1>5, <1>7, <1>8 DEF UsedUp, WithCode, To, Rows
  <2>2. Logging(n, d)' \subseteq Logging(n, d)
      BY <1>2 DEF Logging, Inv, TypeOK
  <2> QED
      BY <2>1, <2>2
<1>13. LoginsAreCounted'
    BY <1>2, <1>12, CountIsKept
<1> QED
    BY <1>6, <1>9, <1>10, <1>11, <1>13 DEF Inv

\* A login that found a valid record is counted.
LEMMA FindKeepsInv ==
    ASSUME Inv, NEW p \in Procs, NEW ph \in Phones, NEW c \in Codes, Find(p, ph, c)
    PROVE  Inv'
<1>1. /\ pc[p] = "idle" /\ pc' = [pc EXCEPT ![p] = "pick"]
      /\ phone' = [phone EXCEPT ![p] = ph] /\ code' = [code EXCEPT ![p] = c]
      /\ finds' = [finds EXCEPT ![<<ph, c>>] = @ + 1]
      /\ covered' = covered \cup Valid(ph, c)
      /\ overlapped' \in {overlapped, overlapped \cup Logging(ph, c) \cup {p}}
      /\ UNCHANGED <<clock, codes, checked, target, sentAt, accepts, slips>>
    BY DEF Find, Begin
<1>2. Valid(ph, c) \subseteq Ids
    BY DEF Valid, Unused, To, Rows
<1>3. TypeOK'
  <2>1. overlapped' \in SUBSET Procs
      BY <1>1 DEF Inv, TypeOK, Logging
  <2> QED
      BY <1>1, <1>2, <2>1 DEF Inv, TypeOK
<1>4. RequestsKnowTheirCode'
    BY <1>1 DEF Inv, TypeOK, RequestsKnowTheirCode, WithCode, To
<1>5. RecordsAreDated' /\ NewestExists'
    BY <1>1 DEF Inv, RecordsAreDated, NewestExists, To, IsLast
<1>6. ASSUME NEW n \in Phones, NEW d \in Codes
      PROVE  /\ IsFiniteSet(UsedUp(n, d)') /\ IsFiniteSet(Logging(n, d)')
             /\ Cardinality(UsedUp(n, d)') + Cardinality(Logging(n, d)') <= finds'[<<n, d>>]
  <2>1. /\ IsFiniteSet(UsedUp(n, d)) /\ IsFiniteSet(Logging(n, d))
        /\ Cardinality(UsedUp(n, d)) + Cardinality(Logging(n, d)) <= finds[<<n, d>>]
      BY DEF Inv, LoginsAreCounted
  <2>2. UsedUp(n, d)' = UsedUp(n, d)
      BY <1>1 DEF UsedUp, WithCode, To
  <2>3. /\ Cardinality(UsedUp(n, d)) \in Nat /\ Cardinality(Logging(n, d)) \in Nat
        /\ finds[<<n, d>>] \in Nat
      BY <2>1, FS_CardinalityType DEF Inv, TypeOK
  <2>4. CASE n = ph /\ d = c
    <3>1. Logging(n, d)' = Logging(n, d) \cup {p} /\ p \notin Logging(n, d)
        BY <1>1, <2>4 DEF Logging, Inv, TypeOK
    <3>2. finds'[<<n, d>>] = finds[<<n, d>>] + 1
        BY <1>1, <2>4 DEF Inv, TypeOK
    <3>3. /\ IsFiniteSet(Logging(n, d)')
          /\ Cardinality(Logging(n, d)') = Cardinality(Logging(n, d)) + 1
        BY <2>1, <3>1, FS_AddElement
    <3> QED
        BY <2>1, <2>2, <2>3, <3>2, <3>3
  <2>5. CASE ~(n = ph /\ d = c)
    <3>1. Logging(n, d)' = Logging(n, d)
        BY <1>1, <2>5 DEF Logging, Inv, TypeOK
    <3>2. finds'[<<n, d>>] = finds[<<n, d>>]
        BY <1>1, <2>5 DEF Inv, TypeOK
    <3> QED
        BY <2>1, <2>2, <3>1, <3>2
  <2> QED
      BY <2>4, <2>5
<1>7. LoginsAreCounted'
    BY <1>6 DEF LoginsAreCounted
<1> QED
    BY <1>3, <1>4, <1>5, <1>7 DEF Inv

\* A login picks the record to mark among those of its number and code.
LEMMA PickKeepsInv ==
    ASSUME Inv, NEW p \in Procs, Pick(p)
    PROVE  Inv'
<1>1. PICK i \in Ids : /\ IsFirst(codes, i, Unused(phone[p], code[p]))
                       /\ target' = [target EXCEPT ![p] = [id |-> i, row |-> codes[i]]]
    BY DEF Pick
<1>2. /\ pc[p] = "pick" /\ pc' = [pc EXCEPT ![p] = "save"]
      /\ UNCHANGED <<clock, codes, phone, code, checked, overlapped,
                     sentAt, finds, accepts, slips, covered>>
    BY DEF Pick, observed
<1>3. i \in WithCode(phone[p], code[p]) /\ [id |-> i, row |-> codes[i]] \in Reading
    BY <1>1, RowsAreRecords DEF IsFirst, Unused, WithCode, To, Reading, Inv
<1>4. TypeOK'
    BY <1>1, <1>2, <1>3 DEF Inv, TypeOK
<1>5. RequestsKnowTheirCode'
    BY <1>1, <1>2, <1>3 DEF Inv, TypeOK, RequestsKnowTheirCode, WithCode, To
<1>6. RecordsAreDated' /\ NewestExists'
    BY <1>2 DEF Inv, RecordsAreDated, NewestExists, To, IsLast
<1>7. ASSUME NEW n \in Phones, NEW d \in Codes
      PROVE  UsedUp(n, d)' = UsedUp(n, d) /\ Logging(n, d)' \subseteq Logging(n, d)
    BY <1>2 DEF UsedUp, WithCode, To, Logging, Inv, TypeOK
<1>8. LoginsAreCounted'
    BY <1>2, <1>7, CountIsKept
<1> QED
    BY <1>4, <1>5, <1>6, <1>8 DEF Inv

\* Going on with the account, a login counts among those accepted, and perhaps
\* among the slips.
LEMMA AcceptsAreNumbers ==
    ASSUME Inv, NEW p \in Procs, pc[p] # "idle", NEW failed \in BOOLEAN, Accept(p, failed)
    PROVE  /\ accepts' \in [Phones \X Codes -> Nat]
           /\ slips' \in SUBSET (Phones \X Codes \X Nat)
           /\ EndRequest(p) /\ UNCHANGED <<clock, sentAt, finds, covered>>
<1>1. /\ <<phone[p], code[p]>> \in Phones \X Codes
      /\ phone[p] \in Phones /\ code[p] \in Codes
    BY DEF Inv, RequestsKnowTheirCode
<1>2. accepts' \in [Phones \X Codes -> Nat]
    BY <1>1 DEF Accept, Inv, TypeOK
<1>3. accepts'[<<phone[p], code[p]>>] \in Nat
    BY <1>1, <1>2
<1>4. slips' \in SUBSET (Phones \X Codes \X Nat)
    BY <1>1, <1>3 DEF Accept, Inv, TypeOK
<1> QED
    BY <1>2, <1>4 DEF Accept

\* A mark that is made twice is made once.
LEMMA MarkedTwice ==
    ASSUME NEW record \in Record
    PROVE  Marked(record) \in Record /\ Marked(Marked(record)) = Marked(record)
BY DEF Marked, Record

\* What a save writes is the record as it is by now, with the mark.
LEMMA SavedIsMarked ==
    ASSUME Inv, NEW p \in Procs, pc[p] = "save"
    PROVE  /\ target[p].id \in WithCode(phone[p], code[p])
           /\ Marked(target[p].row) = Marked(codes[target[p].id])
BY MarkedTwice DEF Inv, RequestsKnowTheirCode, Reading

\* The mark: where a record is newly used up, its login is over.
LEMMA SaveKeepsInv ==
    ASSUME Inv, NEW p \in Procs, Save(p)
    PROVE  Inv'
<1> DEFINE ph == phone[p]
           c == code[p]
           i == target[p].id
<1>1. /\ pc[p] = "save" /\ EndRequest(p)
      /\ accepts' \in [Phones \X Codes -> Nat]
      /\ slips' \in SUBSET (Phones \X Codes \X Nat)
      /\ UNCHANGED <<clock, sentAt, finds, covered>>
    BY AcceptsAreNumbers DEF Save
<1>2. ph \in Phones /\ c \in Codes /\ i \in WithCode(ph, c)
    BY <1>1, SavedIsMarked DEF Inv, RequestsKnowTheirCode
<1>3. CASE codes' = codes
    BY <1>1, <1>3, EndKeepsInv
<1>4. CASE codes' = Saved(codes, i, Marked(codes[i]))
  <2>1. i \in Rows(codes) /\ i \in Ids /\ codes[i] \in Record
      BY <1>2, RowsAreRecords DEF Inv, WithCode, To
  <2>2. codes' = [codes EXCEPT ![i] = Marked(codes[i])]
      BY <1>4 DEF Saved
  <2>3. /\ Marked(codes[i]) \in Record /\ Marked(codes[i]).used = TRUE
        /\ Marked(codes[i]).phone = codes[i].phone /\ Marked(codes[i]).code = codes[i].code
        /\ Marked(codes[i]).created = codes[i].created
        /\ Marked(codes[i]).expires = codes[i].expires
      BY <2>1 DEF Marked, Record
  <2>4. /\ codes'[i].used /\ codes'[i] # None
        /\ codes'[i].phone = codes[i].phone /\ codes'[i].code = codes[i].code
        /\ codes'[i].created = codes[i].created /\ codes'[i].expires = codes[i].expires
        /\ \A j \in Ids \ {i} : codes'[j] = codes[j]
      BY <2>1, <2>2, <2>3, NoneIsNoRecord DEF Inv, TypeOK
  <2>5. Rows(codes') = Rows(codes)
      BY <2>1, <2>4 DEF Rows
  <2>6. \A n \in Phones : To(n)' = To(n)
      BY <2>4, <2>5 DEF To, Rows
  <2>7. \A n \in Phones, d \in Codes : WithCode(n, d)' = WithCode(n, d)
      BY <2>4, <2>6 DEF WithCode, To, Rows
  <2>8. TypeOK'
      BY <1>1, <2>2, <2>3 DEF Inv, TypeOK, EndRequest
  <2>9. RequestsKnowTheirCode'
    <3> SUFFICES ASSUME NEW q \in Procs, q # p, pc[q] = "save"
                 PROVE  codes'[target[q].id] \in {target[q].row, Marked(target[q].row)}
        BY <1>1, <2>7 DEF Inv, TypeOK, RequestsKnowTheirCode, EndRequest
    <3>1. /\ target[q].id \in Ids /\ target[q].row \in Record
          /\ codes[target[q].id] \in {target[q].row, Marked(target[q].row)}
        BY DEF Inv, RequestsKnowTheirCode, Reading
    <3>2. CASE target[q].id = i
        BY <2>1, <2>2, <3>1, <3>2, MarkedTwice DEF Inv, TypeOK
    <3>3. CASE target[q].id # i
        BY <2>4, <3>1, <3>3
    <3> QED
        BY <3>2, <3>3
  <2>10. RecordsAreDated'
      BY <1>1, <2>4, <2>5 DEF Inv, RecordsAreDated, Rows
  <2>11. NewestExists'
    <3> SUFFICES ASSUME NEW n \in Phones, To(n)' # {}
                 PROVE  \E k \in Ids : IsLast(codes', k, To(n)')
        BY DEF NewestExists
    <3>1. PICK k \in Ids : IsLast(codes, k, To(n))
        BY <2>6 DEF Inv, NewestExists
    <3>2. \A j \in Ids : codes'[j].created = codes[j].created
        BY <2>4
    <3>3. To(n) \subseteq Ids
        BY DEF To, Rows
    <3> QED
        BY <2>6, <3>1, <3>2, <3>3 DEF IsLast, Before
  <2>12. ASSUME NEW n \in Phones, NEW d \in Codes
         PROVE  /\ IsFiniteSet(UsedUp(n, d)') /\ IsFiniteSet(Logging(n, d)')
                /\ Cardinality(UsedUp(n, d)') + Cardinality(Logging(n, d)') <= finds'[<<n, d>>]
    <3>1. /\ IsFiniteSet(UsedUp(n, d)) /\ IsFiniteSet(Logging(n, d))
          /\ Cardinality(UsedUp(n, d)) + Cardinality(Logging(n, d)) <= finds[<<n, d>>]
        BY DEF Inv, LoginsAreCounted
    <3>2. /\ Cardinality(UsedUp(n, d)) \in Nat /\ Cardinality(Logging(n, d)) \in Nat
          /\ finds[<<n, d>>] \in Nat
        BY <3>1, FS_CardinalityType DEF Inv, TypeOK
    <3>3. Logging(n, d)' = Logging(n, d) \ {p}
        BY <1>1 DEF Logging, EndRequest, Inv, TypeOK
    <3>4. /\ IsFiniteSet(Logging(n, d)')
          /\ Cardinality(Logging(n, d)') =
               IF p \in Logging(n, d) THEN Cardinality(Logging(n, d)) - 1
                                      ELSE Cardinality(Logging(n, d))
        BY <3>1, <3>3, FS_RemoveElement
    <3>5. CASE n = ph /\ d = c
      <4>1. UsedUp(n, d)' = UsedUp(n, d) \cup {i}
          BY <1>2, <2>1, <2>4, <2>7, <3>5 DEF UsedUp, WithCode, To, Rows
      <4>2. /\ IsFiniteSet(UsedUp(n, d)')
            /\ Cardinality(UsedUp(n, d)') \in
                 {Cardinality(UsedUp(n, d)), Cardinality(UsedUp(n, d)) + 1}
          BY <3>1, <4>1, FS_AddElement
      <4>3. p \in Logging(n, d)
          BY <1>1, <3>5 DEF Logging
      <4>4. Cardinality(Logging(n, d)') = Cardinality(Logging(n, d)) - 1
          BY <3>4, <4>3
      <4> QED
          BY <1>1, <3>1, <3>2, <3>4, <4>2, <4>4
    <3>6. CASE ~(n = ph /\ d = c)
      <4>1. UsedUp(n, d)' = UsedUp(n, d)
          BY <1>2, <2>1, <2>4, <2>7, <3>6 DEF UsedUp, WithCode, To, Rows
      <4>2. Cardinality(Logging(n, d)') <= Cardinality(Logging(n, d))
            /\ Cardinality(Logging(n, d)') \in Nat
          BY <3>2, <3>4, FS_CardinalityType
      <4> QED
          BY <1>1, <3>1, <3>2, <3>4, <4>1, <4>2
    <3> QED
        BY <3>5, <3>6
  <2>13. LoginsAreCounted'
      BY <2>12 DEF LoginsAreCounted
  <2> QED
      BY <2>8, <2>9, <2>10, <2>11, <2>13 DEF Inv
<1> QED
    BY <1>1, <1>3, <1>4, SavedIsMarked DEF Save

\* Time passes.
LEMMA TickKeepsInv == Inv /\ Tick => Inv'
<1> SUFFICES ASSUME Inv, Tick PROVE Inv'
    OBVIOUS
<1>1. /\ clock \in Nat /\ clock' = clock + 1
      /\ UNCHANGED <<codes, pc, phone, code, checked, target, overlapped,
                     sentAt, finds, accepts, slips, covered>>
    BY DEF Tick, request, observed, Inv, TypeOK
<1>2. TypeOK'
    BY <1>1 DEF Inv, TypeOK
<1>3. RequestsKnowTheirCode'
    BY <1>1 DEF Inv, TypeOK, RequestsKnowTheirCode, WithCode, To
<1>4. RecordsAreDated'
    BY <1>1, RowsAreRecords DEF Inv, RecordsAreDated
<1>5. NewestExists'
    BY <1>1 DEF Inv, NewestExists, To, IsLast
<1>6. ASSUME NEW n \in Phones, NEW d \in Codes
      PROVE  UsedUp(n, d)' = UsedUp(n, d) /\ Logging(n, d)' \subseteq Logging(n, d)
    BY <1>1 DEF UsedUp, WithCode, To, Logging
<1>7. LoginsAreCounted'
    BY <1>1, <1>6, CountIsKept
<1> QED
    BY <1>2, <1>3, <1>4, <1>5, <1>7 DEF Inv

\* Every step keeps the invariant.
LEMMA NextKeepsInv == Inv /\ [Next]_vars => Inv'
<1> SUFFICES ASSUME Inv, [Next]_vars PROVE Inv'
    OBVIOUS
<1>1. CASE UNCHANGED vars
  <2>1. TypeOK' /\ RequestsKnowTheirCode' /\ RecordsAreDated'
      BY <1>1 DEF vars, request, observed, Inv, TypeOK, RequestsKnowTheirCode,
                  RecordsAreDated, WithCode, To
  <2>2. NewestExists'
      BY <1>1 DEF vars, Inv, NewestExists, To, IsLast
  <2>3. ASSUME NEW n \in Phones, NEW d \in Codes
        PROVE  UsedUp(n, d)' = UsedUp(n, d) /\ Logging(n, d)' \subseteq Logging(n, d)
      BY <1>1 DEF vars, request, UsedUp, WithCode, To, Logging
  <2>4. LoginsAreCounted'
      BY <1>1, <2>3, CountIsKept DEF vars, observed
  <2> QED
      BY <2>1, <2>2, <2>4 DEF Inv
<1>2. CASE Tick
    BY <1>2, TickKeepsInv
<1>3. ASSUME NEW p \in Procs, Request(p) PROVE Inv'
  <2>1. ASSUME NEW ph \in Phones, Check(p, ph) PROVE Inv'
      BY <2>1, CheckKeepsInv
  <2>2. CASE Store(p)
      BY <2>2, StoreKeepsInv
  <2>3. CASE StoreFails(p) \/ Send(p) \/ Abandon(p)
    <3>1. /\ EndRequest(p) /\ accepts' \in [Phones \X Codes -> Nat]
          /\ slips' \in SUBSET (Phones \X Codes \X Nat)
          /\ UNCHANGED <<clock, codes, sentAt, finds, covered>>
        BY <2>3 DEF StoreFails, Send, Abandon, observed, Inv, TypeOK
    <3> QED
        BY <3>1, EndKeepsInv
  <2>4. ASSUME NEW ph \in Phones, NEW c \in Codes, Find(p, ph, c) PROVE Inv'
      BY <2>4, FindKeepsInv
  <2>5. CASE Pick(p)
      BY <2>5, PickKeepsInv
  <2>6. CASE PickNothing(p)
    <3>1. /\ EndRequest(p) /\ accepts' \in [Phones \X Codes -> Nat]
          /\ slips' \in SUBSET (Phones \X Codes \X Nat)
          /\ UNCHANGED <<clock, codes, sentAt, finds, covered>>
        BY <2>6, AcceptsAreNumbers DEF PickNothing
    <3> QED
        BY <3>1, EndKeepsInv
  <2>7. CASE Save(p)
      BY <2>7, SaveKeepsInv
  <2>8. CASE \E ph \in Phones : CheckRefused(p, ph)
             \/ \E c \in Codes : FindNothing(p, ph, c)
      BY <1>1, <2>8 DEF CheckRefused, FindNothing
  <2> QED
      BY <1>3, <2>1, <2>2, <2>3, <2>4, <2>5, <2>6, <2>7, <2>8 DEF Request
<1> QED
    BY <1>1, <1>2, <1>3 DEF Next

-------------------------------------------------------------------------------
(* Logins use up records of their own. *)

\* As long as no login begins or is accepted, no record is used up and none that
\* could be is lost, nothing changes for the logins.
LEMMA MarksAreKept ==
    ASSUME Inv, Marks, UNCHANGED <<accepts, slips>>,
           \A ph \in Phones, c \in Codes :
               /\ UsedUp(ph, c)' = UsedUp(ph, c)
               /\ Logging(ph, c)' \subseteq Logging(ph, c)
               /\ Unused(ph, c) \subseteq Unused(ph, c)',
           \A q \in Procs : pc'[q] \in {"pick", "save"} /\ q \notin overlapped' =>
               /\ q \notin overlapped /\ pc'[q] = pc[q]
               /\ phone'[q] = phone[q] /\ code'[q] = code[q]
               /\ pc[q] = "save" => /\ target'[q] = target[q]
                                    /\ codes'[target[q].id] = codes[target[q].id]
    PROVE  Marks'
<1>1. LoginsHaveARecord'
  <2> SUFFICES ASSUME NEW q \in Procs, pc'[q] \in {"pick", "save"}, q \notin overlapped'
               PROVE  /\ Logging(phone[q], code[q])' \subseteq {q}
                      /\ pc'[q] = "pick" => Unused(phone[q], code[q])' # {}
                      /\ pc'[q] = "save" => ~codes'[target'[q].id].used
      BY DEF LoginsHaveARecord
  <2>1. phone[q] \in Phones /\ code[q] \in Codes
      BY DEF Inv, RequestsKnowTheirCode
  <2>2. phone'[q] = phone[q] /\ code'[q] = code[q]
      OBVIOUS
  <2>3. /\ Logging(phone[q], code[q]) \subseteq {q}
        /\ pc[q] = "pick" => Unused(phone[q], code[q]) # {}
        /\ pc[q] = "save" => ~codes[target[q].id].used
      BY DEF Marks, LoginsHaveARecord
  <2>4. /\ Logging(phone[q], code[q])' \subseteq Logging(phone[q], code[q])
        /\ Unused(phone[q], code[q]) \subseteq Unused(phone[q], code[q])'
      BY <2>1, <2>2 DEF Logging, Unused, To
  <2> QED
      BY <2>3, <2>4
<1>2. LoginsArePaid'
    BY DEF Marks, LoginsArePaid, Slips
<1> QED
    BY <1>1, <1>2 DEF Marks

\* A request to send is let through, or any request ends without being accepted.
LEMMA SendingKeepsMarks ==
    ASSUME Inv, Marks, NEW p \in Procs, UNCHANGED <<codes, accepts, slips>>,
           \/ \E ph \in Phones : Check(p, ph)
           \/ EndRequest(p)
    PROVE  Marks'
<1>1. \A n \in Phones, d \in Codes :
        UsedUp(n, d)' = UsedUp(n, d) /\ Unused(n, d)' = Unused(n, d)
    BY DEF UsedUp, WithCode, To, Unused
<1>2. \A q \in Procs : pc'[q] \in {"pick", "save"} =>
        /\ q # p /\ pc'[q] = pc[q] /\ phone'[q] = phone[q] /\ code'[q] = code[q]
        /\ target'[q] = target[q] /\ (q \in overlapped => q \in overlapped')
    BY DEF Check, Begin, EndRequest, Inv, TypeOK
<1>3. \A n \in Phones, d \in Codes : Logging(n, d)' \subseteq Logging(n, d)
    BY <1>2 DEF Logging
<1> QED
    BY <1>1, <1>2, <1>3, MarksAreKept

\* A new record is one that is not used up.
LEMMA StoreKeepsMarks ==
    ASSUME Inv, Marks, NEW p \in Procs, Store(p)
    PROVE  Marks'
<1>1. PICK i \in Ids \ Rows(codes), t \in Now(p) : codes' = Created(codes, i, NewRecord(p, t))
    BY DEF Store
<1>2. /\ pc[p] = "store" /\ pc' = [pc EXCEPT ![p] = "send"]
      /\ UNCHANGED <<phone, code, target, overlapped, accepts, slips>>
    BY DEF Store
<1>3. /\ codes[i] = None
      /\ codes'[i] = NewRecord(p, t) /\ ~codes'[i].used
      /\ \A j \in Ids \ {i} : codes'[j] = codes[j]
    BY <1>1 DEF Inv, TypeOK, Created, Rows, NewRecord
<1>4. ASSUME NEW n \in Phones, NEW d \in Codes
      PROVE  /\ UsedUp(n, d)' = UsedUp(n, d)
             /\ Logging(n, d)' \subseteq Logging(n, d)
             /\ Unused(n, d) \subseteq Unused(n, d)'
  <2>1. UsedUp(n, d)' = UsedUp(n, d) /\ Unused(n, d) \subseteq Unused(n, d)'
      BY <1>3 DEF UsedUp, WithCode, To, Unused, Rows
  <2>2. Logging(n, d)' \subseteq Logging(n, d)
      BY <1>2 DEF Logging, Inv, TypeOK
  <2> QED
      BY <2>1, <2>2
<1>5. ASSUME NEW q \in Procs, pc'[q] \in {"pick", "save"}
      PROVE  /\ pc'[q] = pc[q]
             /\ pc[q] = "save" => codes'[target[q].id] = codes[target[q].id]
  <2>1. pc'[q] = pc[q]
      BY <1>2, <1>5 DEF Inv, TypeOK
  <2>2. pc[q] = "save" => target[q].id \in Ids \ {i}
      BY <1>3 DEF Inv, RequestsKnowTheirCode, WithCode, To, Rows
  <2> QED
      BY <1>3, <2>1, <2>2
<1> QED
    BY <1>2, <1>4, <1>5, MarksAreKept

\* A login that begins has a record to use up, or others beside it.
LEMMA FindKeepsMarks ==
    ASSUME Inv, Marks, NEW p \in Procs, NEW ph \in Phones, NEW c \in Codes, Find(p, ph, c)
    PROVE  Marks'
<1>1. /\ pc[p] = "idle" /\ pc' = [pc EXCEPT ![p] = "pick"]
      /\ phone' = [phone EXCEPT ![p] = ph] /\ code' = [code EXCEPT ![p] = c]
      /\ overlapped' = IF Logging(ph, c) = {} THEN overlapped
                       ELSE overlapped \cup Logging(ph, c) \cup {p}
      /\ UNCHANGED <<codes, target, accepts, slips>>
      /\ Valid(ph, c) # {}
    BY DEF Find, Begin
<1>2. \A n \in Phones, d \in Codes :
        UsedUp(n, d)' = UsedUp(n, d) /\ Unused(n, d)' = Unused(n, d)
    BY <1>1 DEF UsedUp, WithCode, To, Unused
<1>3. LoginsArePaid'
    BY <1>1, <1>2 DEF Marks, LoginsArePaid, Slips
<1>4. LoginsHaveARecord'
  <2> SUFFICES ASSUME NEW q \in Procs, pc'[q] \in {"pick", "save"}, q \notin overlapped'
               PROVE  /\ Logging(phone[q], code[q])' \subseteq {q}
                      /\ pc'[q] = "pick" => Unused(phone[q], code[q])' # {}
                      /\ pc'[q] = "save" => ~codes'[target'[q].id].used
      BY DEF LoginsHaveARecord
  <2>1. /\ pc'[p] = "pick" /\ phone'[p] = ph /\ code'[p] = c
        /\ \A r \in Procs \ {p} : /\ pc'[r] = pc[r] /\ phone'[r] = phone[r]
                                  /\ code'[r] = code[r]
      BY <1>1 DEF Inv, TypeOK
  <2>2. CASE q = p
    <3>1. Logging(ph, c) = {}
        BY <1>1, <2>2
    <3>2. Logging(phone[q], code[q])' \subseteq {q}
        BY <2>1, <2>2, <3>1 DEF Logging
    <3>3. Unused(ph, c) # {}
        BY <1>1 DEF Valid
    <3>4. Unused(phone[q], code[q])' # {}
        BY <1>1, <2>1, <2>2, <3>3 DEF Unused, To
    <3> QED
        BY <2>1, <2>2, <3>2, <3>4
  <2>3. CASE q # p
    <3>1. q \notin overlapped /\ q \notin Logging(ph, c)
        BY <1>1, <2>3
    <3>2. pc[q] \in {"pick", "save"} /\ ~(phone[q] = ph /\ code[q] = c)
        BY <2>1, <2>3, <3>1 DEF Logging
    <3>3. /\ Logging(phone[q], code[q]) \subseteq {q}
          /\ pc[q] = "pick" => Unused(phone[q], code[q]) # {}
          /\ pc[q] = "save" => ~codes[target[q].id].used
        BY <3>1, <3>2 DEF Marks, LoginsHaveARecord
    <3>4. Logging(phone[q], code[q])' \subseteq {q}
        BY <2>1, <2>3, <3>2, <3>3 DEF Logging
    <3>5. Unused(phone[q], code[q])' = Unused(phone[q], code[q])
        BY <1>1, <2>1, <2>3 DEF Unused, To
    <3> QED
        BY <1>1, <2>1, <2>3, <3>3, <3>4, <3>5
  <2> QED
      BY <2>2, <2>3
<1> QED
    BY <1>3, <1>4 DEF Marks

\* What is picked is unused.
LEMMA PickKeepsMarks ==
    ASSUME Inv, Marks, NEW p \in Procs, Pick(p)
    PROVE  Marks'
<1>1. PICK i \in Ids : /\ IsFirst(codes, i, Unused(phone[p], code[p]))
                       /\ target' = [target EXCEPT ![p] = [id |-> i, row |-> codes[i]]]
    BY DEF Pick
<1>2. /\ pc[p] = "pick" /\ pc' = [pc EXCEPT ![p] = "save"]
      /\ UNCHANGED <<codes, phone, code, overlapped, accepts, slips>>
    BY DEF Pick, observed
<1>3. ~codes[i].used
    BY <1>1 DEF IsFirst, Unused
<1>4. LoginsArePaid'
    BY <1>2 DEF Marks, LoginsArePaid, Slips, UsedUp, WithCode, To
<1>5. LoginsHaveARecord'
  <2> SUFFICES ASSUME NEW q \in Procs, pc'[q] \in {"pick", "save"}, q \notin overlapped
               PROVE  /\ Logging(phone[q], code[q])' \subseteq {q}
                      /\ pc'[q] = "pick" => Unused(phone[q], code[q])' # {}
                      /\ pc'[q] = "save" => ~codes'[target'[q].id].used
      BY <1>2 DEF LoginsHaveARecord
  <2>1. /\ pc[q] \in {"pick", "save"}
        /\ pc'[p] = "save" /\ target'[p].id = i
        /\ \A r \in Procs \ {p} : pc'[r] = pc[r] /\ target'[r] = target[r]
      BY <1>1, <1>2 DEF Inv, TypeOK
  <2>2. /\ Logging(phone[q], code[q])' = Logging(phone[q], code[q])
        /\ Unused(phone[q], code[q])' = Unused(phone[q], code[q])
      BY <1>2, <2>1 DEF Logging, Unused, To
  <2>3. /\ Logging(phone[q], code[q]) \subseteq {q}
        /\ pc[q] = "pick" => Unused(phone[q], code[q]) # {}
        /\ pc[q] = "save" => ~codes[target[q].id].used
      BY <2>1 DEF Marks, LoginsHaveARecord
  <2> QED
      BY <1>2, <1>3, <2>1, <2>2, <2>3
<1> QED
    BY <1>4, <1>5 DEF Marks

\* A login that is accepted has used up a record of its number and code, or is a
\* new one of the slips.
LEMMA AcceptIsPaid ==
    ASSUME Inv, Marks, NEW p \in Procs, PickNothing(p) \/ Save(p)
    PROVE  \/ /\ slips' = slips
              /\ \E i \in Unused(phone[p], code[p]) :
                   codes' = [codes EXCEPT ![i] = Marked(codes[i])]
           \/ /\ slips' = slips \cup {<<phone[p], code[p], accepts[<<phone[p], code[p]>>] + 1>>}
              /\ <<phone[p], code[p], accepts[<<phone[p], code[p]>>] + 1>> \notin slips
              /\ \/ codes' = codes
                 \/ \E i \in WithCode(phone[p], code[p]) :
                      codes' = [codes EXCEPT ![i] = Marked(codes[i])]
<1> DEFINE s == <<phone[p], code[p], accepts[<<phone[p], code[p]>>] + 1>>
<1>1. /\ phone[p] \in Phones /\ code[p] \in Codes
      /\ pc[p] \in {"pick", "save"}
      /\ accepts[<<phone[p], code[p]>>] \in Nat
    BY DEF PickNothing, Save, Inv, RequestsKnowTheirCode, TypeOK
<1>2. s \notin slips
  <2> SUFFICES ASSUME s \in slips PROVE FALSE
      OBVIOUS
  <2>1. s \in Slips(phone[p], code[p]) /\ s[3] = accepts[<<phone[p], code[p]>>] + 1
      BY <1>1 DEF Slips
  <2>2. s[3] <= accepts[<<phone[p], code[p]>>]
      BY <1>1, <2>1 DEF Marks, LoginsArePaid
  <2> QED
      BY <1>1, <2>1, <2>2
<1>3. ASSUME NEW failed \in BOOLEAN, Accept(p, failed), failed \/ p \in overlapped
      PROVE  slips' = slips \cup {s}
  <2>1. accepts'[<<phone[p], code[p]>>] = accepts[<<phone[p], code[p]>>] + 1
      BY <1>1, <1>3 DEF Accept, Inv, TypeOK
  <2> QED
      BY <1>3, <2>1 DEF Accept
<1>4. CASE PickNothing(p)
  <2>1. CASE Accept(p, TRUE)
      BY <1>2, <1>3, <1>4, <2>1 DEF PickNothing
  <2>2. CASE Unused(phone[p], code[p]) = {} /\ Accept(p, FALSE)
    <3>1. p \in overlapped
        BY <1>4, <2>2 DEF PickNothing, Marks, LoginsHaveARecord
    <3> QED
        BY <1>2, <1>3, <1>4, <2>2, <3>1 DEF PickNothing
  <2> QED
      BY <1>4, <2>1, <2>2 DEF PickNothing
<1>5. CASE Save(p)
  <2>0. /\ pc[p] = "save"
        /\ \/ codes' = Saved(codes, target[p].id, Marked(target[p].row)) /\ Accept(p, FALSE)
           \/ codes' = codes /\ Accept(p, TRUE)
      BY <1>5 DEF Save
  <2>1. CASE codes' = codes /\ Accept(p, TRUE)
      BY <1>2, <1>3, <2>1
  <2>2. CASE codes' = Saved(codes, target[p].id, Marked(target[p].row)) /\ Accept(p, FALSE)
    <3> DEFINE i == target[p].id
    <3>1. /\ i \in WithCode(phone[p], code[p])
          /\ codes' = [codes EXCEPT ![i] = Marked(codes[i])]
        BY <2>0, <2>2, SavedIsMarked DEF Saved
    <3>2. CASE p \in overlapped
        BY <1>2, <1>3, <2>2, <3>1, <3>2
    <3>3. CASE p \notin overlapped
      <4>1. ~codes[i].used
          BY <2>0, <3>3 DEF Marks, LoginsHaveARecord
      <4>2. i \in Unused(phone[p], code[p])
          BY <3>1, <4>1 DEF WithCode, Unused
      <4>3. slips' = slips
          BY <2>2, <3>3 DEF Accept
      <4> QED
          BY <3>1, <4>2, <4>3
    <3> QED
        BY <3>2, <3>3
  <2> QED
      BY <2>0, <2>1, <2>2
<1> QED
    BY <1>4, <1>5

\* and what the mark of a record does to the used ones of all numbers and codes.
LEMMA MarkUsesUp ==
    ASSUME Inv, NEW ph \in Phones, NEW c \in Codes, NEW i \in WithCode(ph, c),
           codes' = [codes EXCEPT ![i] = Marked(codes[i])]
    PROVE  /\ i \in Ids /\ codes'[i].used
           /\ \A j \in Ids \ {i} : codes'[j] = codes[j]
           /\ Rows(codes') = Rows(codes)
           /\ \A n \in Phones : To(n)' = To(n)
           /\ \A n \in Phones, d \in Codes :
                /\ n = ph /\ d = c => UsedUp(n, d)' = UsedUp(n, d) \cup {i}
                /\ ~(n = ph /\ d = c) => UsedUp(n, d)' = UsedUp(n, d)
                /\ Unused(n, d) \ {i} \subseteq Unused(n, d)'
                /\ ~(n = ph /\ d = c) => i \notin Unused(n, d)
<1>1. i \in Rows(codes) /\ i \in Ids /\ codes[i] \in Record /\ codes[i].phone = ph
      /\ codes[i].code = c
    BY RowsAreRecords DEF Inv, WithCode, To
<1>2. /\ Marked(codes[i]) \in Record /\ Marked(codes[i]).used = TRUE
      /\ Marked(codes[i]).phone = ph /\ Marked(codes[i]).code = c
    BY <1>1 DEF Marked, Record
<1>3. /\ codes'[i] = Marked(codes[i]) /\ codes'[i] # None
      /\ \A j \in Ids \ {i} : codes'[j] = codes[j]
    BY <1>1, <1>2, NoneIsNoRecord DEF Inv, TypeOK
<1>4. Rows(codes') = Rows(codes)
    BY <1>1, <1>3 DEF Rows
<1>5. \A n \in Phones : To(n)' = To(n)
    BY <1>1, <1>2, <1>3, <1>4 DEF To, Rows
<1>6. ASSUME NEW n \in Phones, NEW d \in Codes
      PROVE  /\ n = ph /\ d = c => UsedUp(n, d)' = UsedUp(n, d) \cup {i}
             /\ ~(n = ph /\ d = c) => UsedUp(n, d)' = UsedUp(n, d)
             /\ Unused(n, d) \ {i} \subseteq Unused(n, d)'
             /\ ~(n = ph /\ d = c) => i \notin Unused(n, d)
  <2>1. To(n) \subseteq Ids
      BY DEF To, Rows
  <2>2. i \in To(n) <=> n = ph
      BY <1>1 DEF To
  <2> QED
      BY <1>1, <1>2, <1>3, <1>5, <2>1, <2>2 DEF UsedUp, WithCode, Unused
<1> QED
    BY <1>1, <1>2, <1>3, <1>4, <1>5, <1>6

\* The end of a login that is accepted.
LEMMA AcceptKeepsMarks ==
    ASSUME Inv, Marks, NEW p \in Procs, PickNothing(p) \/ Save(p)
    PROVE  Marks'
<1> DEFINE ph == phone[p]
           c == code[p]
           n0 == accepts[<<ph, c>>] + 1
<1>1. /\ ph \in Phones /\ c \in Codes /\ pc[p] \in {"pick", "save"}
      /\ p \in Logging(ph, c)
      /\ accepts' = [accepts EXCEPT ![<<ph, c>>] = @ + 1]
      /\ EndRequest(p)
    BY DEF PickNothing, Save, Accept, Inv, RequestsKnowTheirCode, TypeOK, Logging
<1>2. ASSUME NEW q \in Procs, pc'[q] \in {"pick", "save"}, q \notin overlapped'
      PROVE  /\ q # p /\ q \notin overlapped /\ pc'[q] = pc[q]
             /\ phone'[q] = phone[q] /\ code'[q] = code[q] /\ target'[q] = target[q]
    BY <1>1, <1>2 DEF EndRequest, Inv, TypeOK
<1>3. \A n, d : Logging(n, d)' \subseteq Logging(n, d)
    BY <1>1 DEF EndRequest, Inv, TypeOK, Logging
<1>paid. \/ /\ slips' = slips
            /\ \E i \in Unused(ph, c) : codes' = [codes EXCEPT ![i] = Marked(codes[i])]
         \/ /\ slips' = slips \cup {<<ph, c, n0>>} /\ <<ph, c, n0>> \notin slips
            /\ \/ codes' = codes
               \/ \E i \in WithCode(ph, c) : codes' = [codes EXCEPT ![i] = Marked(codes[i])]
    BY AcceptIsPaid
<1>n0. n0 = accepts[<<ph, c>>] + 1
    OBVIOUS
<1> HIDE DEF ph, c, n0
<1>4. \/ codes' = codes
      \/ \E i \in WithCode(ph, c) : codes' = [codes EXCEPT ![i] = Marked(codes[i])]
    BY <1>paid DEF Unused, WithCode
<1>mark. ASSUME NEW i \in WithCode(ph, c), codes' = [codes EXCEPT ![i] = Marked(codes[i])]
         PROVE  /\ \A j \in Ids \ {i} : codes'[j] = codes[j]
                /\ \A n \in Phones, d \in Codes :
                     /\ n = ph /\ d = c => UsedUp(n, d)' = UsedUp(n, d) \cup {i}
                     /\ ~(n = ph /\ d = c) => UsedUp(n, d)' = UsedUp(n, d)
                     /\ Unused(n, d) \ {i} \subseteq Unused(n, d)'
                     /\ ~(n = ph /\ d = c) => i \notin Unused(n, d)
    BY <1>1, <1>mark, MarkUsesUp
<1>5. LoginsHaveARecord'
  <2> SUFFICES ASSUME NEW q \in Procs, pc'[q] \in {"pick", "save"}, q \notin overlapped'
               PROVE  /\ Logging(phone[q], code[q])' \subseteq {q}
                      /\ pc'[q] = "pick" => Unused(phone[q], code[q])' # {}
                      /\ pc'[q] = "save" => ~codes'[target'[q].id].used
      BY DEF LoginsHaveARecord
  <2>1. /\ q # p /\ q \notin overlapped /\ pc'[q] = pc[q]
        /\ phone'[q] = phone[q] /\ code'[q] = code[q] /\ target'[q] = target[q]
      BY <1>2
  <2>2. /\ Logging(phone[q], code[q]) \subseteq {q}
        /\ pc[q] = "pick" => Unused(phone[q], code[q]) # {}
        /\ pc[q] = "save" => ~codes[target[q].id].used
      BY <2>1 DEF Marks, LoginsHaveARecord
  <2>3. /\ phone[q] \in Phones /\ code[q] \in Codes
        /\ pc[q] = "save" => target[q].id \in WithCode(phone[q], code[q])
      BY <2>1 DEF Inv, RequestsKnowTheirCode
  <2>4. Logging(phone[q], code[q])' \subseteq {q}
      BY <1>3, <2>1, <2>2
  <2>5. ~(phone[q] = ph /\ code[q] = c)
      BY <1>1, <2>1, <2>2
  <2>6. CASE codes' = codes
    <3>1. Unused(phone[q], code[q])' = Unused(phone[q], code[q])
        BY <2>1, <2>6 DEF Unused, To
    <3> QED
        BY <2>1, <2>2, <2>4, <2>6, <3>1
  <2>7. ASSUME NEW i \in WithCode(ph, c), codes' = [codes EXCEPT ![i] = Marked(codes[i])]
        PROVE  /\ pc[q] = "pick" => Unused(phone[q], code[q])' # {}
               /\ pc[q] = "save" => ~codes'[target[q].id].used
    <3>1. \A j \in Ids \ {i} : codes'[j] = codes[j]
        BY <1>mark, <2>7
    <3>2. /\ Unused(phone[q], code[q]) \ {i} \subseteq Unused(phone[q], code[q])'
          /\ i \notin Unused(phone[q], code[q])
      <4>1. \A n \in Phones, d \in Codes : ~(n = ph /\ d = c) =>
              i \notin Unused(n, d) /\ Unused(n, d) \ {i} \subseteq Unused(n, d)'
          BY <1>mark, <2>7
      <4>2. PICK n \in Phones, d \in Codes : n = phone[q] /\ d = code[q]
          BY <2>3
      <4>3. Unused(phone[q], code[q])' = Unused(n, d)' /\ Unused(phone[q], code[q]) = Unused(n, d)
          BY <2>1, <4>2 DEF Unused, To
      <4> QED
          BY <2>5, <4>1, <4>2, <4>3
    <3>3. pc[q] = "save" => target[q].id \in Ids \ {i}
        BY <2>3, <2>5, <2>7 DEF WithCode, To, Rows
    <3> QED
        BY <2>2, <3>1, <3>2, <3>3
  <2> QED
      BY <1>4, <2>1, <2>4, <2>6, <2>7
<1>6. LoginsArePaid'
  <2> SUFFICES ASSUME NEW n \in Phones, NEW d \in Codes
               PROVE  /\ IsFiniteSet(Slips(n, d)')
                      /\ \A s \in Slips(n, d)' : s[3] <= accepts'[<<n, d>>]
                      /\ accepts'[<<n, d>>] <= Cardinality(UsedUp(n, d)') + Cardinality(Slips(n, d)')
      BY DEF LoginsArePaid
  <2>1. /\ IsFiniteSet(Slips(n, d)) /\ IsFiniteSet(UsedUp(n, d))
        /\ \A s \in Slips(n, d) : s[3] <= accepts[<<n, d>>] /\ s[3] \in Nat
        /\ accepts[<<n, d>>] <= Cardinality(UsedUp(n, d)) + Cardinality(Slips(n, d))
        /\ accepts[<<n, d>>] \in Nat
      BY DEF Marks, LoginsArePaid, Inv, LoginsAreCounted, TypeOK, Slips
  <2>2. Cardinality(UsedUp(n, d)) \in Nat /\ Cardinality(Slips(n, d)) \in Nat
      BY <2>1, FS_CardinalityType
  <2>3. CASE n = ph /\ d = c
    <3>0. accepts'[<<n, d>>] = accepts[<<n, d>>] + 1
        BY <1>1, <2>3 DEF Inv, TypeOK
    <3>1. CASE /\ slips' = slips
               /\ \E i \in Unused(ph, c) : codes' = [codes EXCEPT ![i] = Marked(codes[i])]
      <4>1. PICK i \in Unused(ph, c) : codes' = [codes EXCEPT ![i] = Marked(codes[i])]
          BY <3>1
      <4>2. i \in WithCode(ph, c) /\ i \notin UsedUp(ph, c)
          BY DEF Unused, WithCode, UsedUp
      <4>3. UsedUp(n, d)' = UsedUp(n, d) \cup {i}
          BY <1>mark, <2>3, <4>1, <4>2
      <4>4. Cardinality(UsedUp(n, d)') = Cardinality(UsedUp(n, d)) + 1
          BY <2>1, <2>3, <4>2, <4>3, FS_AddElement
      <4>5. Slips(n, d)' = Slips(n, d)
          BY <3>1 DEF Slips
      <4> QED
          BY <2>1, <2>2, <3>0, <4>4, <4>5
    <3>2. CASE /\ slips' = slips \cup {<<ph, c, n0>>}
               /\ <<ph, c, n0>> \notin slips
      <4>1. Slips(n, d)' = Slips(n, d) \cup {<<ph, c, n0>>} /\ <<ph, c, n0>> \notin Slips(n, d)
          BY <2>3, <3>2 DEF Slips
      <4>2. /\ IsFiniteSet(Slips(n, d)')
            /\ Cardinality(Slips(n, d)') = Cardinality(Slips(n, d)) + 1
          BY <2>1, <4>1, FS_AddElement
      <4>3. /\ Cardinality(UsedUp(n, d)') \in Nat
            /\ Cardinality(UsedUp(n, d)) <= Cardinality(UsedUp(n, d)')
        <5>1. CASE codes' = codes
          <6>1. UsedUp(n, d)' = UsedUp(n, d)
              BY <5>1 DEF UsedUp, WithCode, To
          <6> QED
              BY <2>2, <6>1
        <5>2. ASSUME NEW i \in WithCode(ph, c),
                     codes' = [codes EXCEPT ![i] = Marked(codes[i])]
              PROVE  /\ Cardinality(UsedUp(n, d)') \in Nat
                     /\ Cardinality(UsedUp(n, d)) <= Cardinality(UsedUp(n, d)')
          <6>1. UsedUp(n, d)' = UsedUp(n, d) \cup {i}
              BY <1>mark, <2>3, <5>2
          <6>2. Cardinality(UsedUp(n, d)') \in
                  {Cardinality(UsedUp(n, d)), Cardinality(UsedUp(n, d)) + 1}
              BY <2>1, <6>1, FS_AddElement
          <6> QED
              BY <2>2, <6>2
        <5> QED
            BY <1>4, <5>1, <5>2
      <4>4. \A s \in Slips(n, d)' : s[3] <= accepts'[<<n, d>>]
          BY <1>n0, <2>1, <2>3, <3>0, <4>1
      <4> QED
          BY <2>1, <2>2, <3>0, <4>2, <4>3, <4>4
    <3> QED
        BY <1>paid, <3>1, <3>2
  <2>4. CASE ~(n = ph /\ d = c)
    <3>1. accepts'[<<n, d>>] = accepts[<<n, d>>]
        BY <1>1, <2>4 DEF Inv, TypeOK
    <3>2. Slips(n, d)' = Slips(n, d)
      <4>1. <<ph, c, n0>>[1] = ph /\ <<ph, c, n0>>[2] = c
          OBVIOUS
      <4>2. slips' = slips \/ slips' = slips \cup {<<ph, c, n0>>}
          BY <1>paid
      <4> QED
          BY <2>4, <4>1, <4>2 DEF Slips
    <3>3. UsedUp(n, d)' = UsedUp(n, d)
      <4>1. CASE codes' = codes
          BY <4>1 DEF UsedUp, WithCode, To
      <4>2. ASSUME NEW i \in WithCode(ph, c), codes' = [codes EXCEPT ![i] = Marked(codes[i])]
            PROVE  UsedUp(n, d)' = UsedUp(n, d)
          BY <1>mark, <2>4, <4>2
      <4> QED
          BY <1>4, <4>1, <4>2
    <3> QED
        BY <2>1, <3>1, <3>2, <3>3
  <2> QED
      BY <2>3, <2>4
<1> QED
    BY <1>5, <1>6 DEF Marks

\* At the start nobody logs in.
LEMMA InitMarks == Init => Marks
<1> SUFFICES ASSUME Init PROVE Marks
    OBVIOUS
<1>1. LoginsHaveARecord
    BY DEF Init, LoginsHaveARecord
<1>2. ASSUME NEW ph \in Phones, NEW c \in Codes
      PROVE  /\ UsedUp(ph, c) = {} /\ Slips(ph, c) = {} /\ accepts[<<ph, c>>] = 0
             /\ IsFiniteSet({}) /\ Cardinality({}) = 0
    BY FS_EmptySet DEF Init, UsedUp, WithCode, To, Rows, Slips
<1>3. LoginsArePaid
  <2> SUFFICES ASSUME NEW ph \in Phones, NEW c \in Codes
               PROVE  /\ IsFiniteSet(Slips(ph, c))
                      /\ \A s \in Slips(ph, c) : s[3] <= accepts[<<ph, c>>]
                      /\ accepts[<<ph, c>>] <= Cardinality(UsedUp(ph, c)) + Cardinality(Slips(ph, c))
      BY DEF LoginsArePaid
  <2>1. /\ IsFiniteSet(Slips(ph, c)) /\ Slips(ph, c) = {}
        /\ Cardinality(UsedUp(ph, c)) = 0 /\ Cardinality(Slips(ph, c)) = 0
        /\ accepts[<<ph, c>>] = 0
      BY ONLY <1>2
  <2> QED
      BY ONLY <2>1
<1> QED
    BY <1>1, <1>3 DEF Marks

\* Every step keeps the marks right.
LEMMA NextKeepsMarks == Inv /\ Marks /\ [Next]_vars => Marks'
<1> SUFFICES ASSUME Inv, Marks, [Next]_vars PROVE Marks'
    OBVIOUS
<1>1. CASE UNCHANGED vars \/ Tick
  <2>1. UNCHANGED <<codes, pc, phone, code, target, overlapped, accepts, slips>>
      BY <1>1 DEF Tick, vars, request, observed
  <2>2. \A n, d : /\ Logging(n, d)' = Logging(n, d) /\ Unused(n, d)' = Unused(n, d)
                  /\ UsedUp(n, d)' = UsedUp(n, d)
      BY <2>1 DEF Logging, Unused, UsedUp, WithCode, To
  <2> QED
      BY <2>1, <2>2, MarksAreKept
<1>2. ASSUME NEW p \in Procs, Request(p) PROVE Marks'
  <2>1. ASSUME NEW ph \in Phones, Check(p, ph) PROVE Marks'
      BY <2>1, SendingKeepsMarks DEF Check, observed
  <2>2. CASE Store(p)
      BY <2>2, StoreKeepsMarks
  <2>3. CASE StoreFails(p) \/ Send(p) \/ Abandon(p)
      BY <2>3, SendingKeepsMarks DEF StoreFails, Send, Abandon, observed
  <2>4. ASSUME NEW ph \in Phones, NEW c \in Codes, Find(p, ph, c) PROVE Marks'
      BY <2>4, FindKeepsMarks
  <2>5. CASE Pick(p)
      BY <2>5, PickKeepsMarks
  <2>6. CASE PickNothing(p) \/ Save(p)
      BY <2>6, AcceptKeepsMarks
  <2>7. CASE \E ph \in Phones : CheckRefused(p, ph)
             \/ \E c \in Codes : FindNothing(p, ph, c)
      BY <1>1, <2>7 DEF CheckRefused, FindNothing
  <2> QED
      BY <1>2, <2>1, <2>2, <2>3, <2>4, <2>5, <2>6, <2>7 DEF Request
<1> QED
    BY <1>1, <1>2 DEF Next

-------------------------------------------------------------------------------
(* What the invariant says of the service. *)

\* The inductive invariant holds in every state that SMS requests can reach.
THEOREM Invariance == Spec => []Inv
BY InitInv, NextKeepsInv, PTL DEF Spec

\* Every variable keeps its type, whatever requests interleave or stop.
THEOREM TypeCorrect == Spec => []TypeOK
<1>1. Inv => TypeOK
    BY DEF Inv
<1> QED
    BY <1>1, Invariance, PTL

\* A stored code is good for all but less than a second of codeTTL, and never
\* for longer, whatever TTL and second are.
THEOREM CodesLive == Spec => []CodeLivesItsTTL
<1>1. Inv => CodeLivesItsTTL
  <2> SUFFICES ASSUME Inv, NEW i \in Rows(codes), ~codes[i].used
               PROVE  LET valid == i \in Valid(codes[i].phone, codes[i].code)
                      IN  /\ clock + SecondTicks <= sentAt[i] + TTL => valid
                          /\ valid => clock <= sentAt[i] + TTL
      BY DEF CodeLivesItsTTL
  <2>1. /\ codes[i].expires = CutToSecond(sentAt[i] + TTL)
        /\ sentAt[i] + TTL \in Nat /\ clock \in Nat /\ SecondTicks \in Nat
      BY RowsAreRecords, Parameters DEF Inv, TypeOK, RecordsAreDated
  <2>2. i \in Valid(codes[i].phone, codes[i].code) <=> clock <= codes[i].expires
      BY DEF Valid, Unused, To
  <2> QED
      BY <2>1, <2>2, CutIsClose
<1> QED
    BY <1>1, Invariance, PTL

\* A number is refused new messages for all but less than a second of the rate
\* limit after its latest record, and never for longer, in whatever order
\* requests date and insert their records.
THEOREM LimitLasts == Spec => []LimitLastsItsTime
<1>1. Inv => LimitLastsItsTime
  <2> SUFFICES ASSUME Inv, NEW ph \in Phones
               PROVE  /\ \A i \in To(ph) :
                            clock + SecondTicks <= sentAt[i] + RateLimit => RateLimited(ph)
                      /\ RateLimited(ph) => \E i \in To(ph) : clock < sentAt[i] + RateLimit
      BY DEF LimitLastsItsTime
  <2>1. \A i \in To(ph) :
          /\ i \in Ids /\ sentAt[i] \in Nat /\ sentAt[i] <= clock
          /\ codes[i].created = CutToSecond(sentAt[i])
          /\ codes[i].created \in Nat /\ codes[i].created <= sentAt[i]
          /\ sentAt[i] < codes[i].created + SecondTicks
      BY RowsAreRecords, CutIsClose DEF Inv, RecordsAreDated, To
  <2>2. clock \in Nat /\ RateLimit \in Nat /\ SecondTicks \in Nat
      BY Parameters DEF Inv, TypeOK
  <2>3. ASSUME NEW i \in To(ph), clock + SecondTicks <= sentAt[i] + RateLimit
        PROVE  RateLimited(ph)
    <3>1. PICK k \in Ids : IsLast(codes, k, To(ph))
        BY <2>3 DEF Inv, NewestExists
    <3>2. k \in To(ph) /\ codes[i].created <= codes[k].created
        BY <2>1, <3>1 DEF IsLast, Before
    <3>3. clock - codes[k].created < RateLimit
        BY <2>1, <2>2, <2>3, <3>2
    <3> QED
        BY <3>1, <3>2, <3>3 DEF RateLimited
  <2>4. ASSUME RateLimited(ph)
        PROVE  \E i \in To(ph) : clock < sentAt[i] + RateLimit
    <3>1. PICK i \in To(ph) : clock - codes[i].created < RateLimit
        BY <2>4 DEF RateLimited
    <3> QED
        BY <2>1, <2>2, <3>1
  <2> QED
      BY <2>3, <2>4
<1> QED
    BY <1>1, Invariance, PTL

\* A record is only ever used up by a login that presented its number and code,
\* at most one record for each login, however many interleave and fail.
THEOREM UsedByLogins == Spec => []UsedByItsLogin
<1>1. Inv => UsedByItsLogin
  <2> SUFFICES ASSUME Inv, NEW ph \in Phones, NEW c \in Codes
               PROVE  Cardinality(UsedUp(ph, c)) <= finds[<<ph, c>>]
      BY DEF UsedByItsLogin, UsedUp
  <2>1. /\ IsFiniteSet(UsedUp(ph, c)) /\ IsFiniteSet(Logging(ph, c))
        /\ Cardinality(UsedUp(ph, c)) + Cardinality(Logging(ph, c)) <= finds[<<ph, c>>]
      BY DEF Inv, LoginsAreCounted
  <2>2. /\ Cardinality(UsedUp(ph, c)) \in Nat /\ Cardinality(Logging(ph, c)) \in Nat
        /\ finds[<<ph, c>>] \in Nat
      BY <2>1, FS_CardinalityType DEF Inv, TypeOK
  <2> QED
      BY <2>1, <2>2
<1> QED
    BY <1>1, Invariance, PTL

\* A login that is accepted uses up a record of its own, unless its mark failed or
\* another login with its number and code ran beside it, however many requests
\* interleave and are cut off.
THEOREM LoginsUseUpRecords == Spec => []LoginsUseUpMessages
<1>1. Init => Inv /\ Marks
    BY InitInv, InitMarks
<1>2. Inv /\ Marks /\ [Next]_vars => Inv' /\ Marks'
    BY NextKeepsInv, NextKeepsMarks
<1>3. Marks => LoginsUseUpMessages
    BY DEF Marks, LoginsArePaid, LoginsUseUpMessages, Slips
<1> QED
    BY <1>1, <1>2, <1>3, PTL DEF Spec
===============================================================================
