---------------------------- MODULE Tokens_proofs -----------------------------
(***************************************************************************)
(* Theorems about Tokens, for any number of users, requests in flight and   *)
(* refresh tokens, and any lifetimes.                                       *)
(***************************************************************************)
EXTENDS Tokens, TLAPS

-------------------------------------------------------------------------------
(* The inductive invariant.  The safety properties are about rows; what makes *)
(* them inductive is what the requests in flight are holding.                 *)

\* The observer's record of a pair agrees with the pair itself.
Known(t) ==
    /\ origin[t.refresh] # None
    /\ origin[t.refresh].user = t.user
    /\ origin[t.refresh].since = t.rcreate
    /\ origin[t.refresh].access = t.access

\* The keys left on a row are those of its data, and no two rows were created
\* for the same pair or hold the same access token.
RowsMatchTheirData ==
    /\ \A row \in rows :
         /\ row.refresh # None => row.refresh = row.data.refresh
         /\ row.access # None => row.access = row.data.access
         /\ Known(row.data)
    /\ \A row1, row2 \in rows :
         \/ row1.data.refresh = row2.data.refresh
         \/ row1.access = row2.access /\ row1.access # None
         => row1 = row2

\* What a request holds at each of its statements.
RequestsHoldPairs ==
    \A p \in Procs :
        /\ tok[p] = None <=> pc[p] \in {"idle", "mint"}
        /\ pc[p] = "idle" => old[p] = None
        /\ pc[p] \in {"mint", "dropAccess", "dropRefresh"} => old[p] # None
        /\ old[p] # None => Known(old[p])
        /\ tok[p] # None =>
             /\ Known(tok[p])
             /\ origin[tok[p].refresh].parent = IF old[p] = None THEN None ELSE old[p].refresh

\* A refresh token that is generated and not stored yet is nowhere else: on no
\* row, in no answer, held by no other request, traded by nobody.
PendingIsUnseen ==
    \A p \in Procs : Pending(p) =>
        /\ \A row \in rows : row.data.refresh # tok[p].refresh
        /\ \A t \in answered : t.refresh # tok[p].refresh
        /\ \A q \in Procs : old[q] # None => old[q].refresh # tok[p].refresh
        /\ \A q \in Procs \ {p} : tok[q] # None => tok[q].refresh # tok[p].refresh
        /\ \A r \in Minted : origin[r].parent # tok[p].refresh

\* Trades go from one minted refresh token to another.
TradesAreMinted ==
    \A r \in Minted : origin[r].parent # None =>
        origin[r].parent \in Minted \ {r}

\* A pair that has been answered, or is about to be, has voided its parent.
ParentsAreDead ==
    /\ \A t \in answered : /\ Known(t)
                           /\ ~\E row \in rows : /\ row.refresh # None
                                                 /\ row.refresh = origin[t.refresh].parent
    /\ \A p \in Procs : pc[p] = "answer" /\ old[p] # None => ~Live(rows, old[p].refresh)

\* The pairs that are in the table or have been.
StoredPairs ==
    answered \cup
      {tok[p] : p \in {q \in Procs : pc[q] \in {"dropAccess", "dropRefresh", "answer"}}}

\* UnspentSurvives for every pair stored so far.
StoredSurvives ==
    \A t \in StoredPairs :
        /\ Undisturbed(t.refresh)
        /\ clock <= t.acreate + AccessExp
        /\ clock <= t.rcreate + RefreshExp
        => \E row \in rows : row.refresh = t.refresh /\ row.data = t

Inv ==
    /\ TypeOK
    /\ RowsMatchTheirData
    /\ RequestsHoldPairs
    /\ PendingIsUnseen
    /\ TradesAreMinted
    /\ ParentsAreDead
    /\ StoredSurvives

-------------------------------------------------------------------------------
(* What the statements do to a table. *)

\* A token that the generator signs is an access token.
LEMMA JWTType ==
    ASSUME NEW u \in Users, NEW now \in Nat
    PROVE  JWT(u, now) \in Access
<1>1. now + AccessExp \in Nat /\ SecondTicks \in Nat \ {0}
    BY LifetimesPositive
<1>2. (now + AccessExp) \div SecondTicks \in Nat
    BY <1>1
<1> QED
    BY <1>2 DEF JWT, Access

\* A table of which rows were deleted or keys set to NULL, each pair still
\* having at most one row.
Faded(after, before) ==
    /\ after \subseteq Row
    /\ \A row \in after : \E w \in before :
         /\ row.data = w.data
         /\ row.access \in {w.access, None}
         /\ row.refresh \in {w.refresh, None}
    /\ \A row1, row2 \in after :
         row1.data.refresh = row2.data.refresh => row1 = row2

OneRowPerPair(table) ==
    \A row1, row2 \in table : row1.data.refresh = row2.data.refresh => row1 = row2

\* The purge only deletes rows.
LEMMA PurgedFades ==
    ASSUME NEW table \in SUBSET Row, OneRowPerPair(table), NEW now
    PROVE  Faded(Purged(table, now), table)
BY DEF Faded, Purged, OneRowPerPair

\* Detaching an access key keeps every row, its data and its refresh key.
LEMMA AccessDetachedFades ==
    ASSUME NEW table \in SUBSET Row, OneRowPerPair(table), NEW a
    PROVE  /\ Faded(AccessDetached(table, a), table)
           /\ \A w \in table : \E row \in AccessDetached(table, a) :
                row.refresh = w.refresh /\ row.data = w.data
           /\ \A row \in AccessDetached(table, a) : \E w \in table :
                row.refresh = w.refresh /\ row.data = w.data
<1> DEFINE cut(w) == IF w.access = a THEN [w EXCEPT !.access = None] ELSE w
<1>1. AccessDetached(table, a) = {cut(w) : w \in table}
    BY DEF AccessDetached
<1>2. ASSUME NEW w \in table
      PROVE  /\ cut(w) \in Row
             /\ cut(w).data = w.data
             /\ cut(w).access \in {w.access, None}
             /\ cut(w).refresh = w.refresh
    BY <1>2 DEF Row
<1> HIDE DEF cut
<1>3. \A row1, row2 \in AccessDetached(table, a) :
         row1.data.refresh = row2.data.refresh => row1 = row2
    BY <1>1, <1>2 DEF OneRowPerPair
<1> QED
    BY <1>1, <1>2, <1>3 DEF Faded

\* Detaching a refresh key keeps every row and its data, and every other
\* refresh key; the detached key is on no row.
LEMMA RefreshDetachedFades ==
    ASSUME NEW table \in SUBSET Row, OneRowPerPair(table), NEW r, r # None
    PROVE  /\ Faded(RefreshDetached(table, r), table)
           /\ \A w \in table : w.refresh # r => w \in RefreshDetached(table, r)
           /\ ~Live(RefreshDetached(table, r), r)
<1> DEFINE cut(w) == IF w.refresh = r THEN [w EXCEPT !.refresh = None] ELSE w
<1>1. RefreshDetached(table, r) = {cut(w) : w \in table}
    BY DEF RefreshDetached
<1>2. ASSUME NEW w \in table
      PROVE  /\ cut(w) \in Row
             /\ cut(w).data = w.data
             /\ cut(w).access = w.access
             /\ cut(w).refresh \in {w.refresh, None}
             /\ cut(w).refresh # r
             /\ w.refresh # r => cut(w) = w
    BY <1>2 DEF Row
<1> HIDE DEF cut
<1>3. \A row1, row2 \in RefreshDetached(table, r) :
         row1.data.refresh = row2.data.refresh => row1 = row2
    BY <1>1, <1>2 DEF OneRowPerPair
<1> QED
    BY <1>1, <1>2, <1>3 DEF Faded, Live

\* Fading the table keeps what RowsMatchTheirData says and brings no refresh
\* key and no pair back.
LEMMA FadingKeepsRows ==
    ASSUME Inv, Faded(rows', rows), origin' = origin
    PROVE  /\ RowsMatchTheirData'
           /\ \A r \in Refreshes : Live(rows', r) => Live(rows, r)
           /\ \A row \in rows' : \E w \in rows : w.data = row.data
<1> USE DEF Inv
<1>1. \A row \in rows' : row \in Row /\ \E w \in rows :
         /\ w \in Row
         /\ row.data = w.data
         /\ row.access \in {w.access, None}
         /\ row.refresh \in {w.refresh, None}
    BY DEF Faded, TypeOK
<1>2. \A row \in rows' : /\ row.refresh # None => row.refresh = row.data.refresh
                         /\ row.access # None => row.access = row.data.access
                         /\ Known(row.data)'
    BY <1>1 DEF RowsMatchTheirData, Known
<1>3. \A row1, row2 \in rows' :
         row1.data.refresh = row2.data.refresh => row1 = row2
    BY DEF Faded
<1>4. ASSUME NEW row1 \in rows', NEW row2 \in rows',
             row1.access = row2.access, row1.access # None
      PROVE  row1 = row2
  <2>1. PICK w1 \in rows : row1.data = w1.data /\ row1.access = w1.access
        BY <1>1, <1>4
  <2>2. PICK w2 \in rows : row2.data = w2.data /\ row2.access = w2.access
        BY <1>1, <1>4
  <2>3. w1 = w2
        BY <1>4, <2>1, <2>2 DEF RowsMatchTheirData
  <2> QED
        BY <1>3, <2>1, <2>2, <2>3
<1>5. RowsMatchTheirData'
    BY <1>2, <1>3, <1>4 DEF RowsMatchTheirData
<1>6. \A r \in Refreshes : Live(rows', r) => Live(rows, r)
    BY <1>1, NoneIsNoValue DEF Live
<1> QED
    BY <1>1, <1>5, <1>6

\* Two rows of the table never hold the same pair.
LEMMA RowsArePairs == ASSUME Inv PROVE OneRowPerPair(rows)
BY DEF Inv, RowsMatchTheirData, OneRowPerPair

-------------------------------------------------------------------------------
(* The invariant holds at the start and every action keeps it. *)

\* The empty table satisfies the invariant.
LEMMA InitInv == Init => Inv
<1> SUFFICES ASSUME Init PROVE Inv
    OBVIOUS
<1> USE DEF Init
<1>1. TypeOK
    BY DEF TypeOK, Steps
<1>2. RowsMatchTheirData /\ RequestsHoldPairs
    BY DEF RowsMatchTheirData, RequestsHoldPairs
<1>3. PendingIsUnseen
    BY DEF PendingIsUnseen, Pending
<1>4. TradesAreMinted /\ ParentsAreDead
    BY DEF TradesAreMinted, ParentsAreDead, Minted
<1>5. StoredSurvives
    BY DEF StoredSurvives, StoredPairs
<1> QED
    BY <1>1, <1>2, <1>3, <1>4, <1>5 DEF Inv

\* Login and Mint both generate a pair under a refresh token that nobody has
\* seen; o is what the observer writes down about it.
LEMMA MintingKeepsInv ==
    ASSUME Inv, NEW p \in Procs, NEW r \in Fresh, NEW t \in Token, NEW o \in Origin,
           t.refresh = r,
           o.user = t.user, o.since = t.rcreate, o.access = t.access,
           o.parent = IF old[p] = None THEN None ELSE old[p].refresh,
           pc[p] \in {"idle", "mint"},
           tok' = [tok EXCEPT ![p] = t],
           origin' = [origin EXCEPT ![r] = o],
           pc' = [pc EXCEPT ![p] = "purge"],
           UNCHANGED <<clock, rows, old, answered>>
    PROVE  Inv'
<1> USE DEF Inv
<1>1. TypeOK'
    BY DEF TypeOK, Steps, Fresh
<1>2. /\ r \in Refreshes /\ r # None /\ origin[r] = None /\ o # None /\ t # None
      /\ tok'[p] = t /\ pc'[p] = "purge" /\ origin'[r] = o
      /\ \A q \in Procs \ {p} : tok'[q] = tok[q] /\ pc'[q] = pc[q]
      /\ \A q \in Refreshes \ {r} : origin'[q] = origin[q]
      /\ Minted' = Minted \cup {r} /\ r \notin Minted
    BY NoneIsNoOrigin, NoneIsNoValue DEF TypeOK, Fresh, Minted
<1>3. \A x \in Token : Known(x) => x.refresh # r /\ Known(x)'
    BY <1>2 DEF Known, Token
<1>4. Known(t)'
    BY <1>2 DEF Known
<1>5. /\ \A row \in rows : row.data \in Token /\ row.data.refresh # r /\ row.refresh # r
      /\ \A x \in answered : x \in Token /\ x.refresh # r
      /\ \A q \in Procs : old[q] # None => old[q] \in Token /\ old[q].refresh # r
      /\ \A q \in Procs : tok[q] # None => tok[q] \in Token /\ tok[q].refresh # r
      /\ \A q \in Minted : origin[q].parent # r
    BY <1>2, <1>3 DEF TypeOK, Row, RowsMatchTheirData, RequestsHoldPairs, ParentsAreDead,
                      TradesAreMinted
<1>6. RowsMatchTheirData'
    BY <1>3, <1>5 DEF RowsMatchTheirData
<1>7. RequestsHoldPairs'
    BY <1>2, <1>3, <1>4, <1>5 DEF RequestsHoldPairs, Token, TypeOK
<1>8. PendingIsUnseen'
  <2> SUFFICES ASSUME NEW q \in Procs, Pending(q)'
               PROVE  /\ \A row \in rows : row.data.refresh # tok'[q].refresh
                      /\ \A x \in answered : x.refresh # tok'[q].refresh
                      /\ \A w \in Procs : old[w] # None => old[w].refresh # tok'[q].refresh
                      /\ \A w \in Procs \ {q} :
                            tok'[w] # None => tok'[w].refresh # tok'[q].refresh
                      /\ \A x \in Minted' : origin'[x].parent # tok'[q].refresh
      BY DEF PendingIsUnseen
  <2>1. CASE q = p
      BY <1>2, <1>5, <2>1 DEF Minted
  <2>2. CASE q # p
    <3>1. Pending(q) /\ tok'[q] = tok[q] /\ tok[q] # None
        BY <1>2, <2>2 DEF Pending, RequestsHoldPairs
    <3>2. o.parent # tok[q].refresh
        BY <3>1, <1>5, NoneIsNoValue DEF PendingIsUnseen, Token
    <3> QED
        BY <1>2, <1>5, <3>1, <3>2, <2>2 DEF PendingIsUnseen, Minted
  <2> QED
      BY <2>1, <2>2
<1>9. TradesAreMinted'
  <2>1. o.parent # None => o.parent \in Minted
      BY DEF RequestsHoldPairs, Known, Minted, TypeOK, Token
  <2> QED
      BY <1>2, <2>1 DEF TradesAreMinted, Minted
<1>10. ParentsAreDead'
    BY <1>2, <1>3, <1>5 DEF ParentsAreDead, Live, Token
<1>11. StoredSurvives'
  <2>1. StoredPairs' = StoredPairs
      BY <1>2 DEF StoredPairs
  <2>2. \A x \in StoredPairs : x.refresh \in Refreshes \ {r}
      BY <1>5 DEF StoredPairs, RequestsHoldPairs, Token
  <2>3. \A x \in Refreshes \ {r} : Undisturbed(x)' => Undisturbed(x)
      BY <1>2 DEF Undisturbed, Minted
  <2> QED
      BY <2>1, <2>2, <2>3 DEF StoredSurvives
<1> QED
    BY <1>1, <1>6, <1>7, <1>8, <1>9, <1>10, <1>11

\* A login mints a pair that no other pair descends from.
LEMMA LoginKeepsInv ==
    ASSUME Inv, NEW p \in Procs, NEW u \in Users, Login(p, u)
    PROVE  Inv'
<1>1. PICK r \in Fresh :
        /\ tok' = [tok EXCEPT ![p] = [user |-> u, access |-> JWT(u, clock), refresh |-> r,
                                      acreate |-> clock, rcreate |-> clock]]
        /\ origin' = [origin EXCEPT ![r] = [user |-> u, since |-> clock,
                                            parent |-> None, access |-> JWT(u, clock)]]
    BY DEF Login
<1> DEFINE t == [user |-> u, access |-> JWT(u, clock), refresh |-> r,
                 acreate |-> clock, rcreate |-> clock]
           o == [user |-> u, since |-> clock, parent |-> None, access |-> JWT(u, clock)]
<1>2. t \in Token /\ o \in Origin
    BY JWTType DEF Inv, TypeOK, Token, Origin, Fresh
<1>3. /\ t.refresh = r
      /\ o.user = t.user /\ o.since = t.rcreate /\ o.access = t.access /\ o.parent = None
    OBVIOUS
<1>4. /\ pc[p] = "idle" /\ old[p] = None /\ pc' = [pc EXCEPT ![p] = "purge"]
      /\ UNCHANGED <<clock, rows, old, answered>>
    BY DEF Login, Inv, RequestsHoldPairs
<1>5. tok' = [tok EXCEPT ![p] = t] /\ origin' = [origin EXCEPT ![r] = o]
    BY <1>1
<1> HIDE DEF t, o
<1> QED
    BY <1>2, <1>3, <1>4, <1>5, MintingKeepsInv

\* A trade mints a pair of the user and the date of the pair it has loaded.
LEMMA MintKeepsInv ==
    ASSUME Inv, NEW p \in Procs, Mint(p)
    PROVE  Inv'
<1> DEFINE was == origin[old[p].refresh]
           access == JWT(old[p].user, clock)
<1>1. PICK r \in Fresh :
        /\ tok' = [tok EXCEPT ![p] = [user |-> old[p].user, access |-> access, refresh |-> r,
                                      acreate |-> clock, rcreate |-> old[p].rcreate]]
        /\ origin' = [origin EXCEPT ![r] = [user |-> was.user, since |-> was.since,
                                            parent |-> old[p].refresh, access |-> access]]
    BY DEF Mint
<1>2. /\ pc[p] = "mint" /\ pc' = [pc EXCEPT ![p] = "purge"]
      /\ UNCHANGED <<clock, rows, old, answered>>
    BY DEF Mint
<1>3. /\ old[p] # None /\ old[p] \in Token /\ Known(old[p])
      /\ old[p].user \in Users /\ old[p].refresh \in Refreshes /\ old[p].rcreate \in Nat
      /\ was \in Origin
    BY <1>2 DEF Inv, TypeOK, RequestsHoldPairs, Known, Token
<1>4. access \in Access
    BY <1>3, JWTType DEF Inv, TypeOK
<1> DEFINE t == [user |-> old[p].user, access |-> access, refresh |-> r,
                 acreate |-> clock, rcreate |-> old[p].rcreate]
           o == [user |-> was.user, since |-> was.since,
                 parent |-> old[p].refresh, access |-> access]
<1>5. tok' = [tok EXCEPT ![p] = t] /\ origin' = [origin EXCEPT ![r] = o]
    BY <1>1
<1>6. t \in Token /\ o \in Origin
  <2> HIDE DEF access, was
  <2>1. clock \in Nat /\ r \in Refreshes
      BY DEF Inv, TypeOK, Fresh
  <2>2. was.user \in Users /\ was.since \in Nat
      BY <1>3 DEF Origin
  <2> QED
      BY <1>3, <1>4, <2>1, <2>2 DEF Token, Origin
<1>7. /\ t.refresh = r
      /\ o.user = t.user /\ o.since = t.rcreate /\ o.access = t.access
      /\ o.parent = IF old[p] = None THEN None ELSE old[p].refresh
    BY <1>3 DEF Known
<1> HIDE DEF t, o
<1> QED
    BY <1>2, <1>5, <1>6, <1>7, MintingKeepsInv

\* A lookup that finds its row loads the pair of the row.
LEMMA LoadHitKeepsInv ==
    ASSUME Inv, NEW p \in Procs, NEW r, LoadHit(p, r)
    PROVE  Inv'
<1> USE DEF Inv
<1>1. PICK row \in rows : row.data.refresh = r /\ old' = [old EXCEPT ![p] = row.data]
    BY DEF LoadHit
<1>2. /\ pc[p] = "idle" /\ pc' = [pc EXCEPT ![p] = "mint"]
      /\ UNCHANGED <<clock, rows, tok, origin, answered>>
    BY DEF LoadHit
<1>3. row.data \in Token /\ Known(row.data) /\ row.data # None
    BY NoneIsNoValue DEF TypeOK, Row, RowsMatchTheirData
<1>4. TypeOK'
    BY <1>1, <1>2, <1>3 DEF TypeOK, Steps
<1>5. /\ old'[p] = row.data /\ pc'[p] = "mint" /\ tok[p] = None
      /\ \A q \in Procs \ {p} : old'[q] = old[q] /\ pc'[q] = pc[q]
    BY <1>1, <1>2 DEF TypeOK, RequestsHoldPairs
<1>6. RowsMatchTheirData' /\ TradesAreMinted'
    BY <1>2 DEF RowsMatchTheirData, TradesAreMinted, Known, Minted
<1>7. RequestsHoldPairs'
    BY <1>2, <1>3, <1>5 DEF RequestsHoldPairs, Known
<1>8. PendingIsUnseen'
    BY <1>2, <1>5 DEF PendingIsUnseen, Pending, Minted
<1>9. ParentsAreDead'
    BY <1>2, <1>5 DEF ParentsAreDead, Known
<1>10. StoredSurvives'
  <2>1. StoredPairs' = StoredPairs
      BY <1>2, <1>5 DEF StoredPairs
  <2> QED
      BY <1>2, <2>1 DEF StoredSurvives, Undisturbed, Minted
<1> QED
    BY <1>4, <1>6, <1>7, <1>8, <1>9, <1>10

\* A request goes on to a statement before which it holds the same pairs.
GoesOn(p) ==
    \/ pc[p] = "purge" /\ pc' = [pc EXCEPT ![p] = "upsert"]
    \/ pc[p] = "dropAccess" /\ pc' = [pc EXCEPT ![p] = "dropRefresh"]
    \/ pc[p] = "dropRefresh" /\ pc' = [pc EXCEPT ![p] = "answer"]

\* A step that fades the table keeps the invariant, provided that a request
\* about to answer has voided its parent and that the rows of undisturbed
\* pairs within their lifetimes stay.
LEMMA FadingKeepsInv ==
    ASSUME Inv, Faded(rows', rows),
           UNCHANGED <<clock, tok, old, origin, answered>>,
           pc' = pc \/ \E p \in Procs : GoesOn(p),
           \A p \in Procs : pc'[p] = "answer" /\ pc[p] # "answer" /\ old[p] # None
                               => ~Live(rows', old[p].refresh),
           \A row \in rows :
              /\ row.refresh # None /\ row.refresh = row.data.refresh
              /\ Undisturbed(row.refresh)
              /\ clock <= row.data.acreate + AccessExp
              /\ clock <= row.data.rcreate + RefreshExp
              => \E w \in rows' : w.refresh = row.refresh /\ w.data = row.data
    PROVE  Inv'
<1> USE DEF Inv
<1>1. /\ RowsMatchTheirData'
      /\ \A r \in Refreshes : Live(rows', r) => Live(rows, r)
      /\ \A row \in rows' : \E w \in rows : w.data = row.data
    BY FadingKeepsRows
<1>2. /\ pc' \in [Procs -> Steps]
      /\ \A q \in Procs :
           /\ Pending(q)' <=> Pending(q)
           /\ pc'[q] \in {"idle", "mint"} <=> pc[q] \in {"idle", "mint"}
           /\ pc'[q] = "idle" <=> pc[q] = "idle"
           /\ pc'[q] = "mint" <=> pc[q] = "mint"
           /\ pc'[q] \in {"dropAccess", "dropRefresh"} => pc[q] \in {"dropAccess", "dropRefresh"}
           /\ pc'[q] \in {"dropAccess", "dropRefresh", "answer"}
                <=> pc[q] \in {"dropAccess", "dropRefresh", "answer"}
    BY DEF GoesOn, TypeOK, Steps, Pending
<1>3. TypeOK'
    BY <1>2 DEF TypeOK, Faded
<1>4. RequestsHoldPairs'
    BY <1>2 DEF RequestsHoldPairs, Known
<1>5. PendingIsUnseen'
    BY <1>1, <1>2 DEF PendingIsUnseen, Minted
<1>6. TradesAreMinted'
    BY DEF TradesAreMinted, Minted
<1>7. ParentsAreDead'
  <2>1. ASSUME NEW t \in answered
        PROVE  /\ Known(t)'
               /\ ~\E row \in rows' : row.refresh # None /\ row.refresh = origin[t.refresh].parent
      BY <1>1, NoneIsNoValue DEF ParentsAreDead, Known, Faded, Live, Row, TypeOK
  <2>2. ASSUME NEW p \in Procs, pc'[p] = "answer", old[p] # None
        PROVE  ~Live(rows', old[p].refresh)
      BY <1>1, <2>2 DEF ParentsAreDead, TypeOK, Token
  <2> QED
      BY <2>1, <2>2 DEF ParentsAreDead
<1>8. StoredSurvives'
  <2>1. StoredPairs' = StoredPairs
      BY <1>2 DEF StoredPairs
  <2>2. ASSUME NEW t \in StoredPairs, Undisturbed(t.refresh),
               clock <= t.acreate + AccessExp, clock <= t.rcreate + RefreshExp
        PROVE  \E row \in rows' : row.refresh = t.refresh /\ row.data = t
    <3>1. PICK row \in rows : row.refresh = t.refresh /\ row.data = t
        BY <2>2 DEF StoredSurvives
    <3>2. t.refresh # None
        BY NoneIsNoValue DEF StoredPairs, TypeOK, Token, RequestsHoldPairs
    <3> QED
        BY <2>2, <3>1, <3>2
  <2> QED
      BY <2>1, <2>2 DEF StoredSurvives, Undisturbed, Minted
<1> QED
    BY <1>1, <1>3, <1>4, <1>5, <1>6, <1>7, <1>8

\* A lookup of an expired refresh token may take its key off the row.
LEMMA LoadExpiredKeepsInv ==
    ASSUME Inv, NEW p \in Procs, NEW r, LoadExpired(p, r)
    PROVE  Inv'
<1>1. /\ r # None /\ UNCHANGED <<clock, pc, tok, old, origin, answered>>
      /\ rows' = rows \/ rows' = RefreshDetached(rows, r)
    BY DEF LoadExpired
<1>2. PICK row \in rows : row.refresh = r /\ RefreshExpired(row, clock)
    BY DEF LoadExpired
<1>3. rows \in SUBSET Row /\ OneRowPerPair(rows)
    BY RowsArePairs DEF Inv, TypeOK
<1>4. CASE rows' = rows
  <2>1. Faded(rows', rows)
      BY <1>3, <1>4 DEF Faded, OneRowPerPair
  <2> QED
      BY <1>1, <1>4, <2>1, FadingKeepsInv
<1>5. CASE rows' = RefreshDetached(rows, r)
  <2>1. /\ Faded(rows', rows)
        /\ \A w \in rows : w.refresh # r => w \in rows'
      BY <1>1, <1>3, <1>5, RefreshDetachedFades
  <2>2. \A w \in rows : w.refresh = r => ~(clock <= w.data.rcreate + RefreshExp)
    <3>1. \A w \in rows : w.refresh = r => w = row
        BY <1>1, <1>2 DEF Inv, RowsMatchTheirData
    <3>2. row.data.rcreate + RefreshExp < clock
        BY <1>2 DEF RefreshExpired
    <3>3. row.data.rcreate \in Nat /\ RefreshExp \in Nat /\ clock \in Nat
        BY <1>3, LifetimesPositive DEF Row, Token, Inv, TypeOK
    <3> QED
        BY <3>1, <3>2, <3>3
  <2> QED
      BY <1>1, <2>1, <2>2, FadingKeepsInv
<1> QED
    BY <1>1, <1>4, <1>5

\* The purge spares every row whose two keys are within their lifetimes.
LEMMA PurgeKeepsInv ==
    ASSUME Inv, NEW p \in Procs, Purge(p)
    PROVE  Inv'
<1>1. /\ rows' = Purged(rows, clock) /\ GoesOn(p)
      /\ pc' = [pc EXCEPT ![p] = "upsert"]
      /\ UNCHANGED <<clock, tok, old, origin, answered>>
    BY DEF Purge, GoesOn
<1>2. Faded(rows', rows)
    BY <1>1, RowsArePairs, PurgedFades DEF Inv, TypeOK
<1>3. \A row \in rows :
         /\ row.refresh # None
         /\ clock <= row.data.acreate + AccessExp
         /\ clock <= row.data.rcreate + RefreshExp
         => row \in rows'
    BY <1>1, LifetimesPositive
    DEF Purged, AccessExpired, RefreshExpired, Inv, TypeOK, Row, Token
<1>4. \A q \in Procs : pc'[q] = "answer" => pc[q] = "answer"
    BY <1>1 DEF Inv, TypeOK
<1> QED
    BY <1>1, <1>2, <1>3, <1>4, FadingKeepsInv

\* Detaching the old access key leaves every refresh key where it is.
LEMMA DropAccessKeepsInv ==
    ASSUME Inv, NEW p \in Procs, DropAccess(p)
    PROVE  Inv'
<1>1. /\ rows' = AccessDetached(rows, old[p].access) /\ GoesOn(p)
      /\ pc' = [pc EXCEPT ![p] = "dropRefresh"]
      /\ UNCHANGED <<clock, tok, old, origin, answered>>
    BY DEF DropAccess, GoesOn
<1>2. /\ Faded(rows', rows)
      /\ \A w \in rows : \E row \in rows' : row.refresh = w.refresh /\ row.data = w.data
    BY <1>1, RowsArePairs, AccessDetachedFades DEF Inv, TypeOK
<1>3. \A q \in Procs : pc'[q] = "answer" => pc[q] = "answer"
    BY <1>1 DEF Inv, TypeOK
<1> QED
    BY <1>1, <1>2, <1>3, FadingKeepsInv

\* So does the lookup of an expired access token.
LEMMA ProbeAccessKeepsInv ==
    ASSUME Inv, NEW a, ProbeAccess(a)
    PROVE  Inv'
<1>1. /\ rows' = AccessDetached(rows, a)
      /\ UNCHANGED <<clock, pc, tok, old, origin, answered>>
    BY DEF ProbeAccess
<1>2. /\ Faded(rows', rows)
      /\ \A w \in rows : \E row \in rows' : row.refresh = w.refresh /\ row.data = w.data
    BY <1>1, RowsArePairs, AccessDetachedFades DEF Inv, TypeOK
<1> QED
    BY <1>1, <1>2, FadingKeepsInv

\* The refresh key that is taken off is the parent of the pair just stored,
\* so whoever it belonged to is not undisturbed.
LEMMA DropRefreshKeepsInv ==
    ASSUME Inv, NEW p \in Procs, DropRefresh(p)
    PROVE  Inv'
<1>1. /\ rows' = RefreshDetached(rows, old[p].refresh) /\ GoesOn(p)
      /\ pc[p] = "dropRefresh" /\ pc' = [pc EXCEPT ![p] = "answer"]
      /\ UNCHANGED <<clock, tok, old, origin, answered>>
    BY DEF DropRefresh, GoesOn
<1>2. /\ old[p] \in Token /\ old[p] # None /\ tok[p] \in Token /\ tok[p] # None
      /\ origin[tok[p].refresh] # None
      /\ origin[tok[p].refresh].parent = old[p].refresh
      /\ old[p].refresh \in Refreshes /\ old[p].refresh # None
    BY <1>1, NoneIsNoValue DEF Inv, TypeOK, RequestsHoldPairs, Known, Token
<1>3. /\ Faded(rows', rows)
      /\ \A w \in rows : w.refresh # old[p].refresh => w \in rows'
      /\ ~Live(rows', old[p].refresh)
    BY <1>1, <1>2, RowsArePairs, RefreshDetachedFades DEF Inv, TypeOK
<1>4. ~Undisturbed(old[p].refresh)
  <2>1. tok[p].refresh \in Minted
      BY <1>2 DEF Minted, Token
  <2>2. tok[p].refresh # old[p].refresh
      BY <1>2, <2>1 DEF Inv, TradesAreMinted
  <2> QED
      BY <1>2, <2>1, <2>2 DEF Undisturbed
<1>5. \A q \in Procs : pc'[q] = "answer" => pc[q] = "answer" \/ q = p
    BY <1>1 DEF Inv, TypeOK
<1> QED
    BY <1>1, <1>3, <1>4, <1>5, FadingKeepsInv

\* Storing a pair replaces the row that holds the same access token, which no
\* undisturbed pair has.
LEMMA UpsertKeepsInv ==
    ASSUME Inv, NEW p \in Procs, Upsert(p)
    PROVE  Inv'
<1> USE DEF Inv
<1> DEFINE new == [access |-> tok[p].access, refresh |-> tok[p].refresh, data |-> tok[p]]
<1>1. /\ pc[p] = "upsert" /\ UNCHANGED <<clock, tok, old, origin, answered>>
      /\ pc' = [pc EXCEPT ![p] = IF old[p] = None THEN "answer" ELSE "dropAccess"]
      /\ rows' = {row \in rows : row.access # tok[p].access} \cup {new}
    BY DEF Upsert, Upserted
<1>2. /\ Pending(p) /\ tok[p] \in Token /\ tok[p] # None /\ Known(tok[p])
      /\ tok[p].refresh \in Refreshes /\ tok[p].refresh # None
      /\ tok[p].access \in Access /\ tok[p].access # None
      /\ tok[p].refresh \in Minted
    BY <1>1, NoneIsNoValue DEF Pending, TypeOK, RequestsHoldPairs, Token, Known, Minted
<1>3. /\ new \in Row /\ new.data = tok[p] /\ new.refresh = tok[p].refresh
      /\ new.access = tok[p].access
    BY <1>2 DEF Row
<1> HIDE DEF new
<1>4. /\ pc'[p] = (IF old[p] = None THEN "answer" ELSE "dropAccess")
      /\ \A q \in Procs \ {p} : pc'[q] = pc[q]
      /\ \A q \in Procs : Pending(q)' => Pending(q) /\ q # p
    BY <1>1 DEF TypeOK, Pending
<1>5. TypeOK'
    BY <1>1, <1>3 DEF TypeOK, Steps
<1>6. RowsMatchTheirData'
  <2>1. \A row \in rows : row.data.refresh # new.data.refresh
      BY <1>2, <1>3 DEF PendingIsUnseen
  <2>2. \A row \in rows' : /\ row.refresh # None => row.refresh = row.data.refresh
                           /\ row.access # None => row.access = row.data.access
                           /\ Known(row.data)'
      BY <1>1, <1>2, <1>3 DEF RowsMatchTheirData, Known
  <2>3. \A row1, row2 \in rows' :
           \/ row1.data.refresh = row2.data.refresh
           \/ row1.access = row2.access /\ row1.access # None
           => row1 = row2
      BY <1>1, <1>3, <2>1 DEF RowsMatchTheirData
  <2> QED
      BY <2>2, <2>3 DEF RowsMatchTheirData
<1>7. RequestsHoldPairs'
    BY <1>1, <1>4 DEF RequestsHoldPairs, Known
<1>8. PendingIsUnseen'
    BY <1>1, <1>2, <1>3, <1>4 DEF PendingIsUnseen, Minted
<1>9. TradesAreMinted'
    BY <1>1 DEF TradesAreMinted, Minted
<1>10. ParentsAreDead'
  <2>1. ASSUME NEW t \in answered
        PROVE  /\ Known(t)'
               /\ ~\E row \in rows' : row.refresh # None /\ row.refresh = origin[t.refresh].parent
    <3>1. Known(t) /\ t.refresh \in Minted
        BY DEF ParentsAreDead, Known, Minted, TypeOK, Token
    <3>2. origin[t.refresh].parent # new.refresh
        BY <1>2, <1>3, <3>1 DEF PendingIsUnseen
    <3> QED
        BY <1>1, <3>1, <3>2 DEF ParentsAreDead, Known
  <2>2. ASSUME NEW q \in Procs, pc'[q] = "answer", old[q] # None
        PROVE  ~Live(rows', old[q].refresh)
    <3>1. pc[q] = "answer" /\ new.refresh # old[q].refresh
        BY <1>2, <1>3, <1>4, <2>2 DEF PendingIsUnseen
    <3> QED
        BY <1>1, <2>2, <3>1 DEF ParentsAreDead, Live
  <2> QED
      BY <1>1, <2>1, <2>2 DEF ParentsAreDead
<1>11. StoredSurvives'
  <2>1. StoredPairs' \subseteq StoredPairs \cup {tok[p]}
      BY <1>1, <1>4 DEF StoredPairs
  <2>2. ASSUME NEW t \in StoredPairs, Undisturbed(t.refresh),
               clock <= t.acreate + AccessExp, clock <= t.rcreate + RefreshExp
        PROVE  \E row \in rows' : row.refresh = t.refresh /\ row.data = t
    <3>1. PICK row \in rows : row.refresh = t.refresh /\ row.data = t
        BY <2>2 DEF StoredSurvives
    <3>2. tok[p].refresh \in Minted \ {t.refresh}
        BY <1>2, <3>1 DEF PendingIsUnseen
    <3>3. tok[p].access # t.access
        BY <1>2, <2>2, <3>1, <3>2 DEF Undisturbed, Known, RowsMatchTheirData
    <3>4. row.access # tok[p].access
        BY <1>2, <3>1, <3>3 DEF RowsMatchTheirData
    <3> QED
        BY <1>1, <3>1, <3>4
  <2>3. \E row \in rows' : row.refresh = tok[p].refresh /\ row.data = tok[p]
      BY <1>1, <1>3
  <2> QED
      BY <1>1, <2>1, <2>2, <2>3 DEF StoredSurvives, Undisturbed, Minted
<1> QED
    BY <1>5, <1>6, <1>7, <1>8, <1>9, <1>10, <1>11

\* Ending a request, with or without an answer.
LEMMA EndKeepsInv ==
    ASSUME Inv, NEW p \in Procs, EndRequest(p), UNCHANGED <<clock, rows, origin>>,
           \/ answered' = answered
           \/ pc[p] = "answer" /\ answered' = answered \cup {tok[p]}
    PROVE  Inv'
<1> USE DEF Inv
<1>1. /\ pc'[p] = "idle" /\ tok'[p] = None /\ old'[p] = None
      /\ \A q \in Procs \ {p} : pc'[q] = pc[q] /\ tok'[q] = tok[q] /\ old'[q] = old[q]
    BY DEF EndRequest, TypeOK
<1>2. pc[p] = "answer" => /\ tok[p] \in Token /\ tok[p] # None /\ Known(tok[p])
                          /\ origin[tok[p].refresh].parent =
                               IF old[p] = None THEN None ELSE old[p].refresh
    BY DEF RequestsHoldPairs, TypeOK
<1>3. TypeOK'
    BY <1>2 DEF TypeOK, EndRequest, Steps
<1>4. RowsMatchTheirData' /\ TradesAreMinted'
    BY DEF RowsMatchTheirData, TradesAreMinted, Known, Minted
<1>5. RequestsHoldPairs'
    BY <1>1 DEF RequestsHoldPairs, Known
<1>6. PendingIsUnseen'
    BY <1>1, <1>2 DEF PendingIsUnseen, Pending, Minted
<1>7. ParentsAreDead'
    BY <1>1, <1>2 DEF ParentsAreDead, Known, Live
<1>8. StoredSurvives'
  <2>1. StoredPairs' \subseteq StoredPairs
      BY <1>1 DEF StoredPairs
  <2> QED
      BY <2>1 DEF StoredSurvives, Undisturbed, Minted
<1> QED
    BY <1>3, <1>4, <1>5, <1>6, <1>7, <1>8

\* Time only ends the lifetimes that the invariant speaks of.
LEMMA TickKeepsInv == ASSUME Inv, Tick PROVE Inv'
<1> USE DEF Inv, Tick
<1>1. TypeOK'
    BY DEF TypeOK
<1>2. RowsMatchTheirData' /\ RequestsHoldPairs' /\ TradesAreMinted'
    BY DEF RowsMatchTheirData, RequestsHoldPairs, TradesAreMinted, Known, Minted
<1>3. PendingIsUnseen' /\ ParentsAreDead'
    BY DEF PendingIsUnseen, ParentsAreDead, Pending, Minted, Known, Live
<1>4. StoredSurvives'
  <2>1. \A t \in StoredPairs : t \in Token
      BY DEF StoredPairs, TypeOK, RequestsHoldPairs
  <2>2. \A n \in Nat : clock' <= n => clock <= n
      BY DEF TypeOK
  <2>3. \A t \in StoredPairs : t.acreate + AccessExp \in Nat /\ t.rcreate + RefreshExp \in Nat
      BY <2>1, LifetimesPositive DEF Token
  <2> QED
      BY <2>2, <2>3 DEF StoredSurvives, StoredPairs, Undisturbed, Minted
<1> QED
    BY <1>1, <1>2, <1>3, <1>4

\* The invariant is inductive: every step keeps it.
LEMMA NextKeepsInv == ASSUME Inv, [Next]_vars PROVE Inv'
<1>1. ASSUME NEW p \in Procs, Request(p) PROVE Inv'
  <2>1. ASSUME NEW u \in Users, Login(p, u) PROVE Inv'
      BY <2>1, LoginKeepsInv
  <2>2. ASSUME NEW r \in Handed \cup {None}, Load(p, r) PROVE Inv'
    <3>1. CASE LoadMiss(p, r)
        BY <3>1 DEF LoadMiss, vars, Inv, TypeOK, RowsMatchTheirData, RequestsHoldPairs,
                    PendingIsUnseen, TradesAreMinted, ParentsAreDead, StoredSurvives,
                    Known, Pending, Minted, Live, StoredPairs, Undisturbed
    <3>2. CASE LoadExpired(p, r)
        BY <3>2, LoadExpiredKeepsInv
    <3>3. CASE LoadHit(p, r)
        BY <3>3, LoadHitKeepsInv
    <3> QED
        BY <2>2, <3>1, <3>2, <3>3 DEF Load
  <2>3. CASE Mint(p)
      BY <2>3, MintKeepsInv
  <2>4. CASE Purge(p)
      BY <2>4, PurgeKeepsInv
  <2>5. CASE Upsert(p)
      BY <2>5, UpsertKeepsInv
  <2>6. CASE DropAccess(p)
      BY <2>6, DropAccessKeepsInv
  <2>7. CASE DropRefresh(p)
      BY <2>7, DropRefreshKeepsInv
  <2>8. CASE Answer(p)
      BY <2>8, EndKeepsInv DEF Answer
  <2>9. CASE Abandon(p)
      BY <2>9, EndKeepsInv DEF Abandon
  <2> QED
      BY <1>1, <2>1, <2>2, <2>3, <2>4, <2>5, <2>6, <2>7, <2>8, <2>9 DEF Request
<1>2. ASSUME NEW row \in rows, ProbeAccess(row.access) PROVE Inv'
    BY <1>2, ProbeAccessKeepsInv
<1>3. CASE Tick
    BY <1>3, TickKeepsInv
<1>4. CASE UNCHANGED vars
    BY <1>4 DEF vars, Inv, TypeOK, RowsMatchTheirData, RequestsHoldPairs,
                PendingIsUnseen, TradesAreMinted, ParentsAreDead, StoredSurvives,
                Known, Pending, Minted, Live, StoredPairs, Undisturbed
<1> QED
    BY <1>1, <1>2, <1>3, <1>4 DEF Next

\* The invariant holds in every state the service can reach.
THEOREM Invariance == Spec => []Inv
BY InitInv, NextKeepsInv, PTL DEF Spec

-------------------------------------------------------------------------------
(* The safety properties. *)

\* Every variable of the token service keeps its type.
THEOREM TypeCorrect == Spec => []TypeOK
<1>1. Inv => TypeOK
    BY DEF Inv
<1> QED
    BY <1>1, Invariance, PTL

\* The unique indexes of the token table never refuse a Create.
THEOREM KeysStayUnique == Spec => []KeysAreUnique
<1>1. Inv => KeysAreUnique
    BY DEF Inv, KeysAreUnique, RowsMatchTheirData
<1> QED
    BY <1>1, Invariance, PTL

\* A working refresh token belongs to the login its chain started with, however
\* long the chain and however its requests interleave.
THEOREM LoginIsKept == Spec => []RefreshKeepsLogin
<1>1. Inv => RefreshKeepsLogin
  <2> SUFFICES ASSUME Inv, NEW row \in rows, row.refresh # None
               PROVE  /\ row.refresh \in Minted
                      /\ row.data.user = origin[row.refresh].user
                      /\ row.data.rcreate = origin[row.refresh].since
      BY DEF RefreshKeepsLogin
  <2> QED
      BY DEF Inv, RowsMatchTheirData, Known, Minted, TypeOK, Row
<1> QED
    BY <1>1, Invariance, PTL

\* Rotation: a refresh token that was traded for an answered pair never works
\* again, with any number of requests in flight.
THEOREM RotationVoids == Spec => []SpentStaysDead
<1>1. Inv => SpentStaysDead
    BY DEF Inv, ParentsAreDead, SpentStaysDead, Spent, Live
<1> QED
    BY <1>1, Invariance, PTL

\* A client whose pair nobody disturbs stays able to refresh as long as both of
\* its tokens are within their lifetimes.
THEOREM UndisturbedSessionsSurvive == Spec => []UnspentSurvives
<1>1. Inv => UnspentSurvives
    BY DEF Inv, StoredSurvives, StoredPairs, UnspentSurvives, Live
<1> QED
    BY <1>1, Invariance, PTL

-------------------------------------------------------------------------------
(* The lifetime of a session. *)

\* Only a lookup that finds a row within its refresh lifetime admits a refresh.
LEMMA AdmittedInTime ==
    ASSUME Inv, [Next]_vars, NEW p \in Procs, pc[p] = "idle", pc'[p] = "mint"
    PROVE  clock <= origin[old'[p].refresh].since + RefreshExp
<1>1. \E r \in Handed \cup {None} : LoadHit(p, r)
  <2>1. PICK q \in Procs : Request(q)
      BY DEF Next, vars, Tick, ProbeAccess
  <2>2. pc \in [Procs -> Steps]
      BY DEF Inv, TypeOK
  <2>3. q = p
      BY <2>1, <2>2 DEF Request, Login, Load, LoadMiss, LoadExpired, LoadHit, Mint, Purge,
                        Upsert, DropAccess, DropRefresh, Answer, Abandon, EndRequest, vars
  <2>4. \E r \in Handed \cup {None} : Load(p, r)
      BY <2>1, <2>2, <2>3 DEF Request, Login, Mint, Purge, Upsert, DropAccess,
                              DropRefresh, Answer, Abandon
  <2> QED
      BY <2>4 DEF Load, LoadMiss, LoadExpired, vars
<1>2. PICK row \in rows : ~RefreshExpired(row, clock) /\ old' = [old EXCEPT ![p] = row.data]
    BY <1>1 DEF LoadHit
<1>3. /\ row.data \in Token /\ Known(row.data) /\ clock \in Nat /\ RefreshExp \in Nat
      /\ old'[p] = row.data /\ row.data.rcreate \in Nat
    BY <1>2, LifetimesPositive DEF Inv, TypeOK, RowsMatchTheirData, Row, Token
<1>4. origin' = origin
    BY <1>1 DEF LoadHit
<1> QED
    BY <1>2, <1>3, <1>4 DEF RefreshExpired, Known

\* A session can be refreshed only within RefreshExp of the login it started
\* with, however often it has been refreshed before.
THEOREM LifetimeIsAbsolute == Spec => RefreshLifetimeIsAbsolute
<1>1. Inv /\ [Next]_vars =>
        [\A p \in Procs :
          pc[p] = "idle" /\ pc'[p] = "mint"
            => clock <= origin[old'[p].refresh].since + RefreshExp]_vars
    BY AdmittedInTime
<1> QED
    BY <1>1, Invariance, PTL DEF Spec, RefreshLifetimeIsAbsolute

-------------------------------------------------------------------------------
(* The table implements SessionKeys. *)

Unstored == Fresh \cup {tok[p].refresh : p \in {q \in Procs : Pending(q)}}

\* A faded table shows no binding that it did not show before.
LEMMA FadingForgets ==
    ASSUME Faded(rows', rows), Unstored' \subseteq Unstored
    PROVE  Keys!Forget
<1>1. \A row \in rows' : \E w \in rows :
         /\ row.data = w.data
         /\ row.access # None => row.access = w.access
         /\ row.refresh # None => row.refresh = w.refresh
    BY DEF Faded
<1>2. AccessBindings' \subseteq AccessBindings
    BY <1>1 DEF AccessBindings
<1>3. RefreshBindings' \subseteq RefreshBindings
    BY <1>1 DEF RefreshBindings
<1> QED
    BY <1>2, <1>3 DEF Keys!Forget, Unstored

\* An unchanged table is a fading of itself.
LEMMA SameRowsFade == ASSUME Inv, rows' = rows PROVE Faded(rows', rows)
BY RowsArePairs DEF Inv, TypeOK, Faded, OneRowPerPair

\* An Upsert binds both keys of a pair that was unused to that pair.
LEMMA UpsertBinds ==
    ASSUME Inv, NEW p \in Procs, Upsert(p)
    PROVE  Keys!Next
<1> DEFINE b == [key |-> tok[p].refresh, token |-> tok[p]]
           new == [access |-> tok[p].access, refresh |-> tok[p].refresh, data |-> tok[p]]
<1>1. /\ pc[p] = "upsert" /\ UNCHANGED <<tok, origin>>
      /\ pc' = [pc EXCEPT ![p] = IF old[p] = None THEN "answer" ELSE "dropAccess"]
      /\ rows' = {row \in rows : row.access # tok[p].access} \cup {new}
    BY DEF Upsert, Upserted
<1>2. /\ Pending(p) /\ tok[p] \in Token /\ tok[p].refresh # None /\ tok[p].access # None
      /\ tok[p].refresh \in Minted
    BY <1>1, NoneIsNoValue DEF Pending, Inv, TypeOK, RequestsHoldPairs, Token, Known, Minted
<1>3. /\ new.data = tok[p] /\ new.refresh = tok[p].refresh /\ new.access = tok[p].access
      /\ b.key = tok[p].refresh /\ b.token = tok[p]
    OBVIOUS
<1>4. b.key \in Unstored
    BY <1>2, <1>3 DEF Unstored
<1>5. b \in RefreshBindings' /\ RefreshBindings' \subseteq RefreshBindings \cup {b}
  <2>1. new \in rows' /\ \A row \in rows' : row \in rows \/ row = new
      BY <1>1
  <2>2. b = [key |-> new.refresh, token |-> new.data] /\ new.refresh # None
      BY <1>2, <1>3
  <2> HIDE DEF b, new
  <2>3. b \in RefreshBindings'
      BY <2>1, <2>2 DEF RefreshBindings
  <2>4. RefreshBindings' \subseteq RefreshBindings \cup {b}
      BY <2>1, <2>2 DEF RefreshBindings
  <2> QED
      BY <2>3, <2>4
<1>6. AccessBindings' \subseteq {c \in AccessBindings : c.key # b.token.access}
                                 \cup {[key |-> b.token.access, token |-> b.token]}
    BY <1>1, <1>2 DEF AccessBindings
<1>7. Unstored' = Unstored \ {b.key}
  <2>1. \A q \in Procs : Pending(q)' <=> Pending(q) /\ q # p
      BY <1>1 DEF Pending, Inv, TypeOK
  <2>2. \A q \in Procs : Pending(q) /\ q # p => tok[q].refresh # tok[p].refresh
      BY <1>2 DEF Inv, PendingIsUnseen, RequestsHoldPairs, Pending
  <2>3. Fresh' = Fresh /\ tok[p].refresh \notin Fresh
      BY <1>1, <1>2 DEF Fresh, Minted
  <2> QED
      BY <1>1, <1>2, <1>3, <2>1, <2>2, <2>3 DEF Unstored
<1> HIDE DEF b, new
<1>8. b.token.refresh = b.key
    BY <1>3
<1>9. Keys!Bind(b)
    BY <1>4, <1>5, <1>6, <1>7, <1>8 DEF Keys!Bind, Keys!Binding, Unstored
<1> QED
    BY <1>5, <1>9 DEF Keys!Next, Keys!Bind

\* Every statement before or after the Upsert only makes the store forget.
LEMMA RequestRefines ==
    ASSUME Inv, NEW p \in Procs, Request(p)
    PROVE  Keys!Next
<1>0. OneRowPerPair(rows) /\ rows \in SUBSET Row /\ pc \in [Procs -> Steps]
    BY RowsArePairs DEF Inv, TypeOK
<1>1. ASSUME NEW u \in Users, Login(p, u) PROVE Keys!Forget
  <2>1. PICK r \in Fresh : /\ tok'[p].refresh = r /\ tok' = [tok EXCEPT ![p] = tok'[p]]
                           /\ origin' = [origin EXCEPT ![r] = origin'[r]]
                           /\ origin'[r] # None
    <3>1. PICK r \in Fresh :
        /\ tok' = [tok EXCEPT ![p] = [user |-> u, access |-> JWT(u, clock), refresh |-> r,
                                      acreate |-> clock, rcreate |-> clock]]
        /\ origin' = [origin EXCEPT ![r] = [user |-> u, since |-> clock,
                                            parent |-> None, access |-> JWT(u, clock)]]
        BY <1>1 DEF Login
    <3>2. [user |-> u, since |-> clock, parent |-> None, access |-> JWT(u, clock)] \in Origin
        BY JWTType DEF Inv, TypeOK, Origin
    <3> QED
        BY <3>1, <3>2, NoneIsNoOrigin DEF Inv, TypeOK, Fresh
  <2>2. rows' = rows /\ pc[p] = "idle" /\ pc' = [pc EXCEPT ![p] = "purge"]
      BY <1>1 DEF Login
  <2>3. Fresh' \subseteq Fresh
      BY <2>1 DEF Fresh, Minted, Inv, TypeOK
  <2>4. Unstored' \subseteq Unstored
      BY <1>0, <2>1, <2>2, <2>3 DEF Unstored, Pending, Inv, TypeOK
  <2> QED
      BY <2>2, <2>4, SameRowsFade, FadingForgets
<1>2. ASSUME NEW r \in Handed \cup {None}, Load(p, r) PROVE Keys!Forget
  <2>1. Faded(rows', rows)
    <3>1. CASE rows' = rows
        BY <3>1, SameRowsFade
    <3>2. CASE r # None /\ rows' = RefreshDetached(rows, r)
        BY <1>0, <3>2, RefreshDetachedFades
    <3> QED
        BY <1>2, <3>1, <3>2 DEF Load, LoadMiss, LoadExpired, LoadHit, vars
  <2>2. tok' = tok /\ origin' = origin
        /\ (pc' = pc \/ (pc[p] = "idle" /\ pc' = [pc EXCEPT ![p] = "mint"]))
      BY <1>2 DEF Load, LoadMiss, LoadExpired, LoadHit, vars
  <2>3. Unstored' \subseteq Unstored
      BY <1>0, <2>2 DEF Unstored, Pending, Fresh, Minted
  <2> QED
      BY <2>1, <2>3, FadingForgets
<1>3. ASSUME Mint(p) PROVE Keys!Forget
  <2>1. PICK r \in Fresh : /\ tok'[p].refresh = r /\ tok' = [tok EXCEPT ![p] = tok'[p]]
                           /\ origin' = [origin EXCEPT ![r] = origin'[r]]
                           /\ r \in Minted'
    <3>1. Inv'
        BY <1>3, MintKeepsInv
    <3>2. PICK r \in Fresh : tok'[p].refresh = r /\ tok' = [tok EXCEPT ![p] = tok'[p]]
                             /\ origin' = [origin EXCEPT ![r] = origin'[r]]
      <4> DEFINE access == JWT(old[p].user, clock)
                 was == origin[old[p].refresh]
                 t(r) == [user |-> old[p].user, access |-> access, refresh |-> r,
                          acreate |-> clock, rcreate |-> old[p].rcreate]
                 o(r) == [user |-> was.user, since |-> was.since,
                          parent |-> old[p].refresh, access |-> access]
      <4>1. PICK r \in Fresh :
              tok' = [tok EXCEPT ![p] = t(r)] /\ origin' = [origin EXCEPT ![r] = o(r)]
          BY <1>3 DEF Mint
      <4>2. t(r).refresh = r
          OBVIOUS
      <4> HIDE DEF t, o
      <4> QED
          BY <4>1, <4>2 DEF Inv, TypeOK, Fresh
    <3>3. tok'[p] # None
        BY <1>0, <1>3, <3>1 DEF Mint, Inv, RequestsHoldPairs
    <3> QED
        BY <3>1, <3>2, <3>3 DEF Inv, RequestsHoldPairs, Known, Minted, Fresh
  <2>2. rows' = rows /\ pc[p] = "mint" /\ pc' = [pc EXCEPT ![p] = "purge"]
      BY <1>3 DEF Mint
  <2>3. Fresh' \subseteq Fresh
      BY <2>1 DEF Fresh, Minted, Inv, TypeOK
  <2>4. Unstored' \subseteq Unstored
      BY <1>0, <2>1, <2>2, <2>3 DEF Unstored, Pending, Inv, TypeOK
  <2> QED
      BY <2>2, <2>4, SameRowsFade, FadingForgets
<1>4. ASSUME Purge(p) \/ DropAccess(p) \/ DropRefresh(p) PROVE Keys!Forget
  <2>1. Faded(rows', rows)
    <3>1. DropRefresh(p) => old[p].refresh # None
        BY NoneIsNoValue DEF DropRefresh, Inv, TypeOK, RequestsHoldPairs, Token
    <3> QED
        BY <1>0, <1>4, <3>1, PurgedFades, AccessDetachedFades, RefreshDetachedFades
        DEF Purge, DropAccess, DropRefresh
  <2>2. tok' = tok /\ origin' = origin /\ GoesOn(p)
      BY <1>4 DEF Purge, DropAccess, DropRefresh, GoesOn
  <2>3. Unstored' \subseteq Unstored
      BY <1>0, <2>2 DEF Unstored, Pending, Fresh, Minted, GoesOn
  <2> QED
      BY <2>1, <2>3, FadingForgets
<1>5. ASSUME Answer(p) \/ Abandon(p) PROVE Keys!Forget
  <2>1. rows' = rows /\ origin' = origin /\ EndRequest(p)
      BY <1>5 DEF Answer, Abandon
  <2>2. \A q \in Procs : Pending(q)' => Pending(q) /\ tok'[q] = tok[q]
      BY <1>0, <2>1 DEF EndRequest, Pending, Inv, TypeOK
  <2>3. Unstored' \subseteq Unstored
      BY <2>1, <2>2 DEF Unstored, Fresh, Minted
  <2> QED
      BY <2>1, <2>3, SameRowsFade, FadingForgets
<1> QED
    BY <1>1, <1>2, <1>3, <1>4, <1>5, UpsertBinds DEF Request, Keys!Next

\* Every behaviour of the token service is one of the abstract store: whatever
\* requests interleave and wherever they stop, a refresh token is bound once and
\* never again, and a binding never changes.
THEOREM StoreRefines == Spec => ImplementsSessionKeys
<1>1. Init => Keys!Init
  <2> SUFFICES ASSUME Init PROVE Keys!Init
      OBVIOUS
  <2>1. Fresh = Refreshes /\ {q \in Procs : Pending(q)} = {}
      BY DEF Init, Fresh, Minted, Pending
  <2> QED
      BY <2>1 DEF Init, Keys!Init, AccessBindings, RefreshBindings
<1>2. ASSUME Inv, [Next]_vars PROVE [Keys!Next]_(Keys!keys)
  <2>1. ASSUME NEW p \in Procs, Request(p) PROVE Keys!Next
      BY <1>2, <2>1, RequestRefines
  <2>2. ASSUME NEW row \in rows, ProbeAccess(row.access) PROVE Keys!Next
    <3>1. Faded(rows', rows)
        BY <1>2, <2>2, RowsArePairs, AccessDetachedFades DEF ProbeAccess, Inv, TypeOK
    <3>2. Unstored' \subseteq Unstored
        BY <2>2 DEF ProbeAccess, Unstored, Fresh, Minted, Pending
    <3> QED
        BY <3>1, <3>2, FadingForgets DEF Keys!Next
  <2>3. CASE Tick \/ UNCHANGED vars
      BY <2>3 DEF Tick, vars, Keys!keys, AccessBindings, RefreshBindings,
                  Fresh, Minted, Pending
  <2> QED
      BY <1>2, <2>1, <2>2, <2>3 DEF Next
<1> QED
    BY <1>1, <1>2, Invariance, PTL DEF Spec, ImplementsSessionKeys, Keys!Spec
===============================================================================
