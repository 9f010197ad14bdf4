-------------------------- MODULE TokensTrade_proofs ---------------------------
(***************************************************************************)
(* Trades that fail half-way leave an heir: the last of the invariants of   *)
(* Tokens, for any number of users, requests in flight and refresh tokens.  *)
(***************************************************************************)
EXTENDS Tokens_proofs

-------------------------------------------------------------------------------
(* What is to be added to the invariant of Tokens_proofs: how the pairs of a   *)
(* chain of trades stand to each other, stored or not.                         *)

\* All pairs there are or have been a moment ago.
Pairs ==
    answered \cup {row.data : row \in rows}
      \cup {tok[p] : p \in {q \in Procs : tok[q] # None}}
      \cup {old[p] : p \in {q \in Procs : old[q] # None}}

\* A refresh token belongs to one pair, and a pair is not older than the one it
\* was traded for.
PairsAreOrdered ==
    /\ \A t \in Pairs : Known(t) /\ t.acreate <= clock
    /\ \A t, u \in Pairs :
         /\ t.refresh = u.refresh => t = u
         /\ origin[u.refresh].parent = t.refresh => t.acreate <= u.acreate

\* A trade keeps the date of the login.
TradesKeepTheDate ==
    \A q \in Minted : origin[q].parent # None =>
        origin[q].since = origin[origin[q].parent].since

\* Only refresh tokens that a client was handed are traded.
HandedIsTraded ==
    /\ \A p \in Procs : old[p] # None => old[p].refresh \in Handed
    /\ \A q \in Minted : origin[q].parent # None => origin[q].parent \in Handed

\* The pair of a request in flight is nobody else's yet.
PairsAreOwn ==
    \A p \in Procs : tok[p] # None =>
        /\ tok[p].refresh \notin Handed
        /\ \A q \in Procs \ {p} : tok[q] # None => tok[q].refresh # tok[p].refresh

\* The refresh tokens that r was traded for.
Heirs(r) == {q \in Minted : origin[q].parent = r}

\* TradeLeavesHeir of one pair.
HeirLeft(t) ==
    /\ \A q \in Heirs(t.refresh) \cup {t.refresh} : OwnAccess(q)
    /\ clock <= t.acreate + AccessExp
    /\ clock <= t.rcreate + RefreshExp
    => \E q \in Heirs(t.refresh) \cup {t.refresh} :
          Live(rows, q) \/ (q # t.refresh /\ q \in Handed)

TradeInv ==
    /\ PairsAreOrdered
    /\ TradesKeepTheDate
    /\ HandedIsTraded
    /\ PairsAreOwn
    /\ \A t \in StoredPairs : HeirLeft(t)

-------------------------------------------------------------------------------
(* Facts about the pairs of a state. *)

\* Every pair has its type and a minted refresh token.
LEMMA PairFacts ==
    ASSUME Inv, PairsAreOrdered, NEW t \in Pairs
    PROVE  /\ t \in Token /\ t # None /\ Known(t)
           /\ t.refresh \in Refreshes /\ t.refresh \in Minted /\ t.refresh # None
           /\ t.acreate \in Nat /\ t.rcreate \in Nat
           /\ t.acreate + AccessExp \in Nat /\ t.rcreate + RefreshExp \in Nat
<1>1. t \in Token
    BY DEF Inv, TypeOK, Pairs, Row
<1>2. Known(t)
    BY DEF PairsAreOrdered
<1> QED
    BY <1>1, <1>2, NoneIsNoValue, LifetimesPositive DEF Token, Known, Minted

\* What is stored is a pair, and requests hold pairs.
LEMMA HeldPairs ==
    ASSUME Inv
    PROVE  /\ StoredPairs \subseteq Pairs
           /\ \A row \in rows : row.data \in Pairs
           /\ \A p \in Procs : tok[p] # None => tok[p] \in Pairs
           /\ \A p \in Procs : old[p] # None => old[p] \in Pairs
BY DEF Pairs, StoredPairs, Inv, RequestsHoldPairs

\* The row of a refresh token holds its pair.
LEMMA RowHoldsPair ==
    ASSUME Inv, PairsAreOrdered, NEW row \in rows, row.refresh # None
    PROVE  /\ row.data \in Pairs /\ row.data.refresh = row.refresh
           /\ \A t \in Pairs : t.refresh = row.refresh => row.data = t
BY DEF Inv, RowsMatchTheirData, PairsAreOrdered, Pairs

-------------------------------------------------------------------------------
(* Steps that mint nothing. *)

\* If no pair is new, the pairs stay in their order.
LEMMA OrderStays ==
    ASSUME Inv, PairsAreOrdered, TradesKeepTheDate, origin' = origin,
           clock' \in Nat, clock <= clock', Pairs' \subseteq Pairs
    PROVE  PairsAreOrdered' /\ TradesKeepTheDate'
<1>1. \A t \in Pairs : t.acreate \in Nat
    BY PairFacts
<1>2. clock \in Nat
    BY DEF Inv, TypeOK
<1>3. \A t \in Pairs' : Known(t)' /\ t.acreate <= clock'
    BY <1>1, <1>2 DEF PairsAreOrdered, Known
<1>4. TradesKeepTheDate'
    BY DEF TradesKeepTheDate, Minted
<1> QED
    BY <1>3, <1>4 DEF PairsAreOrdered

\* An heir is left by every step that takes refresh tokens only from rows past
\* their lifetimes, from rows that lost their access token to another pair, or by
\* the trade of a token that had itself been handed out as an heir.
LEMMA HeirStays ==
    ASSUME Inv, PairsAreOrdered, TradesKeepTheDate, NEW t \in Pairs, HeirLeft(t),
           clock' \in Nat, clock <= clock',
           \A q \in Minted : q \in Minted' /\ origin'[q] = origin[q],
           Handed \subseteq Handed',
           \A row \in rows :
              /\ row.refresh # None
              /\ OwnAccess(row.refresh)
              /\ clock <= row.data.acreate + AccessExp
              /\ clock <= row.data.rcreate + RefreshExp
              => \/ Live(rows', row.refresh)
                 \/ row.refresh # t.refresh /\ row.refresh \in Handed'
    PROVE  HeirLeft(t)'
<1> SUFFICES ASSUME \A q \in Heirs(t.refresh)' \cup {t.refresh} : OwnAccess(q)',
                    clock' <= t.acreate + AccessExp, clock' <= t.rcreate + RefreshExp
             PROVE  \E q \in Heirs(t.refresh)' \cup {t.refresh} :
                        Live(rows', q) \/ (q # t.refresh /\ q \in Handed')
    BY DEF HeirLeft, Live
<1>1. /\ t \in Token /\ Known(t) /\ t.refresh \in Minted
      /\ t.acreate \in Nat /\ t.rcreate \in Nat /\ clock \in Nat
      /\ t.acreate + AccessExp \in Nat /\ t.rcreate + RefreshExp \in Nat
    BY PairFacts DEF Inv, TypeOK
<1>2. Heirs(t.refresh) \subseteq Heirs(t.refresh)'
    BY DEF Heirs
<1>3. \A q \in Heirs(t.refresh) \cup {t.refresh} : q \in Minted /\ OwnAccess(q)
  <2>1. ASSUME NEW q \in Minted, OwnAccess(q)' PROVE OwnAccess(q)
      BY <2>1 DEF OwnAccess
  <2> QED
      BY <1>1, <1>2, <2>1 DEF Heirs
<1>4. clock <= t.acreate + AccessExp /\ clock <= t.rcreate + RefreshExp
    BY <1>1
<1>5. PICK q \in Heirs(t.refresh) \cup {t.refresh} :
         Live(rows, q) \/ (q # t.refresh /\ q \in Handed)
    BY <1>3, <1>4 DEF HeirLeft
<1>6. CASE q # t.refresh /\ q \in Handed
    BY <1>2, <1>5, <1>6
<1>7. CASE Live(rows, q)
  <2>1. PICK row \in rows : row.refresh = q
      BY <1>7 DEF Live
  <2>2. q # None
      BY <1>3, <1>5, NoneIsNoValue DEF Minted
  <2>3. row.data \in Pairs /\ row.data.refresh = q /\ (q = t.refresh => row.data = t)
      BY <2>1, <2>2, RowHoldsPair
  <2>4. /\ Known(row.data) /\ row.data.acreate \in Nat
        /\ row.data.acreate + AccessExp \in Nat
      BY <2>3, PairFacts
  <2>5. t.acreate <= row.data.acreate /\ row.data.rcreate = t.rcreate
    <3>1. CASE q = t.refresh
        BY <1>1, <2>3, <3>1
    <3>2. CASE q \in Heirs(t.refresh)
      <4>1. q \in Minted /\ origin[q].parent = t.refresh /\ t.refresh # None
          BY <3>2, <1>1, NoneIsNoValue DEF Heirs, Minted
      <4>2. origin[q].since = origin[t.refresh].since
          BY <4>1 DEF TradesKeepTheDate
      <4> QED
          BY <1>1, <2>3, <2>4, <4>1, <4>2 DEF PairsAreOrdered, Known
    <3> QED
        BY <1>5, <3>1, <3>2
  <2>6. clock <= row.data.acreate + AccessExp /\ clock <= row.data.rcreate + RefreshExp
      BY <1>1, <1>4, <2>4, <2>5, LifetimesPositive
  <2>7. Live(rows', q) \/ (q # t.refresh /\ q \in Handed')
      BY <1>3, <1>5, <2>1, <2>2, <2>6
  <2> QED
      BY <1>2, <1>5, <2>7
<1> QED
    BY <1>5, <1>6, <1>7

\* A step that fades the table needs a look at the heirs only.
LEMMA FadingKeepsTrades ==
    ASSUME Inv, TradeInv, Faded(rows', rows),
           UNCHANGED <<clock, tok, old, origin, answered>>,
           pc' = pc \/ \E p \in Procs : GoesOn(p),
           \A t \in StoredPairs : HeirLeft(t)'
    PROVE  TradeInv'
<1> USE DEF TradeInv
<1>1. Pairs' \subseteq Pairs
    BY DEF Pairs, Faded
<1>2. PairsAreOrdered' /\ TradesKeepTheDate'
    BY <1>1, OrderStays DEF Inv, TypeOK
<1>3. HandedIsTraded' /\ PairsAreOwn'
    BY DEF HandedIsTraded, PairsAreOwn, Minted, Handed
<1>4. StoredPairs' = StoredPairs
    BY DEF StoredPairs, GoesOn, Inv, TypeOK, Steps
<1> QED
    BY <1>2, <1>3, <1>4

\* A step that fades the table and leaves the refresh keys of rows within their
\* lifetimes alone keeps all heirs.
LEMMA SparingKeepsTrades ==
    ASSUME Inv, TradeInv, Faded(rows', rows),
           UNCHANGED <<clock, tok, old, origin, answered>>,
           pc' = pc \/ \E p \in Procs : GoesOn(p),
           \A row \in rows :
              /\ row.refresh # None
              /\ clock <= row.data.acreate + AccessExp
              /\ clock <= row.data.rcreate + RefreshExp
              => Live(rows', row.refresh)
    PROVE  TradeInv'
<1>1. ASSUME NEW t \in StoredPairs PROVE HeirLeft(t)'
  <2>1. t \in Pairs /\ HeirLeft(t) /\ PairsAreOrdered /\ TradesKeepTheDate
      BY HeldPairs DEF TradeInv
  <2>2. clock' \in Nat /\ clock <= clock'
      BY DEF Inv, TypeOK
  <2>3. /\ \A q \in Minted : q \in Minted' /\ origin'[q] = origin[q]
        /\ Handed \subseteq Handed'
      BY DEF Minted, Handed
  <2> QED
      BY <2>1, <2>2, <2>3, HeirStays
<1> QED
    BY <1>1, FadingKeepsTrades

\* The key of an expired refresh token is nobody's heir.
LEMMA LoadExpiredKeepsTrades ==
    ASSUME Inv, TradeInv, NEW p \in Procs, NEW r, LoadExpired(p, r)
    PROVE  TradeInv'
<1>1. /\ r # None /\ UNCHANGED <<clock, pc, tok, old, origin, answered>>
      /\ rows' = rows \/ rows' = RefreshDetached(rows, r)
    BY DEF LoadExpired
<1>2. PICK row \in rows : row.refresh = r /\ RefreshExpired(row, clock)
    BY DEF LoadExpired
<1>3. rows \in SUBSET Row /\ OneRowPerPair(rows)
    BY RowsArePairs DEF Inv, TypeOK
<1>4. CASE rows' = rows
  <2>1. Faded(rows', rows)
      BY <1>3, <1>4 DEF Faded, OneRowPerPair
  <2> QED
      BY <1>1, <1>4, <2>1, SparingKeepsTrades DEF Live
<1>5. CASE rows' = RefreshDetached(rows, r)
  <2>1. /\ Faded(rows', rows)
        /\ \A w \in rows : w.refresh # r => w \in rows'
      BY <1>1, <1>3, <1>5, RefreshDetachedFades
  <2>2. \A w \in rows : w.refresh = r => ~(clock <= w.data.rcreate + RefreshExp)
    <3>1. \A w \in rows : w.refresh = r => w = row
        BY <1>1, <1>2 DEF Inv, RowsMatchTheirData
    <3>2. row.data.rcreate + RefreshExp < clock
        BY <1>2 DEF RefreshExpired
    <3>3. row.data.rcreate \in Nat /\ RefreshExp \in Nat /\ clock \in Nat
        BY <1>3, LifetimesPositive DEF Row, Token, Inv, TypeOK
    <3> QED
        BY <3>1, <3>2, <3>3
  <2> QED
      BY <1>1, <2>1, <2>2, SparingKeepsTrades DEF Live
<1> QED
    BY <1>1, <1>4, <1>5

\* The purge spares the rows whose two keys are within their lifetimes.
LEMMA PurgeKeepsTrades ==
    ASSUME Inv, TradeInv, NEW p \in Procs, Purge(p)
    PROVE  TradeInv'
<1>1. /\ rows' = Purged(rows, clock) /\ GoesOn(p)
      /\ UNCHANGED <<clock, tok, old, origin, answered>>
    BY DEF Purge, GoesOn
<1>2. Faded(rows', rows)
    BY <1>1, RowsArePairs, PurgedFades DEF Inv, TypeOK
<1>3. \A row \in rows :
         /\ row.refresh # None
         /\ clock <= row.data.acreate + AccessExp
         /\ clock <= row.data.rcreate + RefreshExp
         => row \in rows'
    BY <1>1, LifetimesPositive
    DEF Purged, AccessExpired, RefreshExpired, Inv, TypeOK, Row, Token
<1> QED
    BY <1>1, <1>2, <1>3, SparingKeepsTrades DEF Live

\* Taking an access key off a row leaves every refresh key.
LEMMA DetachingKeepsTrades ==
    ASSUME Inv, TradeInv, NEW a, rows' = AccessDetached(rows, a),
           UNCHANGED <<clock, tok, old, origin, answered>>,
           pc' = pc \/ \E p \in Procs : GoesOn(p)
    PROVE  TradeInv'
<1>1. /\ Faded(rows', rows)
      /\ \A w \in rows : \E row \in rows' : row.refresh = w.refresh /\ row.data = w.data
    BY RowsArePairs, AccessDetachedFades DEF Inv, TypeOK
<1> QED
    BY <1>1, SparingKeepsTrades DEF Live

\* The trade takes a refresh token away when its heir is stored, and nobody can
\* have traded the heir, because nobody was handed it.
LEMMA DropRefreshKeepsTrades ==
    ASSUME Inv, TradeInv, NEW p \in Procs, DropRefresh(p)
    PROVE  TradeInv'
<1>1. /\ rows' = RefreshDetached(rows, old[p].refresh) /\ GoesOn(p)
      /\ pc[p] = "dropRefresh"
      /\ UNCHANGED <<clock, tok, old, origin, answered>>
    BY DEF DropRefresh, GoesOn
<1>2. /\ old[p] \in Token /\ old[p] # None /\ tok[p] \in Token /\ tok[p] # None
      /\ Known(old[p]) /\ Known(tok[p])
      /\ origin[tok[p].refresh].parent = old[p].refresh
      /\ old[p].refresh \in Refreshes /\ old[p].refresh # None
    BY <1>1, NoneIsNoValue DEF Inv, TypeOK, RequestsHoldPairs, Known, Token
<1>3. /\ Faded(rows', rows)
      /\ \A w \in rows : w.refresh # old[p].refresh => w \in rows'
    BY <1>1, <1>2, RowsArePairs, RefreshDetachedFades DEF Inv, TypeOK
<1>4. /\ tok[p].refresh \in Minted /\ tok[p].refresh # None
      /\ tok[p].refresh \in Heirs(old[p].refresh) /\ tok[p].refresh # old[p].refresh
    BY <1>2, NoneIsNoValue DEF Heirs, Minted, Known, Token, Inv, TradesAreMinted
<1>5. ASSUME NEW t \in StoredPairs, t.refresh = old[p].refresh PROVE HeirLeft(t)'
  <2> SUFFICES ASSUME \A q \in Heirs(t.refresh)' \cup {t.refresh} : OwnAccess(q)',
                      clock' <= t.acreate + AccessExp, clock' <= t.rcreate + RefreshExp
               PROVE  Live(rows', tok[p].refresh)
      BY <1>1, <1>4, <1>5 DEF HeirLeft, Heirs, Minted
  <2>1. /\ t \in Pairs /\ tok[p] \in Pairs /\ t = old[p]
        /\ t.acreate \in Nat /\ tok[p].acreate \in Nat /\ clock \in Nat
      BY <1>2, <1>5, HeldPairs, PairFacts DEF TradeInv, PairsAreOrdered, Inv, TypeOK
  <2>2. t.acreate <= tok[p].acreate /\ tok[p].rcreate = t.rcreate
      BY <1>2, <1>4, <2>1 DEF TradeInv, PairsAreOrdered, TradesKeepTheDate, Known
  <2>3. clock <= tok[p].acreate + AccessExp /\ clock <= tok[p].rcreate + RefreshExp
      BY <1>1, <2>1, <2>2, LifetimesPositive
  <2>4. Undisturbed(tok[p].refresh)
    <3>1. OwnAccess(tok[p].refresh)
        BY <1>1, <1>4, <1>5 DEF OwnAccess, Heirs, Minted
    <3>2. \A q \in Minted : origin[q].parent # tok[p].refresh
        BY <1>2, <1>4 DEF TradeInv, HandedIsTraded, PairsAreOwn
    <3> QED
        BY <3>1, <3>2 DEF Undisturbed, OwnAccess
  <2>5. tok[p] \in StoredPairs
      BY <1>1 DEF StoredPairs
  <2>6. PICK row \in rows : row.refresh = tok[p].refresh
      BY <2>3, <2>4, <2>5 DEF Inv, StoredSurvives
  <2> QED
      BY <1>3, <1>4, <2>6 DEF Live
<1>6. ASSUME NEW t \in StoredPairs, t.refresh # old[p].refresh PROVE HeirLeft(t)'
  <2>1. t \in Pairs /\ HeirLeft(t) /\ PairsAreOrdered /\ TradesKeepTheDate
      BY HeldPairs DEF TradeInv
  <2>2. clock' \in Nat /\ clock <= clock'
      BY <1>1 DEF Inv, TypeOK
  <2>3. /\ \A q \in Minted : q \in Minted' /\ origin'[q] = origin[q]
        /\ Handed \subseteq Handed'
      BY <1>1 DEF Minted, Handed
  <2>4. old[p].refresh \in Handed'
      BY <1>1, <1>2 DEF TradeInv, HandedIsTraded, Handed
  <2>5. \A row \in rows : row.refresh # None =>
            \/ Live(rows', row.refresh)
            \/ row.refresh # t.refresh /\ row.refresh \in Handed'
      BY <1>3, <1>6, <2>4 DEF Live
  <2> QED
      BY <2>1, <2>2, <2>3, <2>5, HeirStays
<1> QED
    BY <1>1, <1>3, <1>5, <1>6, FadingKeepsTrades

-------------------------------------------------------------------------------
(* Storing, ending, loading and time. *)

\* A stored pair takes rows only from pairs that were issued its access token.
LEMMA UpsertKeepsTrades ==
    ASSUME Inv, TradeInv, NEW p \in Procs, Upsert(p)
    PROVE  TradeInv'
<1> USE DEF TradeInv
<1> DEFINE new == [access |-> tok[p].access, refresh |-> tok[p].refresh, data |-> tok[p]]
<1>1. /\ pc[p] = "upsert" /\ UNCHANGED <<clock, tok, old, origin, answered>>
      /\ pc' = [pc EXCEPT ![p] = IF old[p] = None THEN "answer" ELSE "dropAccess"]
      /\ rows' = {row \in rows : row.access # tok[p].access} \cup {new}
    BY DEF Upsert, Upserted
<1>2. /\ tok[p] \in Token /\ tok[p] # None /\ Known(tok[p])
      /\ tok[p].refresh \in Minted /\ tok[p].access # None
      /\ \A row \in rows : row.data.refresh # tok[p].refresh
    BY <1>1, NoneIsNoValue
    DEF Inv, TypeOK, RequestsHoldPairs, PendingIsUnseen, Pending, Token, Known, Minted
<1>3. new.data = tok[p] /\ new.refresh = tok[p].refresh
    OBVIOUS
<1> HIDE DEF new
<1>4. Pairs' \subseteq Pairs
    BY <1>1, <1>2, <1>3 DEF Pairs
<1>5. PairsAreOrdered' /\ TradesKeepTheDate'
    BY <1>1, <1>4, OrderStays DEF Inv, TypeOK
<1>6. HandedIsTraded' /\ PairsAreOwn'
    BY <1>1 DEF HandedIsTraded, PairsAreOwn, Minted, Handed
<1>7. StoredPairs' \subseteq StoredPairs \cup {tok[p]}
    BY <1>1 DEF StoredPairs, Inv, TypeOK
<1>8. ASSUME NEW t, t = tok[p] PROVE HeirLeft(t)'
    BY <1>1, <1>3, <1>8 DEF HeirLeft, Live
<1>9. ASSUME NEW t \in StoredPairs PROVE HeirLeft(t)'
  <2>1. t \in Pairs /\ HeirLeft(t)
      BY HeldPairs
  <2>2. clock' \in Nat /\ clock <= clock'
      BY <1>1 DEF Inv, TypeOK
  <2>3. /\ \A q \in Minted : q \in Minted' /\ origin'[q] = origin[q]
        /\ Handed \subseteq Handed'
      BY <1>1 DEF Minted, Handed
  <2>4. ASSUME NEW row \in rows, row.refresh # None, OwnAccess(row.refresh)
        PROVE  Live(rows', row.refresh)
    <3>1. tok[p].refresh \in Minted \ {row.refresh}
        BY <1>2, <2>4, RowHoldsPair
    <3>2. tok[p].access # origin[row.refresh].access
        BY <1>2, <2>4, <3>1 DEF OwnAccess, Known
    <3>3. row.access # tok[p].access
        BY <1>2, <2>4, <3>2 DEF Inv, RowsMatchTheirData, Known
    <3> QED
        BY <1>1, <3>3 DEF Live
  <2> QED
      BY <2>1, <2>2, <2>3, <2>4, HeirStays
<1> QED
    BY <1>5, <1>6, <1>7, <1>8, <1>9

\* A request that ends hands out its pair or forgets it.
LEMMA EndKeepsTrades ==
    ASSUME Inv, TradeInv, NEW p \in Procs, EndRequest(p),
           UNCHANGED <<clock, rows, origin>>,
           \/ answered' = answered
           \/ pc[p] = "answer" /\ answered' = answered \cup {tok[p]}
    PROVE  TradeInv'
<1> USE DEF TradeInv
<1>1. /\ pc'[p] = "idle" /\ tok'[p] = None /\ old'[p] = None
      /\ \A q \in Procs \ {p} : pc'[q] = pc[q] /\ tok'[q] = tok[q] /\ old'[q] = old[q]
    BY DEF EndRequest, Inv, TypeOK
<1>2. pc[p] = "answer" => tok[p] # None
    BY DEF Inv, RequestsHoldPairs
<1>3. Pairs' \subseteq Pairs
    BY <1>1, <1>2 DEF Pairs
<1>4. PairsAreOrdered' /\ TradesKeepTheDate'
    BY <1>3, OrderStays DEF Inv, TypeOK
<1>5. /\ Handed \subseteq Handed'
      /\ Handed' \subseteq Handed \cup {tok[p].refresh}
      /\ Handed' = Handed \/ tok[p] # None
    BY <1>2 DEF Handed
<1>6. HandedIsTraded'
    BY <1>1, <1>5 DEF HandedIsTraded, Minted
<1>7. PairsAreOwn'
  <2> SUFFICES ASSUME NEW q \in Procs, tok'[q] # None
               PROVE  /\ tok'[q].refresh \notin Handed'
                      /\ \A o \in Procs \ {q} :
                           tok'[o] # None => tok'[o].refresh # tok'[q].refresh
      BY DEF PairsAreOwn
  <2>1. q # p /\ tok'[q] = tok[q]
      BY <1>1
  <2> QED
      BY <1>1, <1>5, <2>1 DEF PairsAreOwn
<1>8. StoredPairs' \subseteq StoredPairs
    BY <1>1 DEF StoredPairs
<1>9. ASSUME NEW t \in StoredPairs PROVE HeirLeft(t)'
  <2>1. HeirLeft(t)
      OBVIOUS
  <2> QED
      BY <1>5, <2>1 DEF HeirLeft, Heirs, OwnAccess, Minted, Live
<1> QED
    BY <1>4, <1>6, <1>7, <1>8, <1>9

\* Only what a client was handed is presented and loaded.
LEMMA LoadHitKeepsTrades ==
    ASSUME Inv, TradeInv, NEW p \in Procs, NEW r \in Handed, LoadHit(p, r)
    PROVE  TradeInv'
<1> USE DEF TradeInv
<1>1. PICK row \in rows : row.data.refresh = r /\ old' = [old EXCEPT ![p] = row.data]
    BY DEF LoadHit
<1>2. /\ pc[p] = "idle" /\ pc' = [pc EXCEPT ![p] = "mint"]
      /\ UNCHANGED <<clock, rows, tok, origin, answered>>
    BY DEF LoadHit
<1>3. /\ old'[p] = row.data /\ \A q \in Procs \ {p} : old'[q] = old[q]
    BY <1>1 DEF Inv, TypeOK
<1>4. Pairs' \subseteq Pairs
    BY <1>1, <1>2, <1>3 DEF Pairs
<1>5. PairsAreOrdered' /\ TradesKeepTheDate'
    BY <1>2, <1>4, OrderStays DEF Inv, TypeOK
<1>6. HandedIsTraded' /\ PairsAreOwn'
    BY <1>1, <1>2, <1>3 DEF HandedIsTraded, PairsAreOwn, Minted, Handed
<1>7. StoredPairs' = StoredPairs
    BY <1>2 DEF StoredPairs, Inv, TypeOK
<1> QED
    BY <1>2, <1>5, <1>6, <1>7 DEF HeirLeft, Heirs, OwnAccess, Minted, Live, Handed

\* Time makes no heir die that was to be left.
LEMMA TickKeepsTrades == ASSUME Inv, TradeInv, Tick PROVE TradeInv'
<1> USE DEF TradeInv
<1>1. clock' \in Nat /\ clock <= clock' /\ UNCHANGED <<rows, pc, tok, old, origin, answered>>
    BY DEF Tick, Inv, TypeOK
<1>2. Pairs' \subseteq Pairs /\ StoredPairs' = StoredPairs
    BY <1>1 DEF Pairs, StoredPairs
<1>3. PairsAreOrdered' /\ TradesKeepTheDate'
    BY <1>1, <1>2, OrderStays
<1>4. HandedIsTraded' /\ PairsAreOwn'
    BY <1>1 DEF HandedIsTraded, PairsAreOwn, Minted, Handed
<1>5. ASSUME NEW t \in StoredPairs PROVE HeirLeft(t)'
  <2>1. t \in Pairs /\ HeirLeft(t)
      BY HeldPairs
  <2>2. /\ \A q \in Minted : q \in Minted' /\ origin'[q] = origin[q]
        /\ Handed \subseteq Handed'
      BY <1>1 DEF Minted, Handed
  <2>3. \A row \in rows : Live(rows', row.refresh)
      BY <1>1 DEF Live
  <2> QED
      BY <1>1, <2>1, <2>2, <2>3, HeirStays
<1> QED
    BY <1>2, <1>3, <1>4, <1>5

-------------------------------------------------------------------------------
(* Minting. *)

\* A pair that Login or Mint generates is of this moment, and its parent, if it has
\* one, was handed out.
LEMMA MintingKeepsTrades ==
    ASSUME Inv, TradeInv, NEW p \in Procs, NEW r \in Fresh, NEW t \in Token, NEW o \in Origin,
           t.refresh = r, t.acreate = clock,
           o.user = t.user, o.since = t.rcreate, o.access = t.access,
           o.parent = IF old[p] = None THEN None ELSE old[p].refresh,
           old[p] # None => o.since = origin[old[p].refresh].since,
           pc[p] \in {"idle", "mint"},
           tok' = [tok EXCEPT ![p] = t],
           origin' = [origin EXCEPT ![r] = o],
           pc' = [pc EXCEPT ![p] = "purge"],
           UNCHANGED <<clock, rows, old, answered>>
    PROVE  TradeInv'
<1> USE DEF TradeInv
<1>1. /\ r \in Refreshes /\ r \notin Minted /\ t # None /\ o # None /\ clock \in Nat
      /\ tok'[p] = t /\ \A q \in Procs \ {p} : tok'[q] = tok[q]
      /\ origin'[r] = o /\ \A q \in Refreshes \ {r} : origin'[q] = origin[q]
      /\ Minted' = Minted \cup {r}
      /\ Minted \subseteq Refreshes
    BY NoneIsNoValue, NoneIsNoOrigin DEF Fresh, Minted, Inv, TypeOK
<1>2. \A q \in Minted : q # r /\ q \in Minted' /\ origin'[q] = origin[q]
    BY <1>1
<1>3. /\ Pairs' \subseteq Pairs \cup {t}
      /\ Handed' = Handed
      /\ \A u \in Pairs : /\ u.refresh \in Minted /\ u.acreate \in Nat
                          /\ u.acreate <= clock
  <2>1. Pairs' \subseteq Pairs \cup {t}
      BY <1>1 DEF Pairs
  <2>2. \A u \in Pairs : u.refresh \in Minted /\ u.acreate \in Nat
      BY PairFacts
  <2> QED
      BY <2>1, <2>2 DEF Handed, PairsAreOrdered
<1>4. Handed \subseteq Minted
  <2>1. answered \subseteq Pairs
      BY DEF Pairs
  <2> QED
      BY <1>3, <2>1 DEF Handed
<1>5. /\ \A q \in Minted : origin[q].parent # r
      /\ o.parent # r
      /\ o.parent # None => /\ o.parent \in Handed /\ o.parent \in Minted
                            /\ o.since = origin[o.parent].since
  <2>1. \A q \in Minted : origin[q].parent # r
      BY <1>1, NoneIsNoValue DEF Inv, TradesAreMinted
  <2>2. old[p] # None => old[p].refresh \in Handed
      BY DEF HandedIsTraded
  <2> QED
      BY <1>1, <1>4, <2>1, <2>2, NoneIsNoValue
<1>6. PairsAreOrdered'
  <2>1. ASSUME NEW u \in Pairs' PROVE Known(u)' /\ u.acreate <= clock'
    <3>1. CASE u = t
        BY <1>1, <3>1 DEF Known
    <3>2. CASE u \in Pairs
      <4>1. Known(u)
          BY <3>2 DEF PairsAreOrdered
      <4> QED
          BY <1>2, <1>3, <3>2, <4>1 DEF Known
    <3> QED
        BY <1>3, <3>1, <3>2
  <2>2. ASSUME NEW u \in Pairs', NEW w \in Pairs'
        PROVE  /\ u.refresh = w.refresh => u = w
               /\ origin'[w.refresh].parent = u.refresh => u.acreate <= w.acreate
    <3>1. CASE w = t
        BY <1>1, <1>2, <1>3, <3>1
    <3>2. CASE w \in Pairs /\ u = t
        BY <1>1, <1>2, <1>3, <1>5, <3>2
    <3>3. CASE w \in Pairs /\ u \in Pairs
        BY <1>2, <1>3, <3>3 DEF PairsAreOrdered
    <3> QED
        BY <1>3, <3>1, <3>2, <3>3
  <2> QED
      BY <2>1, <2>2 DEF PairsAreOrdered
<1>7. TradesKeepTheDate'
  <2>1. ASSUME NEW q \in Minted, origin[q].parent # None
        PROVE  /\ origin'[q].parent = origin[q].parent
               /\ origin'[q].since = origin'[origin[q].parent].since
    <3>1. origin[q].parent \in Minted
        BY <2>1 DEF Inv, TradesAreMinted
    <3> QED
        BY <1>2, <2>1, <3>1 DEF TradesKeepTheDate
  <2>2. o.parent # None => o.since = origin'[o.parent].since
      BY <1>2, <1>5
  <2> QED
      BY <1>1, <1>2, <2>1, <2>2 DEF TradesKeepTheDate
<1>8. HandedIsTraded'
    BY <1>1, <1>2, <1>3, <1>5 DEF HandedIsTraded
<1>9. PairsAreOwn'
  <2>1. \A q \in Procs : tok[q] # None => tok[q].refresh \in Minted
      BY <1>3, HeldPairs
  <2>2. r \notin Handed'
      BY <1>1, <1>3, <1>4
  <2>3. \A q \in Procs \ {p} : tok'[q] # None =>
           /\ tok'[q].refresh \notin Handed' /\ tok'[q].refresh # r
           /\ \A x \in Procs \ {p, q} : tok'[x] # None => tok'[x].refresh # tok'[q].refresh
      BY <1>1, <1>3, <2>1 DEF PairsAreOwn
  <2> QED
      BY <1>1, <2>2, <2>3 DEF PairsAreOwn
<1>10. StoredPairs' \subseteq StoredPairs
    BY <1>1 DEF StoredPairs, Inv, TypeOK
<1>11. ASSUME NEW u \in StoredPairs PROVE HeirLeft(u)'
  <2>1. u \in Pairs /\ HeirLeft(u)
      BY HeldPairs
  <2>2. \A row \in rows : Live(rows', row.refresh)
      BY DEF Live
  <2> QED
      BY <1>1, <1>2, <1>3, <2>1, <2>2, HeirStays
<1> QED
    BY <1>6, <1>7, <1>8, <1>9, <1>10, <1>11

\* A sign-in has no parent, a trade the pair it has loaded.
LEMMA LoginKeepsTrades ==
    ASSUME Inv, TradeInv, NEW p \in Procs, NEW u \in Users, Login(p, u)
    PROVE  TradeInv'
<1>1. PICK r \in Fresh :
        /\ tok' = [tok EXCEPT ![p] = [user |-> u, access |-> JWT(u, clock), refresh |-> r,
                                      acreate |-> clock, rcreate |-> clock]]
        /\ origin' = [origin EXCEPT ![r] = [user |-> u, since |-> clock,
                                            parent |-> None, access |-> JWT(u, clock)]]
    BY DEF Login
<1>2. /\ pc[p] = "idle" /\ pc' = [pc EXCEPT ![p] = "purge"]
      /\ UNCHANGED <<clock, rows, old, answered>>
    BY DEF Login
<1>3. old[p] = None /\ clock \in Nat /\ r \in Refreshes
    BY <1>2 DEF Inv, RequestsHoldPairs, TypeOK, Fresh
<1>4. JWT(u, clock) \in Access
    BY <1>3, JWTType
<1> DEFINE t == [user |-> u, access |-> JWT(u, clock), refresh |-> r,
                 acreate |-> clock, rcreate |-> clock]
           o == [user |-> u, since |-> clock, parent |-> None, access |-> JWT(u, clock)]
<1>5. tok' = [tok EXCEPT ![p] = t] /\ origin' = [origin EXCEPT ![r] = o]
    BY <1>1
<1>6. t \in Token /\ o \in Origin
    BY <1>3, <1>4 DEF Token, Origin
<1>7. /\ t.refresh = r /\ t.acreate = clock
      /\ o.user = t.user /\ o.since = t.rcreate /\ o.access = t.access
      /\ o.parent = None
    OBVIOUS
<1> HIDE DEF t, o
<1> QED
    BY <1>2, <1>3, <1>5, <1>6, <1>7, MintingKeepsTrades

\* A refresh mints the next pair, an heir of the one it loaded.
LEMMA MintKeepsTrades ==
    ASSUME Inv, TradeInv, NEW p \in Procs, Mint(p)
    PROVE  TradeInv'
<1> DEFINE was == origin[old[p].refresh]
           access == JWT(old[p].user, clock)
<1>1. PICK r \in Fresh :
        /\ tok' = [tok EXCEPT ![p] = [user |-> old[p].user, access |-> access, refresh |-> r,
                                      acreate |-> clock, rcreate |-> old[p].rcreate]]
        /\ origin' = [origin EXCEPT ![r] = [user |-> was.user, since |-> was.since,
                                            parent |-> old[p].refresh, access |-> access]]
    BY DEF Mint
<1>2. /\ pc[p] = "mint" /\ pc' = [pc EXCEPT ![p] = "purge"]
      /\ UNCHANGED <<clock, rows, old, answered>>
    BY DEF Mint
<1>3. /\ old[p] # None /\ old[p] \in Token /\ Known(old[p])
      /\ old[p].user \in Users /\ old[p].refresh \in Refreshes /\ old[p].rcreate \in Nat
      /\ was \in Origin
    BY <1>2 DEF Inv, TypeOK, RequestsHoldPairs, Known, Token
<1>4. access \in Access
    BY <1>3, JWTType DEF Inv, TypeOK
<1> DEFINE t == [user |-> old[p].user, access |-> access, refresh |-> r,
                 acreate |-> clock, rcreate |-> old[p].rcreate]
           o == [user |-> was.user, since |-> was.since,
                 parent |-> old[p].refresh, access |-> access]
<1>5. tok' = [tok EXCEPT ![p] = t] /\ origin' = [origin EXCEPT ![r] = o]
    BY <1>1
<1>6. t \in Token /\ o \in Origin
  <2> HIDE DEF access, was
  <2>1. clock \in Nat /\ r \in Refreshes
      BY DEF Inv, TypeOK, Fresh
  <2>2. was.user \in Users /\ was.since \in Nat
      BY <1>3 DEF Origin
  <2> QED
      BY <1>3, <1>4, <2>1, <2>2 DEF Token, Origin
<1>7. /\ t.refresh = r /\ t.acreate = clock
      /\ o.user = t.user /\ o.since = t.rcreate /\ o.access = t.access
      /\ o.parent = old[p].refresh
      /\ o.since = origin[old[p].refresh].since
    BY <1>3 DEF Known
<1> HIDE DEF t, o
<1> QED
    BY <1>2, <1>3, <1>5, <1>6, <1>7, MintingKeepsTrades

-------------------------------------------------------------------------------
(* The theorem. *)

\* Every step keeps what is known of trades.
LEMMA NextKeepsTrades == ASSUME Inv, TradeInv, [Next]_vars PROVE TradeInv'
<1>1. ASSUME UNCHANGED vars PROVE TradeInv'
    BY <1>1 DEF vars, TradeInv, PairsAreOrdered, TradesKeepTheDate, HandedIsTraded,
                PairsAreOwn, HeirLeft, Heirs, OwnAccess, Pairs, StoredPairs, Known,
                Minted, Handed, Live
<1>2. ASSUME NEW p \in Procs, Request(p) PROVE TradeInv'
  <2>1. ASSUME NEW u \in Users, Login(p, u) PROVE TradeInv'
      BY <2>1, LoginKeepsTrades
  <2>2. ASSUME NEW r \in Handed \cup {None}, Load(p, r) PROVE TradeInv'
    <3>1. CASE LoadMiss(p, r)
        BY <1>1, <3>1 DEF LoadMiss
    <3>2. CASE LoadExpired(p, r)
        BY <3>2, LoadExpiredKeepsTrades
    <3>3. CASE LoadHit(p, r)
      <4>1. r # None
          BY <3>3, NoneIsNoValue DEF LoadHit, Inv, TypeOK, Row, Token
      <4> QED
          BY <2>2, <3>3, <4>1, LoadHitKeepsTrades
    <3> QED
        BY <2>2, <3>1, <3>2, <3>3 DEF Load
  <2>3. CASE Mint(p)
      BY <2>3, MintKeepsTrades
  <2>4. CASE Purge(p)
      BY <2>4, PurgeKeepsTrades
  <2>5. CASE Upsert(p)
      BY <2>5, UpsertKeepsTrades
  <2>6. CASE DropAccess(p)
      BY <2>6, DetachingKeepsTrades DEF DropAccess, GoesOn
  <2>7. CASE DropRefresh(p)
      BY <2>7, DropRefreshKeepsTrades
  <2>8. CASE Answer(p)
      BY <2>8, EndKeepsTrades DEF Answer
  <2>9. CASE Abandon(p)
      BY <2>9, EndKeepsTrades DEF Abandon
  <2> QED
      BY <1>2, <2>1, <2>2, <2>3, <2>4, <2>5, <2>6, <2>7, <2>8, <2>9 DEF Request
<1>3. ASSUME NEW row \in rows, ProbeAccess(row.access) PROVE TradeInv'
    BY <1>3, DetachingKeepsTrades DEF ProbeAccess
<1>4. CASE Tick
    BY <1>4, TickKeepsTrades
<1> QED
    BY <1>1, <1>2, <1>3, <1>4 DEF Next

\* A trade that is cut off anywhere, an answer that is lost and any other requests
\* beside it never leave a session without a token that works or that was handed
\* out, within the lifetimes of the pair and if no JWT was issued twice.
THEOREM TradesLeaveHeirs == Spec => []TradeLeavesHeir
<1>1. Init => TradeInv
    BY DEF Init, TradeInv, PairsAreOrdered, TradesKeepTheDate, HandedIsTraded,
           PairsAreOwn, Pairs, StoredPairs, Minted
<1>2. Inv /\ TradeInv /\ [Next]_vars => TradeInv'
    BY NextKeepsTrades
<1>3. TradeInv => TradeLeavesHeir
    BY DEF TradeInv, TradeLeavesHeir, HeirLeft, Heirs, StoredPairs
<1> QED
    BY <1>1, <1>2, <1>3, Invariance, PTL DEF Spec

===============================================================================
