------------------------------- MODULE SmsCodes -------------------------------
(***************************************************************************)
(* SMS verification codes (internal/api/sms.go and the first half of the    *)
(* sms_code grant in oauth.go): POST /oauth/sms/send stores a code and sends*)
(* it, the grant looks a presented code up, marks a record used and goes on.*)
(*                                                                          *)
(* Records and the rate limit live in one shared table; a request is a row  *)
(* of single statements on it, and requests of all instances interleave:    *)
(*                                                                          *)
(*   send     Check -> Store -> Send                                        *)
(*   login    Find -> Pick -> Save (the account part follows)               *)
(*                                                                          *)
(* The two times of a record are RFC 3339 texts, cut to whole seconds, while*)
(* they are compared with a clock that is not.                              *)
(***************************************************************************)
EXTENDS Collections, FiniteSets

LOCAL INSTANCE Functions

CONSTANTS
    Phones,
    Codes,          \* the codes that generateCode may return
    Procs,          \* request slots
    RateLimit,      \* sendSMSRateLimit, in ticks
    TTL,            \* codeTTL, in ticks
    SecondTicks,    \* ticks in a second
    CodesRepeat,    \* may a generated code equal a stored one?  Always so with
                    \* SMS_TEST_CODE, once in a million otherwise
    Faults,         \* the statements that may fail: among "list", "store", "save"
    MaxClock,       \* bound of the model: the last tick that is explored
    MaxLogins       \* bound of the model: logins that find a record

ASSUME Parameters ==
    /\ None \notin Phones \cup Codes
    /\ RateLimit \in Nat /\ TTL \in Nat /\ MaxClock \in Nat
    /\ SecondTicks \in Nat \ {0}
    /\ MaxLogins \in Nat
    /\ CodesRepeat \in BOOLEAN

VARIABLES
    clock,
    codes,      \* the verification_codes table: a record or None for every ID
    pc,         \* the next statement of each request
    phone,      \* the phone number of the request
    code,       \* the code the request presents or has generated
    checked,    \* when a request to send was let through
    target,     \* the record that markCodeUsed is about to save, as it was read
    \* what an observer knows and the program does not keep:
    overlapped, \* logins that another one with their phone and code ran beside
    sentAt,     \* when each record was really dated
    finds,      \* how many logins with a phone and a code got past findValidCode
    accepts,    \* and how many of them went on to the account
    slips,      \* those of the accepted ones, by their number, that were overlapped
                \* or whose mark failed
    covered     \* records that were valid when a login with their code found one

request == <<pc, phone, code, checked, target, overlapped>>
observed == <<sentAt, finds, accepts, slips, covered>>
vars == <<clock, codes, request, observed>>

Record == [phone : Phones, code : Codes, expires : Nat, created : Nat, used : BOOLEAN]

\* what a request has read of the table
Reading == [id : Ids, row : Record]

ASSUME NoneIsNoRecord == None \notin Record

\* time.Format(RFC3339): the fraction of the second is dropped.
CutToSecond(t) == (t \div SecondTicks) * SecondTicks

To(ph) == {i \in Rows(codes) : codes[i].phone = ph}

\* Mutant of Unused: the code is not compared.
UnusedAnyCode(ph, c) == {i \in To(ph) : ~codes[i].used}

\* Mutant of Unused: the mark is not looked at.
UnusedOrUsed(ph, c) == {i \in To(ph) : codes[i].code = c}

\* the records that a login with this phone number and code may mark
Unused(ph, c) == {i \in To(ph) : codes[i].code = c /\ ~codes[i].used}

\* Mutant of Valid: the date of expiry is not looked at.
ValidForEver(ph, c) == Unused(ph, c)

\* the records that it may be admitted by: not past their cut expiry
Valid(ph, c) == {i \in Unused(ph, c) : clock <= codes[i].expires}

\* Mutant of RateLimited: the list is read from its other end.
RateLimitedByOldest(ph) ==
    \E i \in To(ph) : IsFirst(codes, i, To(ph)) /\ clock - codes[i].created < RateLimit

\* The limit goes by the newest record of the number, whether its message could
\* be sent or not.
RateLimited(ph) ==
    \E i \in To(ph) : IsLast(codes, i, To(ph)) /\ clock - codes[i].created < RateLimit

Init ==
    /\ clock = 0
    /\ codes = [i \in Ids |-> None]
    /\ pc = [p \in Procs |-> "idle"]
    /\ phone = [p \in Procs |-> None]
    /\ code = [p \in Procs |-> None]
    /\ checked = [p \in Procs |-> 0]
    /\ target = [p \in Procs |-> None]
    /\ overlapped = {}
    /\ sentAt = [i \in Ids |-> 0]
    /\ finds = [login \in Phones \X Codes |-> 0]
    /\ accepts = [login \in Phones \X Codes |-> 0]
    /\ slips = {}
    /\ covered = {}

\* The request concerns a phone number and a code.
Begin(p, ph, c, next) ==
    /\ pc[p] = "idle"
    /\ phone' = [phone EXCEPT ![p] = ph]
    /\ code' = [code EXCEPT ![p] = c]
    /\ pc' = [pc EXCEPT ![p] = next]

EndRequest(p) ==
    /\ pc' = [pc EXCEPT ![p] = "idle"]
    /\ phone' = [phone EXCEPT ![p] = None]
    /\ code' = [code EXCEPT ![p] = None]
    /\ checked' = [checked EXCEPT ![p] = 0]
    /\ target' = [target EXCEPT ![p] = None]
    /\ overlapped' = overlapped \ {p}

-------------------------------------------------------------------------------
(* POST /oauth/sms/send *)

Generated(c) ==
    \/ CodesRepeat
    \/ /\ \A i \in Rows(codes) : codes[i].code # c
       /\ \A q \in Procs : pc[q] = "store" => code[q] # c

\* When the table cannot be listed, the rate limit is not applied.
Check(p, ph) ==
    /\ ~RateLimited(ph) \/ "list" \in Faults
    /\ \E c \in Codes : Generated(c) /\ Begin(p, ph, c, "store")
    /\ checked' = [checked EXCEPT ![p] = clock]
    /\ UNCHANGED <<clock, codes, target, overlapped, observed>>

\* 429
CheckRefused(p, ph) ==
    /\ pc[p] = "idle"
    /\ RateLimited(ph)
    /\ UNCHANGED vars

\* What time.Now() may have given the request since it was let through.
Now(p) == checked[p] .. clock

\* Its date and its expiry are two readings of the clock in one expression; they
\* are one here.
NewRecord(p, t) ==
    [phone |-> phone[p], code |-> code[p], expires |-> CutToSecond(t + TTL),
     created |-> CutToSecond(t), used |-> FALSE]

Store(p) ==
    /\ pc[p] = "store"
    /\ \E i \in Ids \ Rows(codes), t \in Now(p) :
         /\ codes' = Created(codes, i, NewRecord(p, t))
         /\ sentAt' = [sentAt EXCEPT ![i] = t]
    /\ pc' = [pc EXCEPT ![p] = "send"]
    /\ UNCHANGED <<clock, phone, code, checked, target, overlapped,
                   finds, accepts, slips, covered>>

\* 500, nothing stored.
StoreFails(p) ==
    /\ pc[p] = "store"
    /\ "store" \in Faults
    /\ EndRequest(p)
    /\ UNCHANGED <<clock, codes, observed>>

\* 200, or 500 when the SMS service cannot be reached or answers anything but
\* OK: in either case the record stays.
Send(p) ==
    /\ pc[p] = "send"
    /\ EndRequest(p)
    /\ UNCHANGED <<clock, codes, observed>>

-------------------------------------------------------------------------------
(* POST /oauth/token with grant_type=sms_code, up to the account. *)

\* the logins under way that have found a record and not yet saved its mark
Logging(ph, c) ==
    {p \in Procs : pc[p] \in {"pick", "save"} /\ phone[p] = ph /\ code[p] = c}

\* findValidCode returns the newest valid record; the grant only asks whether
\* there is one.
Find(p, ph, c) ==
    /\ Valid(ph, c) # {}
    /\ Begin(p, ph, c, "pick")
    /\ overlapped' = IF Logging(ph, c) = {} THEN overlapped
                      ELSE overlapped \cup Logging(ph, c) \cup {p}
    /\ finds' = [finds EXCEPT ![<<ph, c>>] = @ + 1]
    /\ covered' = covered \cup Valid(ph, c)
    /\ UNCHANGED <<clock, codes, checked, target, sentAt, accepts, slips>>

\* 401: nothing valid, or the table cannot be listed.
FindNothing(p, ph, c) ==
    /\ pc[p] = "idle"
    /\ Valid(ph, c) = {} \/ "list" \in Faults
    /\ UNCHANGED vars

\* The login goes on with the account, also when its mark failed.
Accept(p, failed) ==
    /\ accepts' = [accepts EXCEPT ![<<phone[p], code[p]>>] = @ + 1]
    /\ slips' = IF failed \/ p \in overlapped
                THEN slips \cup {<<phone[p], code[p], accepts'[<<phone[p], code[p]>>]>>}
                ELSE slips
    /\ EndRequest(p)
    /\ UNCHANGED <<clock, sentAt, finds, covered>>

\* markCodeUsed lists again and takes the oldest unused record, expired or not.
Pick(p) ==
    /\ pc[p] = "pick"
    /\ \E i \in Ids :
         /\ IsFirst(codes, i, Unused(phone[p], code[p]))
         /\ target' = [target EXCEPT ![p] = [id |-> i, row |-> codes[i]]]
    /\ pc' = [pc EXCEPT ![p] = "save"]
    /\ UNCHANGED <<clock, codes, phone, code, checked, overlapped, observed>>

\* Nothing left to mark, or no list: the login goes on all the same.
PickNothing(p) ==
    /\ pc[p] = "pick"
    /\ \/ Unused(phone[p], code[p]) = {} /\ Accept(p, FALSE)
       \/ "list" \in Faults /\ Accept(p, TRUE)
    /\ UNCHANGED codes

Marked(record) == [record EXCEPT !.used = TRUE]

\* The whole record is written back as it was read, but used.  The result of the
\* save is ignored.
Save(p) ==
    /\ pc[p] = "save"
    /\ \/ codes' = Saved(codes, target[p].id, Marked(target[p].row)) /\ Accept(p, FALSE)
       \/ "save" \in Faults /\ codes' = codes /\ Accept(p, TRUE)

\* The instance is stopped in the middle of a request.
Abandon(p) ==
    /\ pc[p] # "idle"
    /\ EndRequest(p)
    /\ UNCHANGED <<clock, codes, observed>>

Tick ==
    /\ clock < MaxClock
    /\ clock' = clock + 1
    /\ UNCHANGED <<codes, request, observed>>

\* Bound of the model.
FewLogins == FoldFunction(LAMBDA m, n : m + n, 0, finds) < MaxLogins

Request(p) ==
    \/ \E ph \in Phones : Check(p, ph) \/ CheckRefused(p, ph)
    \/ Store(p) \/ StoreFails(p) \/ Send(p)
    \/ \E ph \in Phones, c \in Codes : (FewLogins /\ Find(p, ph, c)) \/ FindNothing(p, ph, c)
    \/ Pick(p) \/ PickNothing(p) \/ Save(p)
    \/ Abandon(p)

Next == (\E p \in Procs : Request(p)) \/ Tick

Spec == Init /\ [][Next]_vars

-------------------------------------------------------------------------------
(* Properties. *)

\* Every variable has its type.
TypeOK ==
    /\ clock \in Nat
    /\ codes \in [Ids -> Record \cup {None}]
    /\ pc \in [Procs -> {"idle", "store", "send", "pick", "save"}]
    /\ phone \in [Procs -> Phones \cup {None}]
    /\ code \in [Procs -> Codes \cup {None}]
    /\ checked \in [Procs -> Nat]
    /\ target \in [Procs -> Reading \cup {None}]
    /\ overlapped \in SUBSET Procs
    /\ sentAt \in [Ids -> Nat]
    /\ finds \in [Phones \X Codes -> Nat]
    /\ accepts \in [Phones \X Codes -> Nat]
    /\ slips \in SUBSET (Phones \X Codes \X Nat)
    /\ covered \in SUBSET Ids

WithCode(ph, c) == {i \in To(ph) : codes[i].code = c}
UsedUp(ph, c) == {i \in WithCode(ph, c) : codes[i].used}

\* In spite of the times being cut to seconds, a code is good for all of its
\* lifetime but less than a second, and never for longer, counted from the
\* moment it was really dated.
CodeLivesItsTTL ==
    \A i \in Rows(codes) : ~codes[i].used =>
        LET valid == i \in Valid(codes[i].phone, codes[i].code)
        IN /\ clock + SecondTicks <= sentAt[i] + TTL => valid
           /\ valid => clock <= sentAt[i] + TTL

\* The rate limit reads cut dates of a list that is sorted by them, while
\* requests that date a record overtake each other: nevertheless a number is
\* refused for all of the limit but less than a second after its latest record,
\* and never for longer, also when the message of that record failed.
LimitLastsItsTime ==
    \A ph \in Phones :
        /\ \A i \in To(ph) : clock + SecondTicks <= sentAt[i] + RateLimit => RateLimited(ph)
        /\ RateLimited(ph) => \E i \in To(ph) : clock < sentAt[i] + RateLimit

\* A record is only ever used up by a login that presented its phone and code,
\* one record for each, however logins and failures interleave.
UsedByItsLogin ==
    \A ph \in Phones, c \in Codes :
        Cardinality(UsedUp(ph, c)) <= finds[<<ph, c>>]

\* A message signs in once, unless its mark failed, which the grant ignores, or two
\* logins with the same number and code ran at once: every other login that was
\* accepted has used up a record of its own, although it marks what is the oldest
\* by then, expired or not, and not what let it in.
LoginsUseUpMessages ==
    \A ph \in Phones, c \in Codes :
        accepts[<<ph, c>>] <= Cardinality(UsedUp(ph, c))
                            + Cardinality({s \in slips : s[1] = ph /\ s[2] = c})

\* What auth.md says of codes, that each can be used once: a code is accepted no
\* more often than there were messages with it that were still valid.
OneTimeUse ==
    \A ph \in Phones, c \in Codes :
        accepts[<<ph, c>>] <= Cardinality(covered \cap WithCode(ph, c))
===============================================================================
