------------------------------ MODULE Directory ------------------------------
(***************************************************************************)
(* What the users of the provider promise: a directory of accounts in which *)
(* every operation is one step.  An account is opened with logins that      *)
(* nobody has, keeps them until it is closed, and is altered in one         *)
(* attribute at a time.                                                     *)
(***************************************************************************)
EXTENDS Naturals

CONSTANTS Ids, None

VARIABLE accounts

LoginsOf(account) == {account.username, account.email, account.phone} \ {None}

Open == {i \in Ids : accounts[i] # None}

Distinct ==
    \A i, j \in Open : i # j => LoginsOf(accounts[i]) \cap LoginsOf(accounts[j]) = {}

\* The directory begins empty, or with accounts opened earlier.
Init == Distinct

\* accounts'[i] is the account that is opened.
OpenAccount(i) ==
    /\ accounts[i] = None /\ accounts'[i] # None
    /\ \A j \in Open : LoginsOf(accounts[j]) \cap LoginsOf(accounts'[i]) = {}
    /\ accounts' = [accounts EXCEPT ![i] = accounts'[i]]

CloseAccount(i) == accounts' = [accounts EXCEPT ![i] = None]

\* One of the password, the nickname or the role is set, or the phone number is
\* verified, which is never taken back.
Alter(i) ==
    /\ i \in Open /\ accounts'[i] # None
    /\ \E attribute \in {"hash", "nickname", "role", "verified"} :
         /\ accounts' = [accounts EXCEPT ![i][attribute] = accounts'[i][attribute]]
         /\ attribute = "verified" => accounts'[i].verified

Next == \E i \in Ids : OpenAccount(i) \/ CloseAccount(i) \/ Alter(i)

Spec == Init /\ [][Next]_accounts
===============================================================================
