------------------------------ MODULE Accounts ------------------------------
(* What the user database promises: a map from names to roles and passwords, *)
(* and for every process the account it acts for, with the role that account *)
(* had when its password was given; and what it does not promise while its   *)
(* text is cut or loose.                                                     *)
EXTENDS Naturals

CONSTANTS Names, Root, Passwords, Procs, Nobody

VARIABLES
    accounts,  \* [name -> [role, pw]]
    who,       \* who[p]: [name, role] or Nobody
    guarded,   \* a login is required
    shape      \* "whole"; "cut": the text lacks its end; "loose": a failed change left it
               \* on clusters that are free

(* w is who is logged in, a and b the map before and after a change. *)
LoggedIn(w, p) == ~guarded \/ w[p] # Nobody
Admin(w, p) == ~guarded \/ (w[p] # Nobody /\ w[p].role = "admin")
ActsAs(w, p, n) == IF guarded THEN w[p] # Nobody /\ w[p].name = n ELSE n = Root

Init == /\ DOMAIN accounts \subseteq Names
        /\ \A n \in DOMAIN accounts : accounts[n].role \in {"admin", "user"} /\ accounts[n].pw \in Passwords
        /\ who = [p \in Procs |-> Nobody] /\ guarded \in BOOLEAN
        /\ shape \in {"whole", "cut"}

Create(a, b) ==
    \E n \in Names \ DOMAIN a :
        /\ DOMAIN b = DOMAIN a \cup {n}
        /\ \A m \in DOMAIN a : b[m] = a[m]

SetRole(a, b) == \E n \in DOMAIN a \ {Root}, role \in {"admin", "user"} : b = [a EXCEPT ![n].role = role]

RemoveAccount(a, b) == \E n \in DOMAIN a \ {Root} : b = [m \in DOMAIN a \ {n} |-> a[m]]

SetPassword(a, b, w, p) ==
    \E n \in DOMAIN a, old \in Passwords, new \in Passwords :
        /\ (~Admin(w, p) \/ ActsAs(w, p, n)) => a[n].pw = old
        /\ b = [a EXCEPT ![n].pw = new]

Manage(a, b, w) == \E p \in Procs :
    \/ Admin(w, p) /\ (Create(a, b) \/ SetRole(a, b) \/ RemoveAccount(a, b))
    \/ LoggedIn(w, p) /\ SetPassword(a, b, w, p)

(* What is left of a when some accounts are lost. *)
Fewer(a, b) == DOMAIN b \subseteq DOMAIN a /\ \A n \in DOMAIN b : b[n] = a[n]

(* A change that fails halfway is made in part or not at all, and may cost   *)
(* any account: b is what is left of a with a permitted change.              *)
HalfDone(a, b, w) ==
    LET c == [n \in DOMAIN a |-> IF n \in DOMAIN b THEN b[n] ELSE a[n]] IN
    /\ DOMAIN b \subseteq DOMAIN a
    /\ (c = a /\ \E p \in Procs : LoggedIn(w, p)) \/ Manage(a, c, w)

(* A change of the accounts and their text.  A whole text stays so unless a  *)
(* permitted change fails; an account added to a cut one is lost with the    *)
(* last account; from a loose one they are lost at any time.                 *)
Change(a, b, w) ==
    \/ Manage(a, b, w) /\ shape' \in {shape, "whole"}
    \/ HalfDone(a, b, w) /\ shape' = "loose"
    \/ /\ shape = "cut" /\ shape' = "whole"
       /\ Fewer(a, b) /\ \A m, n \in DOMAIN a \ DOMAIN b : m = n
       /\ \E p \in Procs : Admin(w, p)
    \/ shape = "loose" /\ Fewer(a, b) /\ shape' \in {"loose", "cut"}

(* From w to x: a process logs in with the password of an account, ... *)
Login(a, w, x, p) ==
    \E n \in Names, pw \in Passwords :
        /\ guarded => n \in DOMAIN a /\ a[n].pw = pw
        /\ x = [w EXCEPT ![p] = IF guarded THEN [name |-> n, role |-> a[n].role]
                                ELSE [name |-> Root, role |-> "admin"]]

(* ... or ends, logs out, or is started by another one or by the kernel. *)
Becomes(w, x, p) == \E v \in {w[q] : q \in Procs} \cup {Nobody} : x = [w EXCEPT ![p] = v]

Restart(x) == x = [p \in Procs |-> Nobody] /\ guarded' \in BOOLEAN

Next == \E a \in {accounts}, b \in {accounts'}, w \in {who}, x \in {who'} :
    \/ x = w /\ guarded' = guarded /\ Change(a, b, w)
    \/ /\ b = a /\ shape' = shape
       /\ Restart(x) \/ (guarded' = guarded /\ \E p \in Procs : Becomes(w, x, p) \/ Login(a, w, x, p))

Spec == Init /\ [][Next]_<<accounts, who, guarded, shape>>
=============================================================================
