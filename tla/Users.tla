------------------------------- MODULE Users --------------------------------
(* Users, permissions and the confirmation of dangerous system calls:        *)
(* kernel/runtime/user.c, rust/src/syscall/handlers/user.rs, the path policy *)
(* of rust/src/path.rs and rust/src/syscall/usc.rs.                          *)
(*                                                                           *)
(* The database and the rules are text files, here sequences of lines of     *)
(* which the last may lack its end; a name is a sequence of characters, a    *)
(* path a sequence of names.  System calls run with interrupts off, one at a *)
(* time; only the confirmation waits.                                        *)
EXTENDS Integers, Sequences, FiniteSets, SequencesExt

CONSTANTS
    Names,      \* account names
    Root,       \* "root"
    Passwords,  \* passwords; the empty one is not among them
    Procs,      \* process slots
    Apps,       \* program paths
    Scenarios,  \* how a behaviour starts and what its processes do: [boot, file: users.db,
                \* rules: the permanent rules, [lines, open], apps: programs that run,
                \* calls: subset of {"manage", "dangerous"}, names: the accounts they are about,
                \* fails: writes of the database may fail, grow: bound, lines of the database
                \* that a creation may follow]
    DbMax,      \* bytes of the buffer the database is read into
    AppsMax,    \* USC_MAX_ALLOWED_APPS
    MaxRules,   \* bound: lines of the rule file
    MaxKeys,    \* bound: keys waiting at the terminal
    Paths,      \* paths the policy is asked about
    Lower,      \* the capital letters in use, and the small letter of each
    NoFile, Nobody

ASSUME UsersAssumption == Root \in Names /\ DbMax \in Nat /\ AppsMax \in Nat \ {0}

VARIABLES
    doing,    \* the scenario of this behaviour
    boot,     \* "live", "disk" or "rescue"
    file,     \* users.db: [lines, open: the last line lacks its end,
              \* loose: a failed write left its clusters free]
    user,     \* user[p]: [used, app, name, role, home, uid, logged]
    rules,    \* file of permanent rules: [lines, open]
    session,  \* USC_SESSION_ALLOWED: programs in order
    perm,     \* USC_PERMANENT_ALLOWED
    loaded,   \* USC_PERMANENT_LOADED
    asking,   \* the process whose dangerous call waits for an answer, or Nobody
    keys,     \* keys waiting at its terminal
    given,    \* programs allowed for this session, by an answer
    told      \* programs an answer was said to allow for good

vars == <<doing, boot, file, user, rules, session, perm, loaded, asking, keys, given, told>>
uscVars == <<rules, session, perm, loaded, asking, keys, given, told>>

(* clks_user_disk_login_required *)
Required == boot = "disk"

----------------------------------------------------------------------------
(* The database. *)

(* SHA-256, as a function that takes no two texts to the same digest; the   *)
(* hash of a password is its digest in hexadecimal.                         *)
Sha256(text) == <<"sha256", text>>
Hash(pw) == Sha256(pw)

(* A hash of the name: two names may have the same one. *)
UidFor(name) == IF name = Root THEN 0 ELSE 1000 + Len(name)

(* A line, without its end: a record as it is written, an empty one, or one *)
(* that is no record and does not begin one: a comment.                     *)
Blank == [kind |-> "blank"]
Junk(size) == [kind |-> "junk", size |-> size]
Line(name, role, hash, home, uid) ==
    [kind |-> "record", name |-> name, role |-> role, hash |-> hash, home |-> home, uid |-> uid]
NoUid == -1
HomeFor(name) == <<<<"h">>, name>>

Size(line) ==
    CASE line.kind = "blank" -> 1 [] line.kind = "junk" -> line.size
      [] OTHER -> 3 + (IF line.role = "admin" THEN 1 ELSE 0) + (IF line.uid = NoUid THEN 0 ELSE 1)
SizeOf(lines) == FoldLeft(LAMBDA n, l : n + Size(l), 0, lines)

(* A line written after one that lacks its end continues it: the uid, or    *)
(* the home, of a record runs into the other's fields, and neither is read. *)
Glued(line, more) == IF line = Blank THEN more ELSE Junk(Size(line) + Size(more))
Extended(f, line) ==
    IF f.open /\ f.lines # <<>>
    THEN [f EXCEPT !.lines = Append(Front(f.lines), Glued(Last(f.lines), line)), !.open = FALSE]
    ELSE [f EXCEPT !.lines = Append(f.lines, line), !.open = FALSE]

(* clks_user_parse_record *)
Parsed(line) == [name |-> line.name, role |-> IF line.role \in {"admin", "root"} THEN "admin" ELSE "user",
                 hash |-> line.hash, home |-> line.home,
                 uid |-> IF line.uid = NoUid THEN UidFor(line.name) ELSE line.uid]
RecordLine(r) == Line(r.name, r.role, r.hash, r.home, r.uid)

(* clks_user_read_db and the loops over its lines: it must fit the buffer. *)
Readable == file # NoFile /\ SizeOf(file.lines) + 1 <= DbMax
RecordsIn(lines) == LET rs == SelectSeq(lines, LAMBDA l : l.kind = "record") IN
                    [i \in DOMAIN rs |-> Parsed(rs[i])]
Records == IF Readable THEN RecordsIn(file.lines) ELSE <<>>

(* clks_user_find: the first record of the name. *)
NoRecord == [name |-> Nobody]
FirstOf(rs, name) ==
    LET hit == {i \in DOMAIN rs : rs[i].name = name} IN
    IF hit = {} THEN NoRecord ELSE rs[CHOOSE i \in hit : \A j \in hit : i <= j]
Find(name) == FirstOf(Records, name)
Found(name) == Find(name) # NoRecord
Verified(name, pw) == LET r == Find(name) IN r # NoRecord /\ r.hash = Hash(pw)

Hits(name) == {i \in DOMAIN file.lines : file.lines[i].kind = "record" /\ file.lines[i].name = name}
WithEach(f(_)) == FlattenSeq([i \in DOMAIN file.lines |-> f(i)])

(* What clks_disk_write_all may leave of a text when it fails or is cut off: *)
(* its entry still names the old clusters, which it freed first, and they    *)
(* hold as much of either text as was, or was not yet, written over.         *)
Pieces(lines) == {[lines |-> SubSeq(lines, 1, k), open |-> TRUE, loose |-> TRUE] : k \in 0..Len(lines)}

(* clks_fs_write_all of the database: the memory file system makes its copy  *)
(* first and loses nothing, the disk may.                                    *)
Written(next) ==
    \/ file' = [lines |-> next, open |-> FALSE, loose |-> FALSE]
    \/ boot # "live" /\ doing.fails /\ file' \in Pieces(file.lines) \cup Pieces(next)


(* clks_user_db_rewrite_with: every record of the name becomes lines (none, *)
(* to remove it), empty lines go, the rest stays.  It writes nothing unless *)
(* a record matched and the result fits.                                    *)
Rewrite(name, lines) ==
    LET next == WithEach(LAMBDA i : IF i \in Hits(name) THEN lines
                                    ELSE IF file.lines[i] = Blank THEN <<>> ELSE <<file.lines[i]>>)
    IN Readable /\ Hits(name) # {} /\ SizeOf(next) + 1 < DbMax /\ Written(next)

----------------------------------------------------------------------------
(* The user a process acts for. *)

Default == [name |-> Nobody, role |-> "user", home |-> <<>>, uid |-> 65534, logged |-> FALSE]
RootUser == [name |-> Root, role |-> "admin", home |-> <<>>, uid |-> 0, logged |-> TRUE]

(* clks_user_current_info *)
Current(p) == IF ~Required THEN RootUser ELSE IF user[p].user.logged THEN user[p].user ELSE Default
IsAdmin(p) == ~Required \/ (Current(p).logged /\ Current(p).role = "admin")

(* A process may make a system call. *)
Runs(p) == user[p].used /\ asking = Nobody
SetUser(p, u) == user' = [user EXCEPT ![p].user = u]

LoginCall(p, name, pw) ==
    /\ Runs(p)
    /\ IF ~Required THEN SetUser(p, RootUser)
       ELSE /\ Verified(name, pw)
            /\ LET r == Find(name) IN
               SetUser(p, [name |-> r.name, role |-> r.role, home |-> r.home, uid |-> r.uid, logged |-> TRUE])
    /\ UNCHANGED <<doing, boot, file, uscVars>>

LogoutCall(p) ==
    /\ Runs(p)
    /\ SetUser(p, IF Required THEN Default ELSE RootUser)
    /\ UNCHANGED <<doing, boot, file, uscVars>>

Manages(p) == Runs(p) /\ "manage" \in doing.calls

(* clks_user_create.  The database is made if there is none; making it, the *)
(* home directory or the line may fail.                                     *)
AddCall(p, name, pw, role, ok) ==
    /\ Manages(p) /\ IsAdmin(p)
    /\ ~Found(name)
    /\ LET old == IF file = NoFile THEN [lines |-> <<>>, open |-> FALSE, loose |-> FALSE] ELSE file
           line == Line(name, role, Hash(pw), HomeFor(name), UidFor(name)) IN
       /\ Len(old.lines) < doing.grow
       /\ IF ok THEN file' = Extended(old, line) ELSE file' \in {file, old}
    /\ UNCHANGED <<doing, boot, user, uscVars>>

PasswdCall(p, name, old, new) ==
    /\ Manages(p) /\ Found(name) /\ Current(p).logged
    /\ (Current(p).role # "admin" \/ Current(p).name = name) => Verified(name, old)
    /\ Rewrite(name, <<RecordLine([Find(name) EXCEPT !.hash = Hash(new)])>>)
    /\ UNCHANGED <<doing, boot, user, uscVars>>

SetRoleCall(p, name, role) ==
    /\ Manages(p) /\ IsAdmin(p) /\ Found(name) /\ name # Root
    /\ Rewrite(name, <<RecordLine([Find(name) EXCEPT !.role = role])>>)
    /\ UNCHANGED <<doing, boot, user, uscVars>>

RemoveCall(p, name) ==
    /\ Manages(p) /\ IsAdmin(p) /\ name # Root
    /\ Rewrite(name, <<>>)
    /\ UNCHANGED <<doing, boot, user, uscVars>>

----------------------------------------------------------------------------
(* Path policy. *)

(* clks_rust_path_normalize_absolute: "." and empty components go, ".." is  *)
(* refused.                                                                 *)
Dot == <<".">>
DotDot == <<".", ".">>
Normal(path) == DotDot \notin ToSet(path)
Normalize(path) == SelectSeq(path, LAMBDA c : c \notin {<<>>, Dot})
Text(path) == IF path = <<>> THEN <<"/">> ELSE FlattenSeq([i \in DOMAIN path |-> <<"/">> \o path[i]])


AtOrUnder(path, prefix) ==
    LET t == Text(path)
        n == Len(Text(prefix)) IN
    /\ IsPrefix(Text(prefix), t)
    /\ Len(t) = n \/ t[n + 1] = "/"

(* The disk looks names up without regard to case. *)
Fold(name) == [i \in DOMAIN name |-> IF name[i] \in DOMAIN Lower THEN Lower[name[i]] ELSE name[i]]
FoldPath(path) == [i \in DOMAIN path |-> Fold(path[i])]

UserDb == <<<<"s">>, <<"d">>, <<"u">>>>
Temp == <<<<"t">>>>
Homes == <<<<"h">>>>

Exempt(p) == Current(p).role = "admin" \/ Current(p).uid = 0

ReadAllowed(p, raw) ==
    LET path == Normalize(raw)
        mine == AtOrUnder(path, Temp) \/ AtOrUnder(path, Current(p).home) IN
    /\ Normal(raw)
    /\ Required =>
          /\ Current(p).logged
          /\ \/ Exempt(p)
             \/ path # UserDb /\ (mine \/ path = Homes \/ ~AtOrUnder(path, Homes))

WriteAllowed(p, raw) ==
    LET path == Normalize(raw) IN
    /\ Normal(raw)
    /\ Required =>
          /\ Current(p).logged
          /\ Exempt(p) \/ AtOrUnder(path, Temp) \/ AtOrUnder(path, Current(p).home)

----------------------------------------------------------------------------
(* Confirmation of dangerous calls. *)

AddToTable(table, app) ==
    IF app \in ToSet(table) \/ Len(table) >= AppsMax THEN table ELSE Append(table, app)

(* A line of the rule file is what was written before its end: a program,   *)
(* a comment, or what an append made of a last line without an end.         *)
LoadedRules(lines) == FoldLeft(LAMBDA t, l : IF Head(l) = "#comment" THEN t ELSE AddToTable(t, l), <<>>, lines)
App(p) == user[p].app
Rules == IF loaded THEN perm ELSE LoadedRules(rules.lines)
Permitted(p) == <<App(p)>> \in ToSet(Rules)

(* What the calls do that the confirmation lets through: here, one starts a *)
(* process, which inherits the user, in a free slot if there is one.        *)
Started(p, c, app) ==
    user' = IF c = Nobody THEN user
            ELSE [user EXCEPT ![c] = [used |-> TRUE, app |-> app, user |-> user[p].user]]
Slot(c) == IF \E q \in Procs : ~user[q].used THEN c \in Procs /\ ~user[c].used ELSE c = Nobody

(* A dangerous call that needs no answer. *)
CallAllowed(p, c, app) ==
    /\ Runs(p) /\ "dangerous" \in doing.calls /\ Slot(c)
    /\ \/ IsAdmin(p) /\ UNCHANGED <<perm, loaded>>
       \/ ~IsAdmin(p) /\ App(p) \in ToSet(session) /\ UNCHANGED <<perm, loaded>>
       \/ ~IsAdmin(p) /\ App(p) \notin ToSet(session) /\ Permitted(p)
          /\ perm' = Rules /\ loaded' = TRUE
    /\ Started(p, c, app)
    /\ UNCHANGED <<doing, boot, file, rules, session, asking, keys, given, told>>

CallAsks(p) ==
    /\ Runs(p) /\ "dangerous" \in doing.calls /\ ~IsAdmin(p)
    /\ App(p) \notin ToSet(session) /\ ~Permitted(p)
    /\ perm' = Rules /\ loaded' = TRUE /\ asking' = p
    /\ UNCHANGED <<doing, boot, file, user, rules, session, keys, given, told>>

Decision(key) ==
    CASE key = "1" -> "once" [] key = "2" -> "session" [] key = "3" -> "permanent"
      [] key = "n" -> "deny" [] OTHER -> "none"


(* append_permanent_rule: the program and a newline, after whatever the file *)
(* ends with.                                                                *)
RuleAdded(app) ==
    [lines |-> IF rules.open /\ rules.lines # <<>> THEN Append(Front(rules.lines), Append(Last(rules.lines), app))
               ELSE Append(rules.lines, <<app>>),
     open |-> FALSE]

(* remember_permanent_path for a program without a rule: the file first,    *)
(* then the table, which may be full.                                       *)
RememberPermanent(app, ok) ==
    IF ~ok THEN [rules |-> rules, perm |-> perm, said |-> FALSE]
    ELSE [rules |-> RuleAdded(app), perm |-> AddToTable(perm, <<app>>), said |-> Len(perm) < AppsMax]

(* MUTANT: allowing a call once allows the program for the session. *)
LastsForSession(decision) == decision \in {"once", "session", "permanent"}

RemembersSession(decision) == decision \in {"session", "permanent"}

(* The prompt takes the next key, also one typed before it appeared. *)
Answer(c, app, ok) ==
    /\ asking # Nobody /\ keys # <<>> /\ Slot(c)
    /\ keys' = Tail(keys)
    /\ LET d == Decision(Head(keys))
           me == App(asking)
           r == IF d = "permanent" THEN RememberPermanent(me, ok)
                ELSE [rules |-> rules, perm |-> perm, said |-> FALSE] IN
       /\ Len(rules.lines) < MaxRules \/ d # "permanent"
       /\ rules' = r.rules /\ perm' = r.perm /\ told' = told \cup (IF r.said THEN {me} ELSE {})
       /\ session' = IF RemembersSession(d) THEN AddToTable(session, me) ELSE session
       /\ given' = given \cup (IF d \in {"session", "permanent"} THEN {me} ELSE {})
       /\ asking' = IF d = "none" THEN asking ELSE Nobody
       /\ IF d \in {"none", "deny"} THEN UNCHANGED user ELSE Started(asking, c, app)
    /\ UNCHANGED <<doing, boot, file, loaded>>

KeyTyped(key) ==
    /\ "dangerous" \in doing.calls /\ Len(keys) < MaxKeys
    /\ keys' = Append(keys, key)
    /\ UNCHANGED <<doing, boot, file, user, rules, session, perm, loaded, asking, given, told>>

----------------------------------------------------------------------------
(* The kernel starts a process of its own accord, one ends, and the machine *)
(* starts again from its disk.                                              *)

Launch(p, app) ==
    /\ asking = Nobody /\ ~user[p].used
    /\ user' = [user EXCEPT ![p] = [used |-> TRUE, app |-> app, user |-> Default]]
    /\ UNCHANGED <<doing, boot, file, uscVars>>

Exit(p) ==
    /\ Runs(p)
    /\ user' = [user EXCEPT ![p] = [used |-> FALSE, app |-> Nobody, user |-> Default]]
    /\ UNCHANGED <<doing, boot, file, uscVars>>

(* What a file whose clusters are free holds goes as they are given to     *)
(* another file; a check of the volume gives it back some of them.          *)
Decay ==
    /\ file # NoFile /\ file.loose
    /\ \/ file' = [file EXCEPT !.lines = <<Junk(2)>>, !.open = TRUE]
       \/ \E f \in Pieces(file.lines) : file' = [f EXCEPT !.loose = FALSE]
    /\ UNCHANGED <<doing, boot, user, uscVars>>

NoProcs == [p \in Procs |-> [used |-> FALSE, app |-> Nobody, user |-> Default]]
Booted == user' = NoProcs /\ session' = <<>> /\ perm' = <<>> /\ loaded' = FALSE
          /\ asking' = Nobody /\ keys' = <<>> /\ given' = {}

Restart ==
    /\ boot # "live" /\ boot' \in {"disk", "rescue"}
    /\ Booted /\ UNCHANGED <<doing, file, rules, told>>

Init ==
    /\ doing \in Scenarios
    /\ boot = doing.boot /\ file = doing.file /\ rules = doing.rules
    /\ user = NoProcs /\ session = <<>> /\ perm = <<>> /\ loaded = FALSE
    /\ asking = Nobody /\ keys = <<>> /\ given = {} /\ told = {}

Next ==
    \/ \E p \in Procs, n \in doing.names :
          \/ \E pw \in Passwords : LoginCall(p, n, pw)
          \/ \E pw \in Passwords, role \in {"admin", "user"}, ok \in BOOLEAN : AddCall(p, n, pw, role, ok)
          \/ \E old \in Passwords, new \in Passwords : PasswdCall(p, n, old, new)
          \/ \E role \in {"admin", "user"} : SetRoleCall(p, n, role)
          \/ RemoveCall(p, n)
    \/ \E p \in Procs : LogoutCall(p) \/ Exit(p) \/ CallAsks(p)
    \/ \E app \in doing.apps :
          \/ \E p \in Procs : Launch(p, app)
          \/ \E c \in Procs \cup {Nobody} :
                \/ \E p \in Procs : CallAllowed(p, c, app)
                \/ \E ok \in BOOLEAN : Answer(c, app, ok)
    \/ \E key \in {"1", "2", "3", "n", "x"} : KeyTyped(key)
    \/ Decay
    \/ Restart

Spec == Init /\ [][Next]_vars

----------------------------------------------------------------------------
(* Properties. *)

(* The first record of each name in the file, read or not. *)
AccountMap ==
    LET rs == IF file = NoFile THEN <<>> ELSE RecordsIn(file.lines) IN
    [n \in {rs[i].name : i \in DOMAIN rs} |->
        LET r == FirstOf(rs, n) IN [role |-> r.role, pw |-> r.hash[2]]]
Who == [p \in Procs |-> IF user[p].user.logged THEN [name |-> user[p].user.name, role |-> user[p].user.role]
                        ELSE Nobody]
Shape == IF file = NoFile THEN "whole" ELSE IF file.loose THEN "loose" ELSE IF file.open THEN "cut" ELSE "whole"
Promise == INSTANCE Accounts WITH accounts <- AccountMap, who <- Who, guarded <- Required, shape <- Shape


(* The directory a path names on the disk belongs to a user whose name is   *)
(* not even p's in other letters.                                           *)
InHomeOfAnother(p, path) ==
    LET f == FoldPath(path) IN
    Len(path) >= 2 /\ f[1] = Homes[1] /\ f[2] # Fold(Current(p).name)


(* A program whose rule was written to continue an unended last line. *)
Swallowed(app) == \E i \in DOMAIN rules.lines : Len(rules.lines[i]) > 1 /\ Last(rules.lines[i]) = app


(* The session's table holds no program but those an answer allowed for the *)
(* session, and all of them until it is full: no answer for one call lasts. *)
SessionExact ==
    /\ ToSet(session) \subseteq given
    /\ Len(session) < AppsMax => ToSet(session) = given
=============================================================================
