------------------------------- MODULE Input --------------------------------
(* Keyboard, input methods and mouse: kernel/input/keyboard.c, inputm.c and  *)
(* mouse.c, fed by the PS/2 interrupt of kernel/core/interrupts.c.           *)
(*                                                                           *)
(* Interrupts are off in system calls, so the readers there are atomic; the  *)
(* window manager runs with interrupts on, and its reader of the key queue   *)
(* can be interrupted between reading the count and storing it back.         *)
(* Characters are strings, a text is a sequence of them.                     *)
EXTENDS Integers, Sequences, FiniteSets, SequencesExt

CONSTANTS
    Sessions,   \* what a behaviour uses: [keys, faulty: a mouse, or a controller that may time out]
    Ttys,       \* 0 .. clks_tty_count() - 1
    WmTty,      \* CLKS_WM_TTY_INDEX
    Cap,        \* CLKS_KBD_INPUT_CAP
    Rules,      \* rule files: sequences of [key, cands] lines
    Installed,  \* methods found in CLKS_INPUTM_DIR: sequence of [name, table, lower, split, raw, rule]
    Offered,    \* methods a program may register
    MethodMax,  \* CLKS_INPUTM_MAX
    CompMax,    \* CLKS_INPUTM_COMP_MAX
    CandMax,    \* CLKS_INPUTM_CAND_MAX
    PageSize,   \* CLKS_INPUTM_CAND_PAGE_SIZE
    PartsMax,   \* CLKS_INPUTM_SPLIT_MAX_PARTS
    SyllMax,    \* CLKS_INPUTM_SPLIT_MAX_SYLLABLE
    AltMax,     \* CLKS_INPUTM_SPLIT_ALT_MAX
    Width,      \* framebuffer width
    MouseBytes, \* bytes of mouse packets: [sync, overflow, buttons, d]
    MaxHeld,    \* keys held down at a time
    MaxEvents   \* key strokes and mouse bytes of a behaviour

ASSUME InputAssumption ==
    /\ Cap \in Nat \ {0} /\ CompMax \in Nat \ {0} /\ CandMax \in Nat /\ PageSize \in Nat \ {0}
    /\ WmTty \in Ttys /\ 0 \in Ttys /\ Width \in Nat \ {0}
    /\ \A b \in MouseBytes : b.d \in Int
    /\ \A s \in Sessions : s.keys \cap {"ctrl", "alt", "e0"} = {}    \* these are codes, not keys

VARIABLES
    pc,      \* step of clks_mouse_init, then "run"
    ctl,     \* the PS/2 controller and the mouse: [kbd, aux, irq, stream, refused]
    mouse,   \* clks_mouse: [ready, packet, x, buttons]
    lost,    \* a mouse byte was lost on the way
    phase,   \* bytes of the current packet the mouse has sent
    wire,    \* scancodes of the keyboard not yet handled
    session, \* the one of this behaviour
    held,    \* keys physically down
    mods,    \* alt_down, lshift_down, ... e0_prefix, force_stop_latch
    ring,    \* ring[t]: [buf, head, tail, count]
    unread,  \* unread[t]: characters accepted for t and not yet given out
    wm,      \* count the window manager's reader has read, -1 outside of it
    raced,   \* a key arrived inside that reader
    active,  \* clks_tty_active()
    ime,     \* [methods, cur, comp, cands, page]
    stale,   \* the current method was registered anew since the candidates were made
    stray,   \* the keyboard sent fake codes that the kernel misreads
    stops,   \* force stops since Ctrl, Alt and C were last down together anew
    events   \* key strokes and mouse bytes so far

kbdVars == <<session, wire, held, mods, stray, ring, unread, wm, raced, active, ime, stale, stops>>
mouseVars == <<pc, ctl, mouse, lost, phase>>
vars == <<kbdVars, mouseVars, events>>

NoChar == ""

----------------------------------------------------------------------------
(* Key codes and key maps (the keys an instance uses). *)

Extended == {"rctrl", "ralt", "left", "pgup", "prtsc"}
Code(k) == CASE k \in {"lctrl", "rctrl"} -> "ctrl" [] k \in {"lalt", "ralt"} -> "alt" [] OTHER -> k
E0 == [code |-> "e0", up |-> FALSE]
Scancodes(k, up) == (IF k \in Extended THEN <<E0>> ELSE <<>>) \o <<[code |-> Code(k), up |-> up]>>

(* The codes of scan code set 1.  While Shift is held, the keyboard (with   *)
(* Num Lock off) hides it from the keys of the cursor block: a fake release *)
(* of Shift, after E0, precedes such a key and a fake press follows its     *)
(* release.  Print Screen alone comes with a fake Shift of its own.         *)
CursorKeys == {"left", "pgup"}
ShiftKeys == {"lshift", "rshift"}
Alone(h) == h \cap (ShiftKeys \cup {"lctrl", "rctrl"}) = {}
Fake(s, up, rest) == Cons(E0, Cons([code |-> s, up |-> up], rest))
FakeIf(yes, s, up, rest) == IF yes THEN Fake(s, up, rest) ELSE rest

\* What is sent when k goes down, or repeats, while h is held, ...
PressCodes(k, h) ==
    LET hides == k \in CursorKeys \ h
        after == FakeIf(hides /\ "rshift" \in h, "rshift", TRUE, Scancodes(k, FALSE)) IN
    IF k = "prtsc" THEN FakeIf(Alone(h) /\ k \notin h, "lshift", FALSE, Scancodes(k, FALSE))
    ELSE FakeIf(hides /\ "lshift" \in h, "lshift", TRUE, after)

\* ... and when it comes up.
ReleaseCodes(k, h) ==
    Scancodes(k, TRUE) \o
    (IF k = "prtsc" THEN FakeIf(Alone(h), "lshift", TRUE, <<>>)
     ELSE FakeIf(k \in CursorKeys /\ "lshift" \in h, "lshift", FALSE,
                 FakeIf(k \in CursorKeys /\ "rshift" \in h, "rshift", FALSE, <<>>)))

\* Fake codes that the kernel, which knows none, takes for Shift or leaves an E0 of.
Misread(k, up, h) ==
    \/ k = "prtsc" /\ k \notin h /\ Alone(h)
    \/ up /\ k \in CursorKeys /\ h \cap ShiftKeys # {}

Letters == {"a", "c", "A", "C"}
Lower(ch) == CASE ch = "A" -> "a" [] ch = "C" -> "c" [] OTHER -> ch
Digits == <<"1", "2">>

Translate(code, shift) ==
    CASE code = "a" -> IF shift THEN "A" ELSE "a"
      [] code = "c" -> IF shift THEN "C" ELSE "c"
      [] code = "1" -> IF shift THEN "!" ELSE "1"
      [] code = "=" -> IF shift THEN "+" ELSE "="
      [] code = "-" -> IF shift THEN "_" ELSE "-"
      [] code \in {" ", "bksp", "enter"} -> code
      [] OTHER -> NoChar

TranslateExt(code, shift) == IF code = "left" THEN IF shift THEN "SHIFT_LEFT" ELSE "LEFT" ELSE NoChar
ShortcutOf(code) == CASE code = "a" -> "LINE_START" [] code = "c" -> "COPY" [] OTHER -> NoChar
FunctionKeys == <<"F1", "F2">>

Shift == mods.lshift \/ mods.rshift
Ctrl == mods.lctrl \/ mods.rctrl
NoMods == [alt |-> FALSE, lshift |-> FALSE, rshift |-> FALSE, lctrl |-> FALSE, rctrl |-> FALSE,
           e0 |-> FALSE, latch |-> FALSE]

----------------------------------------------------------------------------
(* The queue of each terminal. *)

EmptyRing == [buf |-> [i \in 0 .. Cap - 1 |-> NoChar], head |-> 0, tail |-> 0, count |-> 0]

(* Push a text, character by character until it ends or the queue is full: *)
(* the rest is dropped.  The result also has the characters that were taken. *)
Fitting(r, text) ==
    LET room == Cap - r.count IN
    CHOOSE n \in 0 .. room : (n = room \/ n + 1 \notin DOMAIN text) /\ \A i \in 1 .. n : i \in DOMAIN text
PushText(r, text) ==
    LET n == Fitting(r, text)
        at(i) == (i + Cap - r.head) % Cap IN   \* how far behind the head
    [r |-> [r EXCEPT !.buf = [i \in 0 .. Cap - 1 |-> IF at(i) < n THEN text[at(i) + 1] ELSE @[i]],
                     !.head = (@ + n) % Cap, !.count = @ + n],
     taken |-> [i \in 1 .. n |-> text[i]]]

(* Take a whole text and then, separately, each of the characters of more. *)
Deliver(t, text, more) ==
    LET first == PushText(ring[t], text)
        second == PushText(first.r, more) IN
    /\ ring' = [ring EXCEPT ![t] = second.r]
    /\ unread' = [unread EXCEPT ![t] = @ \o first.taken \o second.taken]
    /\ raced' = (raced \/ (wm >= 0 /\ t = WmTty /\ first.taken \o second.taken # <<>>))

NothingDelivered == UNCHANGED <<ring, unread, raced>>

----------------------------------------------------------------------------
(* Input methods. *)

CutTo(s, n) == SubSeq(s, 1, IF Len(s) < n THEN Len(s) ELSE n)
Method(m) == m.methods[m.cur]

(* clks_inputm_lookup_candidate(_in_data): the lines whose key is k, their  *)
(* candidates in order.                                                     *)
LookUp(rule, k) == FlattenSeq([i \in DOMAIN Rules[rule] |->
                                  IF Rules[rule][i].key = k THEN Rules[rule][i].cands ELSE <<>>])

(* rebuild_split_candidates_rec, depth first: the phrases of the ways to    *)
(* cut comp into at most PartsMax - 1 parts, each one of the first           *)
(* alternatives of its part.  from[left, s] are those of comp from s on.     *)
SplitPhrases(rule, comp) ==
    LET alts(s, e) == CutTo(LookUp(rule, SubSeq(comp, s, e)), AltMax)
        from[left \in 0 .. PartsMax, s \in 1 .. Len(comp) + 1] ==
            IF left = 0 THEN <<>>
            ELSE IF s > Len(comp) THEN << <<>> >>
            ELSE FlattenSeq([n \in 1 .. (IF Len(comp) - s + 1 < SyllMax THEN Len(comp) - s + 1 ELSE SyllMax) |->
                     FlattenSeq([i \in DOMAIN alts(s, s + n - 1) |->
                         LET rest == from[left - 1, s + n] IN
                         [k \in DOMAIN rest |-> alts(s, s + n - 1)[i] \o rest[k]]])])
    IN from[PartsMax, 1]

(* clks_inputm_add_candidate on each in turn: no duplicates, no overflow. *)
AddCandidates(cands, more) ==
    FoldLeft(LAMBDA a, c : IF Len(a) >= CandMax \/ c \in ToSet(a) THEN a ELSE Append(a, c), cands, more)

(* MUTANT: splitting starts over instead of adding to the exact matches. *)
RebuildSplitOnly(m, comp) ==
    LET me == Method(m)
        exact == AddCandidates(<<>>, LookUp(me.rule, comp)) IN
    IF comp = <<>> THEN <<>>
    ELSE IF me.split /\ Len(comp) >= 2 /\ Len(exact) < CandMax
         THEN AddCandidates(<<>>, SplitPhrases(me.rule, comp))
         ELSE exact

RebuildCandidates(m, comp) ==
    LET me == Method(m)
        exact == AddCandidates(<<>>, LookUp(me.rule, comp)) IN
    IF comp = <<>> THEN <<>>
    ELSE IF me.split /\ Len(comp) >= 2 /\ Len(exact) < CandMax
         THEN AddCandidates(exact, SplitPhrases(me.rule, comp))
         ELSE exact

Idle(m) == [m EXCEPT !.comp = <<>>, !.cands = <<>>, !.page = 0]
Composing(m, comp) == [m EXCEPT !.comp = comp, !.cands = RebuildCandidates(m, comp), !.page = 0]

(* clks_inputm_commit_comp: what goes to the terminal. *)
Committed(m, i) ==
    LET at == m.page * PageSize + i
        direct == LookUp(Method(m).rule, m.comp) IN
    CASE at < Len(m.cands) -> m.cands[at + 1]
      [] at >= Len(m.cands) /\ at < Len(direct) -> direct[at + 1]
      [] OTHER -> IF Method(m).raw THEN m.comp ELSE <<>>

PageCount(m) == (Len(m.cands) + PageSize - 1) \div PageSize
Turned(m, d) == IF PageCount(m) = 0 THEN m ELSE [m EXCEPT !.page = (@ + d) % PageCount(m)]

(* clks_inputm_handle_char: the new state, what it sends to the terminal    *)
(* and whether it took the character.                                       *)
HandleChar(m, ch) ==
    LET me == Method(m)
        Answer(n, text, taken) == [ime |-> n, text |-> text, taken |-> taken]
        digit == {i \in DOMAIN Digits : Digits[i] = ch} IN
    CASE ~me.table -> Answer(m, <<>>, FALSE)
      [] me.table /\ ch \in Letters ->
           Answer(IF Len(m.comp) + 1 < CompMax
                  THEN Composing(m, Append(m.comp, IF me.lower THEN Lower(ch) ELSE ch)) ELSE m, <<>>, TRUE)
      [] me.table /\ ch \notin Letters /\ m.comp = <<>> -> Answer(m, <<>>, FALSE)
      [] OTHER ->
           CASE digit # {} -> Answer(Idle(m), Committed(m, (CHOOSE i \in digit : TRUE) - 1), TRUE)
             [] ch = "+" -> Answer(Turned(m, 1), <<>>, TRUE)
             [] ch = "-" -> Answer(Turned(m, PageCount(m) - 1), <<>>, TRUE)
             [] ch = " " -> Answer(Idle(m), Committed(m, 0), TRUE)
             [] ch = "bksp" -> Answer(Composing(m, Front(m.comp)), <<>>, TRUE)
             [] ch = "esc" -> Answer(Idle(m), <<>>, TRUE)
             [] OTHER -> Answer(Idle(m), Committed(m, 0), FALSE)

SelectMethod(m, i) == IF i \in DOMAIN m.methods THEN [Idle(m) EXCEPT !.cur = i] ELSE m

(* clks_inputm_register_rule_internal *)
RegisterIn(methods, new) ==
    LET same == {i \in DOMAIN methods : methods[i].name = new.name} IN
    IF same # {} THEN [methods EXCEPT ![CHOOSE i \in same : \A j \in same : i <= j] = new]
    ELSE IF Len(methods) < MethodMax THEN Append(methods, new) ELSE methods

English == [name |-> "SystemENG", table |-> FALSE, lower |-> FALSE, split |-> FALSE, raw |-> FALSE, rule |-> 1]

(* clks_inputm_init, clks_inputm_detect_userland_imes: English, then every  *)
(* method whose program is in the directory of input methods.               *)
Detected == FoldLeft(RegisterIn, <<English>>, Installed)

----------------------------------------------------------------------------
(* clks_keyboard_handle_scancode, one action per way through it. *)

ModifierCodes == {"ctrl", "alt", "lshift", "rshift"}
Top == Head(wire)
Taken == pc = "run" /\ wire # <<>> /\ wire' = Tail(wire) /\ UNCHANGED <<session, held, stray, wm, events, mouseVars>>
Ordinary == ~Top.up /\ Top.code \notin ModifierCodes \cup {"e0"}
Plain == Ordinary /\ ~mods.e0
KeepRest == UNCHANGED <<active, ime, stale, stops>> /\ NothingDelivered

Prefix == Taken /\ Top = E0 /\ mods' = [mods EXCEPT !.e0 = TRUE] /\ KeepRest

(* A released modifier of the force-stop chord lets it fire again. *)
Unlatched(m) == IF Top.up THEN [m EXCEPT !.latch = FALSE] ELSE m

CtrlKey ==
    /\ Taken /\ Top.code = "ctrl"
    /\ mods' = Unlatched(IF mods.e0 THEN [mods EXCEPT !.rctrl = ~Top.up, !.e0 = FALSE]
                         ELSE [mods EXCEPT !.lctrl = ~Top.up])
    /\ stops' = IF Top.up THEN 0 ELSE stops
    /\ UNCHANGED <<active, ime, stale>> /\ NothingDelivered

AltKey ==
    /\ Taken /\ Top.code = "alt"
    /\ mods' = Unlatched([mods EXCEPT !.alt = ~Top.up, !.e0 = FALSE])
    /\ stops' = IF Top.up THEN 0 ELSE stops
    /\ UNCHANGED <<active, ime, stale>> /\ NothingDelivered

ShiftKey ==
    /\ Taken /\ Top.code \in {"lshift", "rshift"}
    /\ mods' = IF Top.code = "lshift" THEN [mods EXCEPT !.lshift = ~Top.up] ELSE [mods EXCEPT !.rshift = ~Top.up]
    /\ KeepRest

Released ==
    /\ Taken /\ Top.up /\ Top.code \notin ModifierCodes
    /\ mods' = [mods EXCEPT !.latch = @ /\ Top.code # "c", !.e0 = FALSE]
    /\ stops' = IF Top.code = "c" THEN 0 ELSE stops
    /\ UNCHANGED <<active, ime, stale>> /\ NothingDelivered

(* Page up and page down belong to the terminal. *)
ExtendedKey ==
    /\ Taken /\ Ordinary /\ mods.e0
    /\ mods' = [mods EXCEPT !.e0 = FALSE]
    /\ LET ch == TranslateExt(Top.code, Shift) IN
       IF ch = NoChar THEN NothingDelivered ELSE Deliver(active, <<>>, <<ch>>)
    /\ UNCHANGED <<active, ime, stale, stops>>

SwitchTty ==
    /\ Taken /\ Plain /\ mods.alt
    /\ \E i \in DOMAIN FunctionKeys :
          /\ FunctionKeys[i] = Top.code
          /\ active' = IF i - 1 \in Ttys THEN i - 1 ELSE active
    /\ UNCHANGED <<mods, ime, stale, stops>> /\ NothingDelivered

Cycles == Top.code = " " /\ Ctrl /\ Shift

CycleMethod ==
    /\ Taken /\ Plain /\ Cycles
    /\ ime' = SelectMethod(ime, (ime.cur % Len(ime.methods)) + 1) /\ stale' = FALSE
    /\ UNCHANGED <<mods, active, stops>> /\ NothingDelivered

(* The terminal may take Escape; otherwise the input method may.  It has no *)
(* character of its own.                                                    *)
EscapeKey(swallowed) ==
    /\ Taken /\ Plain /\ Top.code = "esc"
    /\ ime' = IF swallowed THEN ime ELSE HandleChar(ime, "esc").ime
    /\ stale' = (stale /\ ime'.comp # <<>>)
    /\ UNCHANGED <<mods, active, stops>> /\ NothingDelivered

Chord == Top.code = "c" /\ mods.alt /\ Ctrl

(* MUTANT: the latch is never consulted, so key repeat stops one process after another. *)
ForceStopUnlatched ==
    /\ Taken /\ Plain /\ Chord
    /\ mods' = [mods EXCEPT !.latch = TRUE] /\ stops' = stops + 1
    /\ UNCHANGED <<active, ime, stale>> /\ NothingDelivered

ForceStop ==
    /\ Taken /\ Plain /\ Chord
    /\ mods' = [mods EXCEPT !.latch = TRUE]
    /\ stops' = IF mods.latch THEN stops ELSE stops + 1
    /\ UNCHANGED <<active, ime, stale>> /\ NothingDelivered

HotKey == (mods.alt /\ Top.code \in ToSet(FunctionKeys)) \/ Cycles \/ Top.code = "esc" \/ Chord
Shortcut == Ctrl /\ ShortcutOf(Top.code) # NoChar /\ ring[active].count < Cap

CtrlShortcut ==
    /\ Taken /\ Plain /\ ~HotKey /\ Shortcut
    /\ Deliver(active, <<>>, <<ShortcutOf(Top.code)>>)
    /\ UNCHANGED <<mods, active, ime, stale, stops>>

(* An ordinary character, also of a shortcut the queue had no room for: the *)
(* terminal may take it, then the input method, then the queue.             *)
Typed(swallowed) ==
    /\ Taken /\ Plain /\ ~HotKey /\ ~Shortcut
    /\ LET ch == Translate(Top.code, Shift)
           r == HandleChar(ime, ch) IN
       IF ch = NoChar \/ swallowed THEN UNCHANGED <<ime, stale>> /\ NothingDelivered
       ELSE /\ ime' = r.ime /\ stale' = (stale /\ r.ime.comp = ime.comp)
            /\ Deliver(active, r.text, IF r.taken THEN <<>> ELSE <<ch>>)
    /\ UNCHANGED <<mods, active, stops>>

----------------------------------------------------------------------------
(* Readers of the queue, and calls of programs. *)

(* MUTANT: the reader forgets to advance past what it took. *)
PopStays(r, count) == [r EXCEPT !.count = count - 1]

Popped(r, count) == [r EXCEPT !.tail = (@ + 1) % Cap, !.count = count - 1]

(* A system call: interrupts are off. *)
PopChar(t) ==
    /\ pc = "run" /\ wm < 0 /\ ring[t].count > 0
    /\ ring' = [ring EXCEPT ![t] = Popped(@, @.count)]
    /\ unread' = [unread EXCEPT ![t] = Tail(@)]
    /\ UNCHANGED <<session, wire, held, mods, stray, wm, raced, active, ime, stale, stops, mouseVars, events>>

(* The window manager: the count it read may be old when it is stored. *)
WmPopBegin ==
    /\ pc = "run" /\ wm < 0 /\ ring[WmTty].count > 0
    /\ wm' = ring[WmTty].count
    /\ UNCHANGED <<session, wire, held, mods, stray, ring, unread, raced, active, ime, stale, stops, mouseVars, events>>

WmPopEnd(reloaded) ==
    /\ wm >= 0
    /\ ring' = [ring EXCEPT ![WmTty] = Popped(@, IF reloaded THEN @.count ELSE wm)]
    /\ unread' = [unread EXCEPT ![WmTty] = Tail(@)]
    /\ wm' = -1
    /\ raced' = (raced /\ ring'[WmTty].count # Len(unread'[WmTty]))
    /\ UNCHANGED <<session, wire, held, mods, stray, active, ime, stale, stops, mouseVars, events>>

Select(i) ==
    /\ pc = "run" /\ wm < 0
    /\ ime' = SelectMethod(ime, i) /\ stale' = (stale /\ i \notin DOMAIN ime.methods)
    /\ UNCHANGED <<session, wire, held, mods, stray, ring, unread, wm, raced, active, stops, mouseVars, events>>

Register(new) ==
    /\ pc = "run" /\ wm < 0
    /\ ime' = [ime EXCEPT !.methods = RegisterIn(@, new)]
    /\ stale' = (stale \/ ime'.methods[ime.cur] # Method(ime))
    /\ UNCHANGED <<session, wire, held, mods, stray, ring, unread, wm, raced, active, stops, mouseVars, events>>

(* The keyboard: a key goes down, repeats while it is held, comes up. *)
Press(k) ==
    /\ pc = "run" /\ ctl.kbd /\ wire = <<>> /\ events < MaxEvents
    /\ k \in held \/ Cardinality(held) < MaxHeld
    /\ held' = held \cup {k} /\ wire' = PressCodes(k, held) /\ events' = events + 1
    /\ stray' = (stray \/ Misread(k, FALSE, held))
    /\ UNCHANGED <<session, mods, ring, unread, wm, raced, active, ime, stale, stops, mouseVars>>

Release(k) ==
    /\ pc = "run" /\ wire = <<>> /\ k \in held
    /\ held' = held \ {k} /\ wire' = ReleaseCodes(k, held')
    /\ stray' = (stray \/ Misread(k, TRUE, held'))
    /\ UNCHANGED <<session, mods, ring, unread, wm, raced, active, ime, stale, stops, mouseVars, events>>

----------------------------------------------------------------------------
(* clks_mouse_init: a command at a time, before interrupts are on.  A       *)
(* command may time out before it is sent, and the mouse may do what it is  *)
(* told and still not acknowledge it; with no mouse it never does.          *)

Steps == <<"kbd_off", "aux_off", "drain", "aux_on", "read_cfg", "write_cfg",
           "defaults", "tune", "stream", "kbd_on", "ready">>
After(step) == Steps[(CHOOSE i \in DOMAIN Steps : Steps[i] = step) + 1]
Unchecked == {"kbd_off", "aux_off", "drain", "tune", "kbd_on"}
Acknowledged == {"defaults", "tune", "stream"}

Sent(c, step) ==
    CASE step = "kbd_off" -> [c EXCEPT !.kbd = FALSE]
      [] step = "aux_off" -> [c EXCEPT !.aux = FALSE]
      [] step = "aux_on" -> [c EXCEPT !.aux = TRUE]
      [] step = "write_cfg" -> [c EXCEPT !.irq = TRUE, !.aux = TRUE]
      [] step = "defaults" -> [c EXCEPT !.stream = FALSE]
      [] step = "stream" -> [c EXCEPT !.stream = TRUE]
      [] step \in {"kbd_on", "bail"} -> [c EXCEPT !.kbd = TRUE]
      [] OTHER -> c

(* MUTANT: an error returns without turning the keyboard back on. *)
FailsOutright(step) == "run"

(* Where a command that failed leads. *)
Fails(step) == IF step \in Unchecked THEN After(step) ELSE "bail"

InitSucceeds ==
    /\ pc \in ToSet(Steps) \ {"ready"} /\ (pc \in Acknowledged => session.faulty)
    /\ ctl' = Sent(ctl, pc) /\ pc' = After(pc)
    /\ UNCHANGED <<kbdVars, mouse, lost, phase, events>>

InitFails ==
    /\ pc \in ToSet(Steps) \ {"ready", "drain"} /\ (session.faulty \/ pc \in Acknowledged)
    /\ ctl' \in {[ctl EXCEPT !.refused = @ \/ pc = "kbd_on"]} \cup
               (IF session.faulty /\ pc \in Acknowledged THEN {Sent(ctl, pc)} ELSE {})
    /\ pc' = Fails(pc)
    /\ UNCHANGED <<kbdVars, mouse, lost, phase, events>>

(* The mouse may already have moved: what it sent is drained, and the       *)
(* packets start in the middle of one.                                      *)
InitReady ==
    /\ pc = "ready" /\ pc' = "run"
    /\ mouse' = [mouse EXCEPT !.ready = TRUE]
    /\ phase' \in 0 .. 2 /\ lost' = (phase' # 0)
    /\ UNCHANGED <<kbdVars, ctl, events>>

InitBails(sent) ==
    /\ pc = "bail" /\ pc' = "run" /\ (sent \/ session.faulty)
    /\ ctl' = IF sent THEN Sent(ctl, "bail") ELSE [ctl EXCEPT !.refused = TRUE]
    /\ UNCHANGED <<kbdVars, mouse, lost, phase, events>>

----------------------------------------------------------------------------
(* Mouse packets of three bytes.  A byte is read as a status (sync bit,     *)
(* overflow, buttons) or as a movement, by its place.                       *)

Clamp(x) == IF x < 0 THEN 0 ELSE IF x >= Width THEN Width - 1 ELSE x

(* clks_mouse_handle_byte *)
HandleByte(m, b) ==
    IF ~m.ready \/ (m.packet = <<>> /\ ~b.sync) THEN m
    ELSE LET p == Append(m.packet, b) IN
         IF Len(p) < 3 THEN [m EXCEPT !.packet = p]
         ELSE [m EXCEPT !.packet = <<>>, !.buttons = p[1].buttons,
                        !.x = IF p[1].overflow THEN @ ELSE Clamp(@ + p[2].d)]

(* The mouse sends a byte of its packet: the first has the sync bit. *)
MouseByte(b) ==
    /\ pc = "run" /\ ctl.stream /\ wire = <<>> /\ events < MaxEvents
    /\ phase = 0 => b.sync
    /\ mouse' = HandleByte(mouse, b)
    /\ phase' = (phase + 1) % 3 /\ events' = events + 1
    /\ UNCHANGED <<kbdVars, pc, ctl, lost>>

(* The controller loses a byte: nobody read it in time. *)
MouseByteLost ==
    /\ pc = "run" /\ ctl.stream /\ wire = <<>> /\ events < MaxEvents /\ ~lost
    /\ lost' = TRUE /\ phase' = (phase + 1) % 3 /\ events' = events + 1
    /\ UNCHANGED <<kbdVars, pc, ctl, mouse>>

----------------------------------------------------------------------------
(* The kernel turns input on, and so empties every queue, when it is up. *)
Init ==
    /\ pc = Steps[1]
    /\ ctl = [kbd |-> TRUE, aux |-> FALSE, irq |-> FALSE, stream |-> FALSE, refused |-> FALSE]
    /\ mouse = [ready |-> FALSE, packet |-> <<>>, x |-> (Width - 1) \div 2, buttons |-> FALSE]
    /\ lost = FALSE /\ phase = 0
    /\ session \in Sessions /\ wire = <<>> /\ held = {} /\ mods = NoMods /\ stray = FALSE
    /\ ring = [t \in Ttys |-> EmptyRing] /\ unread = [t \in Ttys |-> <<>>]
    /\ wm = -1 /\ raced = FALSE /\ active = 0
    /\ ime = [methods |-> Detected, cur |-> 1,
              comp |-> <<>>, cands |-> <<>>, page |-> 0]
    /\ stale = FALSE /\ stops = 0 /\ events = 0

HandleScancode ==
    \/ Prefix \/ CtrlKey \/ AltKey \/ ShiftKey \/ Released \/ ExtendedKey
    \/ SwitchTty \/ CycleMethod \/ ForceStop \/ CtrlShortcut
    \/ \E swallowed \in BOOLEAN : EscapeKey(swallowed) \/ Typed(swallowed)

Next ==
    \/ InitSucceeds \/ InitFails \/ InitReady
    \/ \E sent \in BOOLEAN : InitBails(sent)
    \/ \E b \in MouseBytes : MouseByte(b)
    \/ MouseByteLost
    \/ \E k \in session.keys : Press(k)
    \/ \E k \in held : Release(k)
    \/ HandleScancode
    \/ \E t \in Ttys : PopChar(t)
    \/ WmPopBegin
    \/ \E reloaded \in BOOLEAN : WmPopEnd(reloaded)
    \/ \E i \in 1 .. MethodMax : Select(i)
    \/ \E new \in Offered : Register(new)

Spec == Init /\ [][Next]_vars

----------------------------------------------------------------------------
(* Properties. *)

(* clks_keyboard_pop_char_for_tty gives a terminal exactly the characters   *)
(* its queue took, in order, and never more of them than there are.  The    *)
(* window manager's reader may lose track of one a key interrupt adds while *)
(* it runs, and from then on the queue may only be too short.               *)
RingHoldsUnread == \A t \in Ttys :
    /\ ring[t].count <= Len(unread[t])
    /\ (~raced \/ t # WmTty) =>
          /\ ring[t].count = Len(unread[t])
          /\ \A i \in DOMAIN unread[t] : ring[t].buf[(ring[t].tail + i - 1) % Cap] = unread[t][i]

(* Ctrl+Alt+C stops one process however long the keys are held: key repeat  *)
(* must not reach clks_exec_force_stop_tty_running_process a second time    *)
(* until one of the three keys has come up.                                 *)
ForceStopOncePerPress == stops <= 1

(* Between scancodes a modifier is down only if a key that stands for it is *)
(* held, so no sequence of presses, repeats and releases leaves Ctrl, Alt   *)
(* or Shift stuck, and no E0 prefix waits for the next key.  The kernel     *)
(* knows no fake shifts, though: once one has followed a cursor key that    *)
(* came up under Shift, or a lone Print Screen has brought one, an E0 may   *)
(* wait, and Shift or Ctrl be stuck; only of Alt does it hold then.         *)
ModifiersTrackKeys == wire = <<>> =>
    /\ mods.alt => held \cap {"lalt", "ralt"} # {}
    /\ ~stray => /\ mods.lshift => "lshift" \in held
                 /\ mods.rshift => "rshift" \in held
                 /\ mods.lctrl => "lctrl" \in held
                 /\ mods.rctrl => "rctrl" \in held
                 /\ ~mods.e0

(* A hot key acts for the keys that are down now, unless fake shifts have   *)
(* been misread, and once for each press.                                   *)
HotKeys == ForceStopOncePerPress /\ ModifiersTrackKeys

(* The phrases that cutting comp into parts can give: fewer than PartsMax   *)
(* parts of at most SyllMax letters, each replaced by one of its first      *)
(* AltMax candidates.                                                       *)
Segmentation(comp) ==
    {cut \in SUBSET (1 .. Len(comp)) :
        /\ Len(comp) \in cut /\ Cardinality(cut) < PartsMax
        /\ \A e \in cut : \E b \in cut \cup {0} : b < e /\ e - b <= SyllMax}
PhrasesOf(rule, comp) ==
    UNION {LET end == SetToSortSeq(cut, <)
               alts == [i \in DOMAIN end |->
                          CutTo(LookUp(rule, SubSeq(comp, IF i = 1 THEN 1 ELSE end[i - 1] + 1, end[i])), AltMax)]
           IN {FlattenSeq([i \in DOMAIN end |-> alts[i][pick[i]]]) :
                  pick \in {f \in [DOMAIN end -> 1 .. AltMax] : \A i \in DOMAIN end : f[i] \in DOMAIN alts[i]}}
           : cut \in Segmentation(comp)}

(* What the candidate window shows belongs to the composition: while the    *)
(* method has not been replaced under it, the candidates are the exact      *)
(* matches in the order of the rule file, then phrases of its parts, none   *)
(* twice and none missing while there is room, and the page exists.         *)
CandidatesMatch ==
    LET exact == AddCandidates(<<>>, LookUp(Method(ime).rule, ime.comp))
        all == ToSet(LookUp(Method(ime).rule, ime.comp)) \cup
               (IF Method(ime).split /\ Len(ime.comp) >= 2 THEN PhrasesOf(Method(ime).rule, ime.comp) ELSE {})
    IN /\ ime.comp = <<>> => ime.cands = <<>>
       /\ ime.page = 0 \/ ime.page * PageSize < Len(ime.cands)
       /\ (ime.comp # <<>> /\ ~stale) =>
             /\ Len(ime.cands) = Cardinality(ToSet(ime.cands))
             /\ IsPrefix(exact, ime.cands)
             /\ ToSet(ime.cands) \subseteq all
             /\ Len(ime.cands) < CandMax => ToSet(ime.cands) = all

(* clks_mouse_init leaves the keyboard on, however it ends, unless the      *)
(* controller refused that very command; the mouse is ready only when it    *)
(* streams and its interrupt is on.  Packets are read from their first byte *)
(* until a byte is lost, and the pointer stays on the screen.               *)
MouseInitSafe ==
    /\ pc = "run" => ctl.kbd \/ ctl.refused
    /\ mouse.ready => ctl.aux /\ ctl.irq /\ ctl.stream
    /\ (mouse.ready /\ ~lost) => Len(mouse.packet) = phase
    /\ mouse.x \in 0 .. Width - 1

=============================================================================
