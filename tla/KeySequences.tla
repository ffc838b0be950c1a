---------------------------- MODULE KeySequences ----------------------------
(***************************************************************************)
(* What a key of the soft keyboard sends under the modifiers that are      *)
(* pending (src/shared/modifierKeys.ts).  Characters are their codes.      *)
(***************************************************************************)
EXTENDS Integers, Sequences

Modifiers == [ctrl : BOOLEAN, alt : BOOLEAN, shift : BOOLEAN]

Esc == 27
Tab == 9

HasModifiers(mods) == mods.ctrl \/ mods.alt \/ mods.shift

LowerCase == 97 .. 122
UpperCase == 65 .. 90
Lower(c) == IF c \in UpperCase THEN c + 32 ELSE c

\* CTRL_SPECIALS: space and @, [ \ ] ^ _ and the question mark.
CtrlSpecials == [c \in {32, 64} \cup 91 .. 95 \cup {63} |->
    CASE c \in {32, 64} -> 0 [] c = 63 -> 127 [] OTHER -> c - 64]

Controls(c) == Lower(c) \in LowerCase \/ c \in DOMAIN CtrlSpecials

\* The character under ctrl and shift; shift counts where ctrl means nothing.
Base(c, mods) ==
    CASE c = Tab -> IF mods.shift THEN <<Esc, 91, 90>> ELSE <<Tab>>
      [] c # Tab /\ mods.ctrl /\ Lower(c) \in LowerCase -> <<Lower(c) - 96>>
      [] c # Tab /\ mods.ctrl /\ c \in DOMAIN CtrlSpecials -> <<CtrlSpecials[c]>>
      [] c # Tab /\ ~(mods.ctrl /\ Controls(c)) /\ mods.shift /\ c \in LowerCase -> <<c - 32>>
      [] OTHER -> <<c>>

(* applyModifiers: input of more than one character (a paste, the text of   *)
(* an input method) passes, and leaves the modifiers pending.               *)
ApplyModifiers(data, mods) ==
    IF ~HasModifiers(mods) \/ Len(data) # 1
    THEN [data |-> data, consumed |-> FALSE]
    ELSE [data |-> (IF mods.alt THEN <<Esc>> ELSE <<>>) \o Base(data[1], mods), consumed |-> TRUE]

ArrowFinals == [up |-> 65, down |-> 66, right |-> 67, left |-> 68]

ModifierCode(mods) ==
    1 + (IF mods.shift THEN 1 ELSE 0) + (IF mods.alt THEN 2 ELSE 0) + (IF mods.ctrl THEN 4 ELSE 0)

(* arrowSequence: ESC O A in application mode, ESC [ A, or ESC [ 1 ; 5 A.   *)
ArrowSequence(dir, mods, application) ==
    CASE ModifierCode(mods) > 1 -> <<Esc, 91, 49, 59, 48 + ModifierCode(mods), ArrowFinals[dir]>>
      [] ModifierCode(mods) = 1 /\ application -> <<Esc, 79, ArrowFinals[dir]>>
      [] OTHER -> <<Esc, 91, ArrowFinals[dir]>>

-----------------------------------------------------------------------------
Ascii == 0 .. 127
None == [ctrl |-> FALSE, alt |-> FALSE, shift |-> FALSE]
Ctrl == [None EXCEPT !.ctrl = TRUE]

(* Ctrl takes the low five bits of every character from @ to _ and of the   *)
(* small letters, as terminals do, whatever the case the keyboard shows.    *)
ASSUME CtrlTakesLowBits ==
    \A c \in 64 .. 95 \cup LowerCase :
        ApplyModifiers(<<c>>, Ctrl).data = <<c % 32>>

(* A pending modifier is used up by one key, and by nothing else.           *)
ASSUME OneKeyConsumes ==
    \A mods \in Modifiers : \A c, d \in {9, 32, 48, 65, 97} :
        /\ ApplyModifiers(<<c>>, mods).consumed = HasModifiers(mods)
        /\ ~ApplyModifiers(<<c, d>>, mods).consumed
        /\ ApplyModifiers(<<c, d>>, mods).data = <<c, d>>

(* Alt changes no key but by the escape before it. *)
ASSUME AltPrefixes ==
    \A c \in Ascii : \A mods \in Modifiers :
        LET plain == [mods EXCEPT !.alt = FALSE]
            with == [mods EXCEPT !.alt = TRUE]
        IN  ApplyModifiers(<<c>>, with).data = <<Esc>> \o ApplyModifiers(<<c>>, plain).data

(* No two arrows, under whatever modifiers, send the same.                  *)
ASSUME ArrowsDiffer ==
    \A a \in BOOLEAN : \A d, e \in DOMAIN ArrowFinals : \A m, n \in Modifiers :
        ArrowSequence(d, m, a) = ArrowSequence(e, n, a) => d = e /\ m = n
=============================================================================
