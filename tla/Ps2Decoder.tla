----------------------------- MODULE Ps2Decoder -----------------------------
(***************************************************************************)
(* ps2_decoder.c: scan codes of set 2 into key events.  The state of the   *)
(* decoder is one record,                                                  *)
(*   mods    the modifiers held       locks  the locks that are on         *)
(*   break_prefix, ext_prefix         F0 and E0 seen                       *)
(* and a character is a record of its key and of the form it takes.        *)
(***************************************************************************)
EXTENDS Integers, FiniteSets

E0 == 224
F0 == 240

\* The code behind no prefix and behind E0 of each modifier, and of each lock.
ModifierCode    == [shift_l |-> 18, shift_r |-> 89, ctrl_l |-> 20, alt_l |-> 17]
ExtModifierCode == [ctrl_r |-> 20, alt_r |-> 17, win_l |-> 31, win_r |-> 39]
LockCode        == [caps_lock |-> 88, num_lock |-> 119, scroll_lock |-> 126]

Modifier == DOMAIN ModifierCode \cup DOMAIN ExtModifierCode
Lock     == DOMAIN LockCode

\* decode_main: letters; keys with a second character behind Shift; keys with
\* one character (BSP, TAB, ENTER, SPACE, ESC, the keypad); F1 to F12.
LETTERS == {21, 29, 36, 45, 44, 53, 60, 67, 68, 77, 28, 27, 35, 43, 52, 51, 59, 66, 75,
            26, 34, 33, 42, 50, 49, 58}
SHIFTED == {14, 22, 30, 38, 37, 46, 54, 61, 62, 70, 69, 78, 85, 84, 91, 93, 76, 82, 65, 73, 74}
PLAIN   == {102, 13, 90, 41, 118, 121, 123, 124}
KEYPAD  == {112, 105, 114, 122, 107, 115, 116, 108, 117, 125, 113}
FKEYS   == {5, 6, 4, 12, 3, 11, 131, 10, 1, 9, 120, 7}
\* decode_extended, and the menu key.
EXTENDED == {105, 107, 108, 112, 113, 114, 116, 117, 122, 125, 90, 74, 47}

\* letter_ascii
letter_ascii(shift, caps, ctrl) ==
  IF ctrl THEN "control" ELSE IF shift # caps THEN "upper" ELSE "lower"

\* The character of a key that is not a modifier or a lock, "none" if it has
\* none.  A key of the keypad has one whether or not Num Lock is on.
Ascii(raw, ext, mods, locks) ==
  LET sh   == mods \cap {"shift_l", "shift_r"} # {}
      ctrl == mods \cap {"ctrl_l", "ctrl_r"} # {}
      Char(as) == [code |-> raw, ext |-> ext, as |-> as]
  IN  CASE ext /\ raw \in EXTENDED -> Char("plain")
        [] ~ext /\ raw \in LETTERS -> Char(letter_ascii(sh, "caps_lock" \in locks, ctrl))
        [] ~ext /\ raw \in SHIFTED -> Char(IF sh THEN "shifted" ELSE "plain")
        [] ~ext /\ raw \in PLAIN \cup KEYPAD \cup FKEYS -> Char("plain")
        [] OTHER -> Char("none")

\* ps2_dec_init
DecInit == [mods |-> {}, locks |-> {}, break_prefix |-> FALSE, ext_prefix |-> FALSE]

Decoder == [mods : SUBSET Modifier, locks : SUBSET Lock,
            break_prefix : BOOLEAN, ext_prefix : BOOLEAN]

\* Defect: E0 is remembered behind the code it belongs to.
DecFeed_keeps_ext(d, raw) ==
  LET press == ~d.break_prefix
      codes == IF d.ext_prefix THEN ExtModifierCode ELSE ModifierCode
      mod   == {m \in DOMAIN codes : codes[m] = raw}
  IN  IF raw = E0 THEN [d EXCEPT !.ext_prefix = TRUE]
      ELSE IF raw = F0 THEN [d EXCEPT !.break_prefix = TRUE]
      ELSE [d EXCEPT !.mods = IF press THEN @ \cup mod ELSE @ \ mod, !.break_prefix = FALSE]

\* ps2_dec_feed: the decoder after one byte.
DecFeed(d, raw) ==
  LET press == ~d.break_prefix
      ext   == d.ext_prefix
      mod   == IF ext THEN {m \in DOMAIN ExtModifierCode : ExtModifierCode[m] = raw}
                      ELSE {m \in DOMAIN ModifierCode : ModifierCode[m] = raw}
      lock  == {l \in Lock : ~ext /\ press /\ LockCode[l] = raw}
  IN  CASE raw = E0 -> [d EXCEPT !.ext_prefix = TRUE]
        [] raw = F0 -> [d EXCEPT !.break_prefix = TRUE]
        [] OTHER    -> [mods  |-> IF press THEN d.mods \cup mod ELSE d.mods \ mod,
                        locks |-> (d.locks \cup lock) \ (d.locks \cap lock),
                        break_prefix |-> FALSE, ext_prefix |-> FALSE]

\* ps2_dec_feed returns 1: a code it knows, without the prefixes.
DecKnown(d, raw) ==
  /\ raw \notin {E0, F0}
  /\ IF d.ext_prefix
     THEN raw \in EXTENDED \cup {ExtModifierCode[m] : m \in DOMAIN ExtModifierCode}
     ELSE raw \in LETTERS \cup SHIFTED \cup PLAIN \cup KEYPAD \cup FKEYS
                \cup {ModifierCode[m] : m \in DOMAIN ModifierCode} \cup {LockCode[l] : l \in Lock}

\* ps2_dec_feed: the character of the key that goes down with this byte, if any.
DecChar(d, raw) ==
  IF raw \in {E0, F0} \/ d.break_prefix THEN {}
  ELSE {c \in {Ascii(raw, d.ext_prefix, d.mods, d.locks)} : c.as # "none"}
=============================================================================
