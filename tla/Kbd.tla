-------------------------------- MODULE Kbd ---------------------------------
(***************************************************************************)
(* The keyboard (kbd.c, kbd.h): kbdgetc, which turns the bytes of a key's  *)
(* going down and up into characters, and remembers the modifiers and the  *)
(* 0xE0 that comes before some keys from one interrupt to the next.        *)
(***************************************************************************)
EXTENDS Integers, Sequences, FiniteSets

CONSTANTS
  Pressed,       \* the keys of the keyboard that are used
  MaxWire        \* bytes the controller holds

\* Keys: their code, and whether 0xE0 comes before it.  The last is the shift
\* that keyboards send with some keys of the second kind, which is not one.
Key == [lshift |-> <<42, FALSE>>, rshift |-> <<54, FALSE>>, lctl |-> <<29, FALSE>>,
        rctl |-> <<29, TRUE>>, caps |-> <<58, FALSE>>, a |-> <<30, FALSE>>,
        eight |-> <<72, FALSE>>, up |-> <<72, TRUE>>, fake |-> <<42, TRUE>>]
Modifies == [SHIFT |-> {"lshift", "rshift"}, CTL |-> {"lctl", "rctl"}]

KbdConstants == Pressed \subseteq DOMAIN Key /\ MaxWire > 1

VARIABLES
  shift,         \* kbdgetc's state: the bits that are set
  wire,          \* bytes not read yet, each with the key it is of
  down,          \* keys that are down
  twice,         \* modifiers of which two keys were down since none was
  capsOn,        \* whether an odd number of caps lock codes has been sent
  got            \* the key and the character that kbdgetc has just returned

vars == <<shift, wire, down, twice, capsOn, got>>

NO == "NO"
Nothing == <<NO, NO>>

Init ==
  /\ shift = {} /\ wire = <<>> /\ down = {} /\ twice = {} /\ capsOn = FALSE
  /\ got = Nothing

-----------------------------------------------------------------------------
(* kbd.h *)

shiftcode(d) ==
  CASE d \in {29, 157} -> {"CTL"} [] d \in {42, 54} -> {"SHIFT"}
    [] d \in {56, 184} -> {"ALT"} [] OTHER -> {}
togglecode(d) ==
  CASE d = 58 -> {"CAPSLOCK"} [] d = 69 -> {"NUMLOCK"} [] d = 70 -> {"SCROLLLOCK"}
    [] OTHER -> {}

\* normalmap, shiftmap and ctlmap, for the codes of the keys above.
normalmap(d) == CASE d = 30 -> "a" [] d = 72 -> "8" [] d = 200 -> "KEY_UP" [] OTHER -> NO
shiftmap(d) == CASE d = 30 -> "A" [] d = 72 -> "8" [] d = 200 -> "KEY_UP" [] OTHER -> NO
ctlmap(d) == CASE d = 30 -> "^A" [] d = 200 -> "KEY_UP" [] OTHER -> NO

-----------------------------------------------------------------------------
(* kbdgetc *)

charcode(s, d) ==
  IF "CTL" \in s THEN ctlmap(d) ELSE IF "SHIFT" \in s THEN shiftmap(d) ELSE normalmap(d)

Caps(s, c) ==
  IF "CAPSLOCK" \notin s THEN c
  ELSE CASE c = "a" -> "A" [] c = "A" -> "a" [] OTHER -> c

Xor(S, T) == (S \ T) \cup (T \ S)

\* Fault: 0xE0 is remembered after the key has gone up.
AfterUpFault(d) == shift \ shiftcode(d)

\* The code of a key that has gone up.
UpCode(data) == IF "E0ESC" \in shift THEN data ELSE data - 128

AfterUp(d) == shift \ (shiftcode(d) \cup {"E0ESC"})

kbdgetc ==
  LET data == Head(wire)[1]
      d == IF "E0ESC" \in shift THEN data + 128 ELSE data
      s == Xor((shift \ {"E0ESC"}) \cup shiftcode(d), togglecode(d))
  IN /\ wire # <<>> /\ wire' = Tail(wire)
     /\ \/ data = 224 /\ shift' = shift \cup {"E0ESC"} /\ got' = Nothing
        \/ data # 224 /\ data >= 128 /\ shift' = AfterUp(UpCode(data)) /\ got' = Nothing
        \/ data < 128 /\ shift' = s /\ got' = <<Head(wire)[2], Caps(s, charcode(s, d))>>
     /\ UNCHANGED <<down, twice, capsOn>>

-----------------------------------------------------------------------------
(* The keyboard *)

Bytes(k, up) ==
  LET code == <<Key[k][1] + (IF up THEN 128 ELSE 0), k>>
  IN IF Key[k][2] THEN <<<<224, k>>, code>> ELSE <<code>>

Held(m, keys) == Modifies[m] \cap keys
Twice(keys) ==
  {m \in DOMAIN Modifies : \/ Cardinality(Held(m, keys)) = 2
                           \/ m \in twice /\ Held(m, keys) # {}}

\* A key goes down, or repeats.
Press(k) ==
  /\ Len(wire) + Len(Bytes(k, FALSE)) <= MaxWire /\ wire' = wire \o Bytes(k, FALSE)
  /\ down' = down \cup {k} /\ twice' = Twice(down')
  /\ capsOn' = IF k = "caps" THEN ~capsOn ELSE capsOn
  /\ got' = Nothing /\ UNCHANGED shift

Release(k) ==
  /\ k \in down /\ Len(wire) + Len(Bytes(k, TRUE)) <= MaxWire /\ wire' = wire \o Bytes(k, TRUE)
  /\ down' = down \ {k} /\ twice' = Twice(down')
  /\ got' = Nothing /\ UNCHANGED <<shift, capsOn>>

Next == kbdgetc \/ \E k \in Pressed : Press(k) \/ Release(k)

Spec == Init /\ [][Next]_vars

-----------------------------------------------------------------------------
(* Properties *)

\* When all bytes are read, no modifier is stuck or lost: it is set exactly when
\* a key of it is down, and caps lock when pressed an odd number of times.  (Of
\* two keys of a modifier, the first to go up clears it.)
ModifiersFollowKeys ==
  wire = <<>> =>
    /\ "E0ESC" \notin shift /\ ("CAPSLOCK" \in shift <=> capsOn)
    /\ \A m \in DOMAIN Modifies :
         /\ m \in shift => Held(m, down) # {}
         /\ m \notin shift /\ Held(m, down) # {} => m \in twice

\* No key is taken for another one: a key gives one of its own characters, also
\* when the 0xE0 before it came in an interrupt of its own.
KeyNotMistaken ==
  got[2] \in CASE got[1] = "a" -> {"a", "A", "^A"} [] got[1] = "eight" -> {"8", NO}
               [] got[1] = "up" -> {"KEY_UP"} [] OTHER -> {NO}
=============================================================================
