--------------------------- MODULE ProjectsProofs ---------------------------
(***************************************************************************)
(* Proofs about Europa's registry and the orders it gives.                 *)
(*   - What users were told is lost only by a command that writes a        *)
(*     registry it read before an await, and paths and directories fit.    *)
(*   - What a user ordered arrives at canopus through Europa's payload,    *)
(*     Laniakea's arguments and canopus's parser; the three programs name  *)
(*     its run alike and no two tasks share one; its state is found again. *)
(* All of it for any characters, words, requests, repositories, categories *)
(* and environments that the assumptions of the modules allow.             *)
(***************************************************************************)
EXTENDS Projects, TLAPS, WellFoundedInduction, SequenceTheorems

-----------------------------------------------------------------------------
(* Induction for sets: the theorems with an operator parameter are out of
   reach, so that every induction below is over the set of the naturals for
   which the claim holds. *)

(* Induction over the naturals, for a set in place of a predicate. *)
LEMMA SetInduction ==
  ASSUME NEW P, 0 \in P, \A n \in Nat : n \in P => n + 1 \in P
  PROVE  \A n \in Nat : n \in P
<1> SUFFICES ASSUME NEW k \in Nat, k \notin P PROVE FALSE
  OBVIOUS
<1> DEFINE T == {n \in Nat : n \notin P}
<1>1. PICK m \in T : \A y \in T : ~(<<y, m>> \in OpToRel(<, Nat))
  <2>1. T \subseteq Nat /\ T # {}
    OBVIOUS
  <2> HIDE DEF T
  <2> QED BY <2>1, NatLessThanWellFounded, WFMin
<1>2. m # 0
  BY DEF T
<1>3. m - 1 \in T
  BY <1>2
<1>4. <<m - 1, m>> \in OpToRel(<, Nat)
  BY <1>2 DEF OpToRel
<1> QED BY <1>1, <1>3, <1>4

(* The same up to a bound. *)
LEMMA UpTo ==
  ASSUME NEW P, NEW n \in Nat, 0 \in P, \A i \in 1 .. n : i - 1 \in P => i \in P
  PROVE  \A i \in 0 .. n : i \in P
<1> DEFINE Q == {i \in Nat : i <= n => i \in P}
<1>1. 0 \in Q
  OBVIOUS
<1>2. \A i \in Nat : i \in Q => i + 1 \in Q
  <2> SUFFICES ASSUME NEW i \in Nat, i \in Q, i + 1 <= n PROVE i + 1 \in P
    OBVIOUS
  <2>1. i \in P /\ i + 1 \in 1 .. n /\ (i + 1) - 1 = i
    OBVIOUS
  <2> QED BY <2>1
<1> HIDE DEF Q
<1>3. \A i \in Nat : i \in Q
  BY <1>1, <1>2, SetInduction
<1> QED BY <1>3 DEF Q

(* What is computed step by step from a base exists. *)
LEMMA RecursionExists ==
  ASSUME NEW S, NEW base \in S, NEW n \in Nat, NEW step \in [1 .. n -> [S -> S]]
  PROVE  \E f \in [0 .. n -> S] :
           f[0] = base /\ \A i \in 1 .. n : f[i] = step[i][f[i - 1]]
<1> DEFINE Rec(f, k) == f = [i \in 0 .. k |-> IF i = 0 THEN base ELSE step[i][f[i - 1]]]
           Q(k) == \E f \in [0 .. k -> S] : Rec(f, k)
           P == {k \in Nat : Q(k)}
<1>1. Q(0)
  <2> DEFINE f == [i \in 0 .. 0 |-> base]
  <2>1. f \in [0 .. 0 -> S] /\ Rec(f, 0)
    OBVIOUS
  <2> QED BY <2>1
<1>2. ASSUME NEW k \in Nat, Q(k), k + 1 <= n
      PROVE  Q(k + 1)
  <2>1. PICK g \in [0 .. k -> S] : Rec(g, k)
    BY <1>2
  <2> DEFINE f == [i \in 0 .. (k + 1) |-> IF i = k + 1 THEN step[k + 1][g[k]] ELSE g[i]]
  <2>2. f \in [0 .. (k + 1) -> S]
    <3>1. step[k + 1][g[k]] \in S
      BY <1>2
    <3> QED BY <3>1
  <2>3. \A i \in 0 .. (k + 1) : f[i] = IF i = 0 THEN base ELSE step[i][f[i - 1]]
    <3> TAKE i \in 0 .. (k + 1)
    <3>1. CASE i = k + 1
      BY <3>1
    <3>2. CASE i # k + 1
      <4>1. f[i] = g[i] /\ (i # 0 => f[i - 1] = g[i - 1])
        BY <3>2
      <4>2. g[i] = IF i = 0 THEN base ELSE step[i][g[i - 1]]
        BY <2>1, <3>2
      <4> HIDE DEF f
      <4> QED BY <4>1, <4>2, <3>2
    <3> QED BY <3>1, <3>2
  <2> QED BY <2>2, <2>3
<1> HIDE DEF Rec, Q
<1>3. \A i \in 0 .. n : i \in P
  <2>1. 0 \in P
    BY <1>1
  <2>2. \A i \in 1 .. n : i - 1 \in P => i \in P
    <3> SUFFICES ASSUME NEW i \in 1 .. n, Q(i - 1) PROVE Q(i)
      OBVIOUS
    <3>1. i - 1 \in Nat /\ (i - 1) + 1 = i
      OBVIOUS
    <3>2. Q((i - 1) + 1)
      BY <1>2, <3>1
    <3> QED BY <3>1, <3>2
  <2> HIDE DEF P
  <2> QED BY <2>1, <2>2, UpTo
<1>4. PICK f \in [0 .. n -> S] : Rec(f, n)
  BY <1>3 DEF Q
<1>5. \A i \in 0 .. n : f[i] = IF i = 0 THEN base ELSE step[i][f[i - 1]]
  BY <1>4 DEF Rec
<1>6. f[0] = base /\ \A i \in 1 .. n : f[i] = step[i][f[i - 1]]
  BY <1>5
<1> QED BY <1>6

-----------------------------------------------------------------------------
(* Names of runs: what the sanitizers push, and their mirror image. *)

(* A word is a character of its own, and so is its lower case. *)
LEMMA Words ==
  \A w \in DOMAIN Lowercase :
    /\ w \in Characters /\ Lowercase[w] \in DOMAIN Lowercase
    /\ Lowercase[w] \in Characters /\ w \notin Separators /\ Lowercase[w] \notin Separators
BY LowercaseAssumption

(* Every string is a character. *)
LEMMA Strings == "-" \in Characters
BY LowercaseAssumption DEF Separators

(* The three things that may happen to a character. *)
LEMMA PushCharacterIs ==
  \A id, ch :
    /\ ch \in DOMAIN Lowercase => PushCharacter(id, ch) = Append(id, Lowercase[ch])
    /\ ch \notin DOMAIN Lowercase =>
         PushCharacter(id, ch) = IF ch \in Separators /\ id # <<>> /\ Last(id) # "-"
                                 THEN Append(id, "-") ELSE id
BY Words DEF PushCharacter

(* What the sanitizers make: lower-case words and dashes. *)
RunName == Seq(DOMAIN Lowercase \cup {"-"})

(* A character is pushed, made a dash, or dropped. *)
LEMMA PushCharacterType ==
  ASSUME NEW id \in RunName, NEW ch
  PROVE  PushCharacter(id, ch) \in RunName
<1>1. CASE ch \in DOMAIN Lowercase
  BY <1>1, Words, PushCharacterIs DEF RunName
<1>2. CASE ch \notin DOMAIN Lowercase
  BY <1>2, PushCharacterIs DEF RunName
<1> QED BY <1>1, <1>2

(* The name after each character follows from the one before. *)
LEMMA PushedUnfolds ==
  ASSUME NEW text \in Text
  PROVE  /\ Pushed(text) \in [0 .. Len(text) -> RunName]
         /\ Pushed(text)[0] = <<>>
         /\ \A i \in 1 .. Len(text) : Pushed(text)[i] = PushCharacter(Pushed(text)[i - 1], text[i])
<1> DEFINE n == Len(text)
           base == <<>>
           step == [i \in 1 .. n |-> [id \in RunName |-> PushCharacter(id, text[i])]]
           Rec(f) == f = [i \in 0 .. n |-> IF i = 0 THEN base ELSE PushCharacter(f[i - 1], text[i])]
<1>1. n \in Nat /\ base \in RunName
  BY DEF Text, RunName
<1>2. step \in [1 .. n -> [RunName -> RunName]]
  BY <1>1, PushCharacterType
<1>3. PICK f \in [0 .. n -> RunName] : f[0] = base /\ \A i \in 1 .. n : f[i] = step[i][f[i - 1]]
  <2> HIDE DEF step, n, base
  <2> QED BY <1>1, <1>2, RecursionExists
<1>4. Rec(f)
  <2> HIDE DEF n
  <2>1. \A i \in 1 .. n : f[i] = PushCharacter(f[i - 1], text[i])
    <3> TAKE i \in 1 .. n
    <3>1. f[i - 1] \in RunName /\ f[i] = step[i][f[i - 1]]
      <4> HIDE DEF step
      <4> QED BY <1>1, <1>3
    <3> QED BY <3>1
  <2> QED BY <1>1, <1>3, <2>1
<1>5. Pushed(text) = CHOOSE x : Rec(x)
  BY DEF Pushed
<1> DEFINE g == Pushed(text)
<1>6. Rec(g)
  <2> HIDE DEF Rec
  <2> QED BY <1>4, <1>5
<1>7. /\ g[0] = base
      /\ \A i \in 1 .. n : g[i] = PushCharacter(g[i - 1], text[i])
      /\ g = [i \in 0 .. n |-> g[i]]
  <2> HIDE DEF n
  <2> QED BY <1>1, <1>6
<1>8. \A i \in 0 .. n : g[i] \in RunName
  <2> DEFINE P == {i \in 0 .. n : g[i] \in RunName}
  <2> HIDE DEF n, g, base
  <2>1. 0 \in P
    BY <1>1, <1>7
  <2>2. \A i \in 1 .. n : i - 1 \in P => i \in P
    <3> SUFFICES ASSUME NEW i \in 1 .. n, g[i - 1] \in RunName PROVE g[i] \in RunName
      BY <1>1
    <3>1. g[i] = PushCharacter(g[i - 1], text[i])
      BY <1>7
    <3> QED BY <3>1, PushCharacterType
  <2> HIDE DEF P
  <2>3. \A i \in 0 .. n : i \in P
    BY <1>1, <2>1, <2>2, UpTo
  <2> QED BY <2>3 DEF P
<1> HIDE DEF g
<1> QED BY <1>7, <1>8 DEF g

(* The mirror in Europa, one character. *)
LEMMA MirrorCharacterIs ==
  \A s, ch :
    /\ ch \in DOMAIN Lowercase =>
         MirrorCharacter(s, ch) = [out |-> Append(s.out, Lowercase[ch]), dash |-> FALSE]
    /\ ch \notin DOMAIN Lowercase =>
         MirrorCharacter(s, ch) = IF ch \in Separators /\ s.out # <<>> /\ ~s.dash
                                  THEN [out |-> Append(s.out, "-"), dash |-> TRUE] ELSE s
BY Words DEF MirrorCharacter

Mirror == [out : RunName, dash : BOOLEAN]

(* Mirroring a character keeps the name a name, with the dash still to come. *)
LEMMA MirrorCharacterType ==
  ASSUME NEW s \in Mirror, NEW ch
  PROVE  MirrorCharacter(s, ch) \in Mirror
<1>1. s.out \in RunName
  BY DEF Mirror
<1>2. \A x \in DOMAIN Lowercase \cup {"-"} : Append(s.out, x) \in RunName
  BY <1>1 DEF RunName
<1>3. CASE ch \in DOMAIN Lowercase
  <2>1. Append(s.out, Lowercase[ch]) \in RunName
    BY <1>2, <1>3, Words
  <2>2. MirrorCharacter(s, ch) = [out |-> Append(s.out, Lowercase[ch]), dash |-> FALSE]
    BY <1>3, MirrorCharacterIs
  <2>3. [out |-> Append(s.out, Lowercase[ch]), dash |-> FALSE] \in Mirror
    BY <2>1, Zenon DEF Mirror
  <2> QED BY <2>2, <2>3
<1>4. CASE ch \notin DOMAIN Lowercase
  <2>1. Append(s.out, "-") \in RunName
    BY <1>2
  <2>2. MirrorCharacter(s, ch) = s \/ MirrorCharacter(s, ch) = [out |-> Append(s.out, "-"), dash |-> TRUE]
    BY <1>4, MirrorCharacterIs
  <2>3. [out |-> Append(s.out, "-"), dash |-> TRUE] \in Mirror
    BY <2>1, Zenon DEF Mirror
  <2> QED BY <2>2, <2>3
<1> QED BY <1>3, <1>4

(* What the mirror holds after each character. *)
LEMMA MirroredUnfolds ==
  ASSUME NEW text \in Text
  PROVE  /\ Mirrored(text) \in [0 .. Len(text) -> Mirror]
         /\ Mirrored(text)[0] = [out |-> <<>>, dash |-> FALSE]
         /\ \A i \in 1 .. Len(text) :
              Mirrored(text)[i] = MirrorCharacter(Mirrored(text)[i - 1], text[i])
<1> DEFINE n == Len(text)
           base == [out |-> <<>>, dash |-> FALSE]
           step == [i \in 1 .. n |-> [s \in Mirror |-> MirrorCharacter(s, text[i])]]
           Rec(f) == f = [i \in 0 .. n |-> IF i = 0 THEN base ELSE MirrorCharacter(f[i - 1], text[i])]
<1>1. n \in Nat /\ base \in Mirror
  BY DEF Text, RunName, Mirror
<1>2. step \in [1 .. n -> [Mirror -> Mirror]]
  BY <1>1, MirrorCharacterType
<1>3. PICK f \in [0 .. n -> Mirror] : f[0] = base /\ \A i \in 1 .. n : f[i] = step[i][f[i - 1]]
  <2> HIDE DEF step, n, base
  <2> QED BY <1>1, <1>2, RecursionExists
<1>4. Rec(f)
  <2> HIDE DEF n, base
  <2>1. \A i \in 1 .. n : f[i] = MirrorCharacter(f[i - 1], text[i])
    <3> TAKE i \in 1 .. n
    <3>1. f[i - 1] \in Mirror /\ f[i] = step[i][f[i - 1]]
      <4> HIDE DEF step
      <4> QED BY <1>1, <1>3
    <3> QED BY <3>1
  <2> QED BY <1>1, <1>3, <2>1
<1>5. Mirrored(text) = CHOOSE x : Rec(x)
  BY DEF Mirrored
<1> DEFINE g == Mirrored(text)
<1>6. Rec(g)
  <2> HIDE DEF Rec
  <2> QED BY <1>4, <1>5
<1>7. /\ g[0] = base
      /\ \A i \in 1 .. n : g[i] = MirrorCharacter(g[i - 1], text[i])
      /\ g = [i \in 0 .. n |-> g[i]]
  <2> HIDE DEF n, base
  <2> QED BY <1>1, <1>6
<1>8. \A i \in 0 .. n : g[i] \in Mirror
  <2> DEFINE P == {i \in 0 .. n : g[i] \in Mirror}
  <2> HIDE DEF n, g, base
  <2>1. 0 \in P
    BY <1>1, <1>7
  <2>2. \A i \in 1 .. n : i - 1 \in P => i \in P
    <3> SUFFICES ASSUME NEW i \in 1 .. n, g[i - 1] \in Mirror PROVE g[i] \in Mirror
      BY <1>1
    <3>1. g[i] = MirrorCharacter(g[i - 1], text[i])
      BY <1>7
    <3> QED BY <3>1, MirrorCharacterType
  <2> HIDE DEF P
  <2>3. \A i \in 0 .. n : i \in P
    BY <1>1, <2>1, <2>2, UpTo
  <2> QED BY <2>3 DEF P
<1> HIDE DEF g
<1> QED BY <1>7, <1>8 DEF g

(* The flag is up exactly when the name ends in a dash, so that both programs
   make the same name (run_identity.rs 21-58, payloads.py 39-58). *)
LEMMA MirrorAgrees ==
  ASSUME NEW text \in Text
  PROVE  \A i \in 0 .. Len(text) : Mirrored(text)[i].out = Pushed(text)[i]
<1> DEFINE n == Len(text)
           p == Pushed(text)
           m == Mirrored(text)
           Same(i) == m[i].out = p[i] /\ (p[i] # <<>> => (m[i].dash <=> Last(p[i]) = "-"))
           P == {i \in 0 .. n : Same(i)}
<1>0. n \in Nat
  BY DEF Text
<1>1. 0 \in P
  BY <1>0, PushedUnfolds, MirroredUnfolds
<1>2. \A i \in 1 .. n : i - 1 \in P => i \in P
  <2> SUFFICES ASSUME NEW i \in 1 .. n, Same(i - 1) PROVE Same(i)
    OBVIOUS
  <2> DEFINE a == p[i - 1]
             s == m[i - 1]
             ch == text[i]
  <2>1. a \in RunName /\ s \in Mirror /\ p[i] = PushCharacter(a, ch) /\ m[i] = MirrorCharacter(s, ch)
    <3>1. i \in 1 .. Len(text) /\ i - 1 \in 0 .. Len(text)
      BY <1>0
    <3>2. a \in RunName /\ p[i] = PushCharacter(a, ch)
      BY <3>1, PushedUnfolds
    <3>3. s \in Mirror /\ m[i] = MirrorCharacter(s, ch)
      BY <3>1, MirroredUnfolds
    <3> QED BY <3>2, <3>3
  <2>2. s.out = a /\ (a # <<>> => (s.dash <=> Last(a) = "-"))
    OBVIOUS
  <2> HIDE DEF a, s, ch, p, m, n
  <2>3. CASE ch \in DOMAIN Lowercase
    <3>1. p[i] = Append(a, Lowercase[ch]) /\ m[i] = [out |-> Append(a, Lowercase[ch]), dash |-> FALSE]
      BY <2>1, <2>2, <2>3, PushCharacterIs, MirrorCharacterIs
    <3>2. Last(Append(a, Lowercase[ch])) = Lowercase[ch]
      BY <2>1, <2>3, Words DEF Last, RunName
    <3>3. Lowercase[ch] # "-"
      BY <2>3, Words DEF Separators
    <3> QED BY <3>1, <3>2, <3>3
  <2>4. CASE ch \notin DOMAIN Lowercase
    <3>1. CASE ch \in Separators /\ a # <<>> /\ Last(a) # "-"
      <4>1. p[i] = Append(a, "-") /\ m[i] = [out |-> Append(a, "-"), dash |-> TRUE]
        <5>1. ch \in Separators /\ s.out # <<>> /\ ~s.dash
          BY <3>1, <2>1, <2>2 DEF Mirror
        <5> QED BY <5>1, <2>1, <2>2, <2>4, <3>1, PushCharacterIs, MirrorCharacterIs
      <4>2. Last(Append(a, "-")) = "-"
        BY <2>1 DEF Last, RunName
      <4> QED BY <4>1, <4>2
    <3>2. CASE ~(ch \in Separators /\ a # <<>> /\ Last(a) # "-")
      <4>1. p[i] = a /\ m[i] = s
        <5>1. ~(ch \in Separators /\ s.out # <<>> /\ ~s.dash)
          BY <3>2, <2>1, <2>2 DEF Mirror
        <5> QED BY <5>1, <2>1, <2>2, <2>4, <3>2, PushCharacterIs, MirrorCharacterIs
      <4> QED BY <4>1, <2>2
    <3> QED BY <3>1, <3>2
  <2> QED BY <2>3, <2>4
<1> HIDE DEF P
<1>3. \A i \in 0 .. n : i \in P
  BY <1>0, <1>1, <1>2, UpTo
<1> QED BY <1>3 DEF P

-----------------------------------------------------------------------------
(* Parts of a text, and what trimming leaves. *)

(* The least and the greatest of a set of indices. *)
LEMMA MinIs ==
  ASSUME NEW S \in SUBSET Nat, S # {}
  PROVE  Min(S) \in S /\ \A y \in S : Min(S) <= y
<1>1. PICK m \in S : \A y \in S : ~(<<y, m>> \in OpToRel(<, Nat))
  BY NatLessThanWellFounded, WFMin
<1>2. \A y \in S : m <= y
  <2> SUFFICES ASSUME NEW y \in S, y < m PROVE FALSE
    OBVIOUS
  <2>1. <<y, m>> \in OpToRel(<, Nat)
    BY DEF OpToRel
  <2> QED BY <1>1, <2>1
<1> QED BY <1>2 DEF Min

(* And the greatest of a bounded set of them. *)
LEMMA MaxIs ==
  ASSUME NEW n \in Nat, NEW S \in SUBSET (0 .. n), S # {}
  PROVE  Max(S) \in S /\ \A y \in S : y <= Max(S)
<1> DEFINE T == {i \in Nat : \E x \in S : i = n - x}
<1>1. T \in SUBSET Nat /\ T # {}
  <2>1. PICK x \in S : TRUE
    OBVIOUS
  <2>2. n - x \in T
    BY <2>1
  <2> QED BY <2>2
<1>2. PICK m \in S : n - m = Min(T)
  <2> HIDE DEF T
  <2>1. Min(T) \in T
    BY <1>1, MinIs
  <2> QED BY <2>1 DEF T
<1>3. \A y \in S : y <= m
  <2> TAKE y \in S
  <2>1. n - y \in T
    OBVIOUS
  <2> HIDE DEF T
  <2>2. Min(T) <= n - y
    BY <1>1, <2>1, MinIs
  <2> QED BY <1>2, <2>2
<1> QED BY <1>3 DEF Max

(* A part of a text. *)
Part(text, a, b) == SubSeq(text, a, b)

(* A part of a text, character by character. *)
LEMMA PartIs ==
  ASSUME NEW text \in Text, NEW a \in 1 .. Len(text), NEW b \in 1 .. Len(text), a <= b
  PROVE  /\ Part(text, a, b) \in Text
         /\ Len(Part(text, a, b)) = b - a + 1
         /\ \A i \in 1 .. b - a + 1 : Part(text, a, b)[i] = text[a + i - 1]
<1>1. a \in Int /\ b \in Int
  BY LenProperties DEF Text
<1>2. \A i \in a .. b : text[i] \in Characters
  <2>1. \A i \in a .. b : i \in 1 .. Len(text)
    BY LenProperties DEF Text
  <2> QED BY <2>1, ElementOfSeq DEF Text
<1>3. /\ SubSeq(text, a, b) \in Seq(Characters)
      /\ Len(SubSeq(text, a, b)) = IF a <= b THEN b - a + 1 ELSE 0
      /\ \A i \in 1 .. b - a + 1 : SubSeq(text, a, b)[i] = text[a + i - 1]
  BY <1>1, <1>2, SubSeqProperties
<1> QED BY <1>3 DEF Part, Text

(* A text is trimmed to what lies between two characters that are not spaces. *)
LEMMA TrimIs ==
  ASSUME NEW text \in Text, ~IsBlank(text)
  PROVE  \E a, b \in 1 .. Len(text) :
           /\ a <= b /\ Trim(text) = Part(text, a, b)
           /\ text[a] # Space /\ text[b] # Space
           /\ \A i \in 1 .. Len(text) : text[i] # Space => a <= i /\ i <= b
<1> DEFINE kept == {i \in DOMAIN text : text[i] # Space}
<1>1. Len(text) \in Nat /\ DOMAIN text = 1 .. Len(text)
  BY DEF Text
<1>2. kept # {} /\ kept \in SUBSET Nat /\ kept \in SUBSET (0 .. Len(text))
  <2>1. PICK i \in DOMAIN text : text[i] # Space
    BY DEF IsBlank
  <2>2. kept # {}
    BY <2>1
  <2>3. kept \in SUBSET DOMAIN text
    OBVIOUS
  <2> HIDE DEF kept
  <2> QED BY <1>1, <2>2, <2>3
<1>3. Trim(text) = Part(text, Min(kept), Max(kept))
  BY <1>2 DEF Trim, Part
<1> HIDE DEF kept
<1>4. Min(kept) \in kept /\ \A y \in kept : Min(kept) <= y
  BY <1>2, MinIs
<1>5. Max(kept) \in kept /\ \A y \in kept : y <= Max(kept)
  BY <1>1, <1>2, MaxIs
<1>6. /\ Min(kept) \in 1 .. Len(text) /\ Max(kept) \in 1 .. Len(text)
      /\ text[Min(kept)] # Space /\ text[Max(kept)] # Space
      /\ \A i \in 1 .. Len(text) : text[i] # Space => i \in kept
  BY <1>1, <1>4, <1>5 DEF kept
<1>7. Min(kept) <= Max(kept)
  BY <1>4, <1>5
<1> QED BY <1>3, <1>4, <1>5, <1>6, <1>7

(* What is left of a text that is blank. *)
LEMMA TrimBlank ==
  ASSUME NEW text, IsBlank(text)
  PROVE  Trim(text) = <<>>
BY DEF Trim, IsBlank

(* What is left of one that is not: a text without a space at its ends. *)
LEMMA TrimText ==
  ASSUME NEW text \in Text, ~IsBlank(text)
  PROVE  LET trimmed == Trim(text)
             n == Len(trimmed)
         IN /\ trimmed \in Text /\ trimmed # <<>> /\ n \in Nat \ {0}
            /\ trimmed[1] # Space /\ trimmed[n] # Space
            /\ text[1] # Space => trimmed[1] = text[1]
            /\ text[Len(text)] # Space => trimmed[n] = text[Len(text)]
<1>1. PICK a, b \in 1 .. Len(text) :
         /\ a <= b /\ Trim(text) = Part(text, a, b)
         /\ text[a] # Space /\ text[b] # Space
         /\ \A i \in 1 .. Len(text) : text[i] # Space => a <= i /\ i <= b
  BY TrimIs
<1>2. Len(text) \in Nat \ {0} /\ a \in 1 .. Len(text) /\ b \in 1 .. Len(text)
  BY LenProperties DEF Text
<1> DEFINE trimmed == Part(text, a, b)
           n == Len(trimmed)
<1>4. /\ trimmed \in Text /\ Len(trimmed) = b - a + 1
      /\ \A i \in 1 .. b - a + 1 : trimmed[i] = text[a + i - 1]
  BY <1>1, <1>2, PartIs
<1> HIDE DEF trimmed
<1>5. n \in Nat \ {0} /\ trimmed # <<>>
  BY <1>1, <1>2, <1>4
<1>6. trimmed[1] = text[a] /\ trimmed[n] = text[b]
  BY <1>1, <1>2, <1>4
<1>7. text[1] # Space => a = 1
  BY <1>1, <1>2
<1>8. text[Len(text)] # Space => b = Len(text)
  BY <1>1, <1>2
<1>9. Trim(text) = trimmed
  BY <1>1 DEF trimmed
<1> QED BY <1>1, <1>4, <1>5, <1>6, <1>7, <1>8, <1>9 DEF Text

(* Either way it is a text, and only a blank one has nothing left. *)
LEMMA TrimType ==
  ASSUME NEW text \in Text
  PROVE  Trim(text) \in Text /\ (Trim(text) = <<>> <=> IsBlank(text))
<1>1. CASE IsBlank(text)
  BY <1>1, TrimBlank, EmptySeq DEF Text
<1>2. CASE ~IsBlank(text)
  BY <1>2, TrimText
<1> QED BY <1>1, <1>2

-----------------------------------------------------------------------------
(* canopus and europa make one name of a text; its first and last word. *)

(* A space is no word and no dash. *)
LEMMA SpaceIs == Space # "-" /\ Space \notin DOMAIN Lowercase /\ "-" \notin DOMAIN Lowercase
<1>1. Space # "-"
  BY Zenon DEF Space
<1>2. Space \in Separators /\ "-" \in Separators
  BY DEF Separators
<1> QED BY <1>1, <1>2, Words

(* canopus and europa make the same name of any text (run_identity.rs 21-58,
   payloads.py 39-58). *)
LEMMA SanitizersAgree ==
  ASSUME NEW raw \in Text
  PROVE  _sanitize_run_identity(raw) = sanitize_run_identity(raw)
<1>1. Trim(raw) \in Text
  BY TrimType
<1>2. Len(Trim(raw)) \in 0 .. Len(Trim(raw))
  BY <1>1, LenProperties DEF Text
<1>3. Mirrored(Trim(raw))[Len(Trim(raw))].out = Pushed(Trim(raw))[Len(Trim(raw))]
  BY <1>1, <1>2, MirrorAgrees
<1> QED BY <1>3 DEF sanitize_run_identity, _sanitize_run_identity

(* Without its last dash a name is a name, and keeps what is not a dash. *)
LEMMA WithoutDashIs ==
  ASSUME NEW id \in RunName
  PROVE  /\ WithoutDash(id) \in RunName
         /\ id # <<>> /\ Last(id) # "-" => WithoutDash(id) = id
         /\ id # <<>> /\ id[1] # "-" => WithoutDash(id) # <<>>
<1>1. CASE id # <<>> /\ Last(id) = "-"
  <2>1. Len(id) \in Nat \ {0}
    BY <1>1, EmptySeq DEF RunName
  <2>2. \A i \in 1 .. Len(id) - 1 : id[i] \in DOMAIN Lowercase \cup {"-"}
    BY <2>1, ElementOfSeq DEF RunName
  <2> DEFINE front == SubSeq(id, 1, Len(id) - 1)
  <2>3. front \in RunName /\ Len(front) = IF 1 <= Len(id) - 1 THEN Len(id) - 1 - 1 + 1 ELSE 0
    BY <2>1, <2>2, SubSeqProperties DEF RunName
  <2>4. id[1] # "-" => Len(id) # 1
    BY <1>1 DEF Last
  <2>5. WithoutDash(id) = front
    BY <1>1, Zenon DEF WithoutDash, Front
  <2> HIDE DEF front
  <2>6. id[1] # "-" => Len(front) # 0
    <3> DEFINE n == Len(id)
    <3>1. n \in Nat \ {0}
      BY <2>1
    <3>2. id[1] # "-" => n # 1
      BY <2>4
    <3>3. Len(front) = IF 1 <= n - 1 THEN n - 1 - 1 + 1 ELSE 0
      BY <2>3
    <3> HIDE DEF n
    <3> QED BY <3>1, <3>2, <3>3
  <2>7. id[1] # "-" => front # <<>>
    BY <2>6, EmptySeq
  <2> QED BY <1>1, <2>3, <2>5, <2>7
<1>2. CASE ~(id # <<>> /\ Last(id) = "-")
  BY <1>2 DEF WithoutDash
<1> QED BY <1>1, <1>2

(* A text that begins with a word makes a name that begins with it. *)
LEMMA PushedFirst ==
  ASSUME NEW text \in Text, text # <<>>, text[1] \in DOMAIN Lowercase
  PROVE  \A i \in 1 .. Len(text) : Pushed(text)[i] # <<>> /\ Pushed(text)[i][1] # "-"
<1> DEFINE n == Len(text)
           p == Pushed(text)
           Q(i) == i = 0 \/ (p[i] # <<>> /\ p[i][1] # "-")
           P == {i \in 0 .. n : Q(i)}
<1>1. n \in Nat \ {0}
  BY EmptySeq DEF Text
<1>2. \A i \in 1 .. n : p[i - 1] \in RunName /\ p[i] = PushCharacter(p[i - 1], text[i])
  <2> TAKE i \in 1 .. n
  <2>1. i \in 1 .. Len(text) /\ i - 1 \in 0 .. Len(text)
    BY <1>1
  <2> QED BY <2>1, PushedUnfolds
<1>3. p[0] = <<>>
  BY PushedUnfolds
<1> HIDE DEF n, p
<1>4. 0 \in P
  BY <1>1
<1>5. \A i \in 1 .. n : i - 1 \in P => i \in P
  <2> SUFFICES ASSUME NEW i \in 1 .. n, Q(i - 1) PROVE Q(i)
    BY <1>1
  <2>1. CASE i = 1
    <3>1. p[1] = Append(<<>>, Lowercase[text[1]])
      BY <1>2, <1>3, <2>1, PushCharacterIs
    <3>2. Lowercase[text[1]] # "-"
      BY Words, SpaceIs
    <3> QED BY <2>1, <3>1, <3>2
  <2>2. CASE i # 1
    <3> DEFINE a == p[i - 1]
    <3>1. a \in RunName /\ a # <<>> /\ a[1] # "-"
      BY <1>2, <2>2
    <3>2. p[i] = a \/ \E x \in DOMAIN Lowercase \cup {"-"} : p[i] = Append(a, x)
      BY <1>2, Words, PushCharacterIs
    <3> HIDE DEF a
    <3>3. \A x \in DOMAIN Lowercase \cup {"-"} : Append(a, x) # <<>> /\ Append(a, x)[1] = a[1]
      BY <3>1, EmptySeq DEF RunName
    <3> QED BY <3>1, <3>2, <3>3
  <2> QED BY <2>1, <2>2
<1> HIDE DEF P
<1>6. \A i \in 0 .. n : i \in P
  BY <1>1, <1>4, <1>5, UpTo
<1>7. \A i \in 1 .. n : p[i] # <<>> /\ p[i][1] # "-"
  <2> TAKE i \in 1 .. n
  <2>1. i \in 0 .. n /\ i # 0
    BY <1>1
  <2> QED BY <1>6, <2>1 DEF P
<1> QED BY <1>7 DEF n, p

(* A name is made of words and dashes. *)
LEMMA SanitizedType ==
  ASSUME NEW raw \in Text
  PROVE  sanitize_run_identity(raw) \in RunName
<1>1. Trim(raw) \in Text
  BY TrimType
<1>2. Len(Trim(raw)) \in 0 .. Len(Trim(raw))
  BY <1>1, LenProperties DEF Text
<1>3. Pushed(Trim(raw))[Len(Trim(raw))] \in RunName
  BY <1>1, <1>2, PushedUnfolds
<1> QED BY <1>3, WithoutDashIs DEF sanitize_run_identity

(* A text that begins with a word has a name. *)
LEMMA SanitizedFirst ==
  ASSUME NEW raw \in Text, raw # <<>>, raw[1] \in DOMAIN Lowercase
  PROVE  sanitize_run_identity(raw) # <<>>
<1>1. raw[1] # Space /\ Len(raw) \in Nat \ {0}
  BY SpaceIs, EmptySeq DEF Text
<1>2. ~IsBlank(raw)
  BY <1>1 DEF IsBlank, Text
<1> DEFINE text == Trim(raw)
<1>3. text \in Text /\ text # <<>> /\ Len(text) \in Nat \ {0} /\ text[1] = raw[1]
  BY <1>1, <1>2, TrimText
<1> HIDE DEF text
<1>4. Len(text) \in 1 .. Len(text) /\ Len(text) \in 0 .. Len(text)
  BY <1>3
<1>5. Pushed(text)[Len(text)] # <<>> /\ Pushed(text)[Len(text)][1] # "-"
  BY <1>3, <1>4, PushedFirst
<1>6. Pushed(text)[Len(text)] \in RunName
  BY <1>3, <1>4, PushedUnfolds
<1> QED BY <1>5, <1>6, WithoutDashIs DEF sanitize_run_identity, text

(* A text that ends with a word has a name that ends with it. *)
LEMMA SanitizedLast ==
  ASSUME NEW raw \in Text, raw # <<>>, raw[Len(raw)] \in DOMAIN Lowercase
  PROVE  Last(sanitize_run_identity(raw)) = Lowercase[raw[Len(raw)]]
<1> DEFINE w == raw[Len(raw)]
<1>1. w # Space /\ Len(raw) \in Nat \ {0} /\ Lowercase[w] # "-"
  BY SpaceIs, Words, EmptySeq DEF Text
<1>2. ~IsBlank(raw)
  BY <1>1 DEF IsBlank, Text
<1> DEFINE text == Trim(raw)
           n == Len(text)
<1>3. text \in Text /\ n \in Nat \ {0} /\ text[n] = w
  BY <1>1, <1>2, TrimText
<1> HIDE DEF text, w
<1>4. n \in 1 .. n /\ n - 1 \in 0 .. n /\ n \in 0 .. n
  BY <1>3
<1>5. /\ Pushed(text)[n - 1] \in RunName /\ Pushed(text)[n] \in RunName
      /\ Pushed(text)[n] = PushCharacter(Pushed(text)[n - 1], text[n])
  BY <1>3, <1>4, PushedUnfolds
<1>6. Pushed(text)[n] = Append(Pushed(text)[n - 1], Lowercase[w])
  BY <1>3, <1>5, PushCharacterIs DEF w
<1>7. Pushed(text)[n] # <<>> /\ Last(Pushed(text)[n]) = Lowercase[w]
  <2> DEFINE a == Pushed(text)[n - 1]
  <2>1. Lowercase[w] \in DOMAIN Lowercase \cup {"-"}
    BY Words DEF w
  <2> HIDE DEF a
  <2>2. Append(a, Lowercase[w]) # <<>> /\ Last(Append(a, Lowercase[w])) = Lowercase[w]
    BY <1>5, <2>1 DEF a, RunName, Last
  <2> QED BY <1>6, <2>2 DEF a
<1>8. WithoutDash(Pushed(text)[n]) = Pushed(text)[n]
  BY <1>1, <1>5, <1>7, WithoutDashIs
<1> QED BY <1>7, <1>8 DEF sanitize_run_identity, text, w

-----------------------------------------------------------------------------
(* The texts that tasks, projects, intakes and the environment hold. *)

(* Texts put together are texts. *)
LEMMA Joined ==
  ASSUME NEW a \in Text, NEW b \in Text
  PROVE  /\ a \o b \in Text /\ Len(a \o b) = Len(a) + Len(b)
         /\ \A i \in 1 .. Len(a) : (a \o b)[i] = a[i]
         /\ \A i \in 1 .. Len(b) : (a \o b)[Len(a) + i] = b[i]
<1>1. Len(a) \in Nat /\ Len(b) \in Nat
  BY LenProperties DEF Text
<1>2. /\ a \o b \in Seq(Characters) /\ Len(a \o b) = Len(a) + Len(b)
      /\ \A i \in 1 .. Len(a) + Len(b) : (a \o b)[i] = IF i <= Len(a) THEN a[i] ELSE b[i - Len(a)]
  BY ConcatProperties DEF Text
<1> DEFINE c == a \o b
<1> HIDE DEF c
<1>3. \A i \in 1 .. Len(a) + Len(b) : c[i] = IF i <= Len(a) THEN a[i] ELSE b[i - Len(a)]
  BY <1>2 DEF c
<1>4. \A i \in 1 .. Len(a) : c[i] = a[i]
  BY <1>1, <1>3
<1>5. \A i \in 1 .. Len(b) : c[Len(a) + i] = b[i]
  <2> TAKE i \in 1 .. Len(b)
  <2>1. Len(a) + i \in 1 .. Len(a) + Len(b) /\ ~(Len(a) + i <= Len(a)) /\ (Len(a) + i) - Len(a) = i
    BY <1>1
  <2> QED BY <1>3, <2>1
<1> QED BY <1>2, <1>4, <1>5 DEF c, Text

(* Short texts of the programs' own words. *)
LEMMA OwnTexts ==
  /\ <<"-">> \in Text /\ <<"gh", "-">> \in Text /\ <<"agenda", "-">> \in Text /\ <<>> \in Text
  /\ \A c \in Characters : <<"discord", "-", c>> \in Text
<1>1. {"-", "gh", "agenda", "discord"} \subseteq Characters
  BY LowercaseAssumption, WordsAssumption DEF Separators
<1> QED BY <1>1 DEF Text

(* A name is a text without a space. *)
LEMMA NameIsText ==
  ASSUME NEW id \in RunName
  PROVE  id \in Text /\ (id # <<>> => ~IsBlank(id))
<1>1. id \in Text
  <2>1. DOMAIN Lowercase \cup {"-"} \subseteq Characters
    BY Words, Strings
  <2> QED BY <2>1, SeqMonotonic DEF RunName, Text
<1>2. ASSUME id # <<>> PROVE ~IsBlank(id)
  <2>1. 1 \in 1 .. Len(id) /\ DOMAIN id = 1 .. Len(id)
    BY <1>2, EmptySeq, LenProperties DEF RunName
  <2>2. id[1] \in DOMAIN Lowercase \cup {"-"}
    BY <2>1, ElementOfSeq DEF RunName
  <2> QED BY <2>1, <2>2, SpaceIs DEF IsBlank
<1> QED BY <1>1, <1>2

(* A task id is a text that ends with its word. *)
LEMMA TaskIdIs ==
  ASSUME NEW t \in TaskTexts
  PROVE  /\ t \in Text /\ ~IsBlank(t) /\ Len(t) = 3 /\ t # <<>>
         /\ t[3] \in DOMAIN Lowercase /\ Lowercase[t[3]] = t[3]
         /\ t = <<"discord", "-", t[3]>>
<1>1. PICK w \in DOMAIN Lowercase : Lowercase[w] = w /\ t = <<"discord", "-", w>>
  BY ProjectsAssumption
<1>2. t \in Text
  BY <1>1, Words, OwnTexts
<1>3. Len(t) = 3 /\ t[3] = w /\ 3 \in DOMAIN t
  BY <1>1
<1>4. ~IsBlank(t)
  BY <1>1, <1>3, SpaceIs DEF IsBlank
<1> QED BY <1>1, <1>2, <1>3, <1>4

(* A project's registration holds texts. *)
LEMMA RegistrationIs ==
  ASSUME NEW g \in Registrations \cup {<<>>}
  PROVE  /\ \A key : Field(g, key) \in Text
         /\ Field(g, "github_project_number") \in Numbers \cup {<<>>}
<1>1. \A key \in DOMAIN g : g[key] \in Text
  BY ProjectsAssumption
<1>2. "github_project_number" \in DOMAIN g => g["github_project_number"] \in Numbers
  BY ProjectsAssumption
<1> QED BY <1>1, <1>2, OwnTexts DEF Field

(* And so do a variable of the environment, and an intake. *)
LEMMA SettingIs == \A name : Setting(Env, name) \in Text
<1>1. \A name : Field(Env, name) \in Text
  BY ProjectsAssumption, OwnTexts DEF Field
<1> QED BY <1>1, TrimType DEF Setting

(* What an intake answers: at most the number of an issue. *)
LEMMA IntakeIs ==
  ASSUME NEW project, NEW intake \in Intakes(project)
  PROVE  /\ DOMAIN intake \subseteq {"github_issue_number"}
         /\ \A key : Field(intake, key) \in Text
         /\ Field(intake, "github_issue_number") \in Numbers \cup {<<>>}
<1>1. intake = <<>> \/ \E n \in Numbers : intake = [github_issue_number |-> n]
  BY DEF Intakes
<1>2. CASE intake = <<>>
  BY <1>2, OwnTexts DEF Field
<1>3. CASE \E n \in Numbers : intake = [github_issue_number |-> n]
  BY <1>3, OwnTexts, ProjectsAssumption DEF Field
<1> QED BY <1>1, <1>2, <1>3

(* The first text that two records have for a key. *)
LEMMA FirstFieldIs ==
  ASSUME NEW f, NEW g, NEW key, Field(f, key) \in Text, Field(g, key) \in Text
  PROVE  FirstField(<<f, g>>, key) \in Text
<1> DEFINE records == <<f, g>>
           having == {i \in DOMAIN records : Field(records[i], key) # <<>>}
<1>1. CASE having = {}
  BY <1>1, OwnTexts DEF FirstField
<1>2. CASE having # {}
  <2>1. having \in SUBSET Nat
    OBVIOUS
  <2>2. Min(having) \in having
    BY <1>2, <2>1, MinIs
  <2>3. Min(having) = 1 \/ Min(having) = 2
    BY <2>2
  <2>4. Field(records[Min(having)], key) \in Text
    BY <2>3
  <2> QED BY <1>2, <2>4 DEF FirstField
<1> QED BY <1>1, <1>2

(* The agenda of an order is a text with a word in it. *)
LEMMA AgendaIs ==
  ASSUME NEW t \in TaskTexts, NEW f, NEW g,
         \A key : Field(f, key) \in Text, \A key : Field(g, key) \in Text
  PROVE  /\ resolve_agenda_id(Env, t, <<f, g>>) \in Text
         /\ ~IsBlank(resolve_agenda_id(Env, t, <<f, g>>))
<1> DEFINE issue == github_issue_identity(Env, <<f, g>>)
           dash == <<"-">>
           raw == <<"gh", "-">> \o issue.owner \o dash \o issue.repo \o dash \o issue.number
<1>1. issue.owner \in Text /\ issue.repo \in Text /\ issue.number \in Text
  BY FirstFieldIs, SettingIs DEF github_issue_identity, Or
<1>2. <<"agenda", "-">> \o t \in Text /\ ~IsBlank(<<"agenda", "-">> \o t)
  <2>1. <<"agenda", "-">> \o t \in Text /\ (<<"agenda", "-">> \o t)[1] = "agenda"
        /\ Len(<<"agenda", "-">> \o t) = 2 + Len(t)
    BY Joined, OwnTexts, TaskIdIs
  <2>2. Len(t) = 3
    BY TaskIdIs
  <2> DEFINE text == <<"agenda", "-">> \o t
  <2> HIDE DEF text
  <2>3. 1 \in DOMAIN text
    BY <2>1, <2>2, LenProperties DEF text, Text
  <2>4. "agenda" # Space
    BY Zenon DEF Space
  <2>5. ~IsBlank(text)
    BY <2>1, <2>3, <2>4 DEF IsBlank, text
  <2> QED BY <2>1, <2>5 DEF text
<1>3. raw \in Text /\ raw # <<>> /\ raw[1] = "gh"
  <2> HIDE DEF issue
  <2>1. dash \in Text /\ <<"gh", "-">> \in Text
    BY OwnTexts
  <2> HIDE DEF dash
  <2> DEFINE a == <<"gh", "-">> \o issue.owner
             b == a \o dash
             c == b \o issue.repo
             d == c \o dash
             e == d \o issue.number
  <2>2. a \in Text /\ Len(a) >= 2 /\ a[1] = "gh"
    <3>1. Len(issue.owner) \in Nat /\ Len(<<"gh", "-">>) = 2 /\ <<"gh", "-">>[1] = "gh"
      BY <1>1, LenProperties DEF Text
    <3> QED BY <1>1, <2>1, <3>1, Joined
  <2> HIDE DEF a
  <2>3. \A x, y \in Text : Len(x) >= 2 /\ x[1] = "gh" =>
          x \o y \in Text /\ Len(x \o y) >= 2 /\ (x \o y)[1] = "gh"
    <3> SUFFICES ASSUME NEW x \in Text, NEW y \in Text, Len(x) >= 2, x[1] = "gh"
                 PROVE  x \o y \in Text /\ Len(x \o y) >= 2 /\ (x \o y)[1] = "gh"
      OBVIOUS
    <3>1. Len(x) \in Nat /\ Len(y) \in Nat
      BY LenProperties DEF Text
    <3> QED BY <3>1, Joined
  <2>4. b \in Text /\ Len(b) >= 2 /\ b[1] = "gh"
    BY <2>1, <2>2, <2>3
  <2> HIDE DEF b
  <2>5. c \in Text /\ Len(c) >= 2 /\ c[1] = "gh"
    BY <1>1, <2>4, <2>3
  <2> HIDE DEF c
  <2>6. d \in Text /\ Len(d) >= 2 /\ d[1] = "gh"
    BY <2>1, <2>5, <2>3
  <2> HIDE DEF d
  <2>7. e \in Text /\ Len(e) >= 2 /\ e[1] = "gh"
    BY <1>1, <2>6, <2>3
  <2>8. e # <<>>
    BY <2>7
  <2>9. raw = e
    BY DEF a, b, c, d
  <2> QED BY <2>7, <2>8, <2>9
<1>4. _sanitize_run_identity(raw) \in Text /\ ~IsBlank(_sanitize_run_identity(raw))
  <2> HIDE DEF raw
  <2>1. raw[1] \in DOMAIN Lowercase
    BY <1>3, LowercaseAssumption
  <2>2. sanitize_run_identity(raw) \in RunName /\ sanitize_run_identity(raw) # <<>>
    BY <1>3, <2>1, SanitizedType, SanitizedFirst
  <2> QED BY <1>3, <2>2, SanitizersAgree, NameIsText
<1>5. resolve_agenda_id(Env, t, <<f, g>>) = <<"agenda", "-">> \o t
      \/ resolve_agenda_id(Env, t, <<f, g>>) = _sanitize_run_identity(raw)
  <2> HIDE DEF issue
  <2> QED BY Zenon DEF resolve_agenda_id, issue
<1> QED BY <1>2, <1>4, <1>5

-----------------------------------------------------------------------------
(* The payload of a task. *)

(* A value of one record over another. *)
LEMMA OverDomain == \A f, g : DOMAIN Over(f, g) = DOMAIN f \cup DOMAIN g
BY DEF Over

(* The record on top decides. *)
LEMMA OverValue == \A f, g, x : x \in DOMAIN f => Over(f, g)[x] = f[x]
BY DEF Over

(* What the record on top lacks is read from the one below. *)
LEMMA OverField ==
  \A f, g, x : Field(Over(f, g), x) = IF x \in DOMAIN f THEN f[x] ELSE Field(g, x)
BY DEF Over, Field

(* What !run writes for its user, under the keys that no setting has. *)
OrderKeys ==
  {"request", "repo_path", "task_id", "agenda_id", "canopus_agenda_id", "canopus_run_id",
   "role_mode", "github_project_status"}

AgendaOf(t, project, intake) == resolve_agenda_id(Env, t, <<intake, project.github>>)

(* A project's settings are texts; its number is registered or configured. *)
LEMMA ProjectSettingsAre ==
  ASSUME NEW project, project.github \in Registrations \cup {<<>>}
  PROVE  /\ DOMAIN ProjectSettings(project) = ProjectKeys \cup FieldKeys
         /\ \A key : Field(ProjectSettings(project), key) \in Text
         /\ Field(ProjectSettings(project), "github_project_number")
              \in Numbers \cup {<<>>, Setting(Env, "GITHUB_PROJECT_NUMBER")}
<1> DEFINE own == [key \in ProjectKeys |-> Or(Field(project.github, key), Setting(Env, VariableOf[key]))]
           other == [key \in FieldKeys |-> Setting(Env, VariableOf[key])]
<1>1. DOMAIN own = ProjectKeys /\ DOMAIN other = FieldKeys
  OBVIOUS
<1>2. \A key \in ProjectKeys : own[key] \in Text
  BY RegistrationIs, SettingIs DEF Or
<1>3. \A key \in FieldKeys : other[key] \in Text
  BY SettingIs
<1>4. own["github_project_number"] \in Numbers \cup {<<>>, Setting(Env, "GITHUB_PROJECT_NUMBER")}
  <2>1. VariableOf["github_project_number"] = "GITHUB_PROJECT_NUMBER"
    BY Zenon DEF VariableOf
  <2>2. "github_project_number" \in ProjectKeys
    BY DEF ProjectKeys
  <2> QED BY <2>1, <2>2, RegistrationIs DEF Or
<1> HIDE DEF own, other
<1>5. ProjectSettings(project) = Over(own, other)
  BY Zenon DEF ProjectSettings, own, other
<1> DEFINE h == ProjectSettings(project)
<1>6. /\ DOMAIN h = ProjectKeys \cup FieldKeys
      /\ \A key : Field(h, key) = IF key \in ProjectKeys THEN own[key] ELSE Field(other, key)
  <2>1. DOMAIN h = DOMAIN own \cup DOMAIN other
    BY <1>5, OverDomain, Zenon
  <2>2. \A key : Field(h, key) = IF key \in DOMAIN own THEN own[key] ELSE Field(other, key)
    BY <1>5, OverField
  <2> QED BY <1>1, <2>1, <2>2
<1> HIDE DEF h
<1>7. \A key : Field(h, key) \in Text
  BY <1>1, <1>2, <1>3, <1>6, OwnTexts DEF Field
<1>8. Field(h, "github_project_number") = own["github_project_number"]
  BY <1>6 DEF ProjectKeys
<1> QED BY <1>4, <1>6, <1>7, <1>8 DEF h

(* The mode handed on is one that changes nothing. *)
LEMMA ModeIs ==
  /\ DOMAIN canopus_github_project_mode_metadata \subseteq {"github_project_mode"}
  /\ \A key \in DOMAIN canopus_github_project_mode_metadata :
       canopus_github_project_mode_metadata[key] \in NonMutatingModes
  /\ NonMutatingModes \subseteq Text
<1>1. NonMutatingModes \subseteq Text
  <2>1. {"dry-run-offline", "validate-read-only"} \subseteq Characters
    BY WordsAssumption
  <2> QED BY <2>1 DEF NonMutatingModes, Text
<1> DEFINE mode == Setting(Env, "CANOPUS_GITHUB_PROJECT_MODE")
<1>2. canopus_github_project_mode_metadata
        = IF mode \in NonMutatingModes THEN [github_project_mode |-> mode] ELSE <<>>
  BY Zenon DEF canopus_github_project_mode_metadata
<1> HIDE DEF mode
<1>3. CASE mode \in NonMutatingModes
  BY <1>1, <1>2, <1>3
<1>4. CASE mode \notin NonMutatingModes
  <2>1. canopus_github_project_mode_metadata = <<>>
    BY <1>2, <1>4, Zenon
  <2>2. DOMAIN canopus_github_project_mode_metadata = {}
    BY <2>1
  <2> QED BY <1>1, <2>2
<1> QED BY <1>3, <1>4

(* The payload of a task: the order itself and the settings around it. *)
LEMMA PayloadIs ==
  ASSUME NEW t \in TaskTexts, NEW request \in Requests, NEW project,
         project.repo_path \in Text, project.github \in Registrations \cup {<<>>},
         NEW intake \in Intakes(project)
  PROVE  LET fields == build_task_payload(t, request, project, intake).fields
             agenda == AgendaOf(t, project, intake)
         IN /\ OrderKeys \subseteq DOMAIN fields
            /\ DOMAIN fields \subseteq OrderKeys \cup {"github_issue_number", "github_project_mode"}
                                         \cup ProjectKeys \cup FieldKeys
            /\ fields["request"] = request /\ fields["repo_path"] = project.repo_path
            /\ fields["task_id"] = t /\ fields["agenda_id"] = agenda
            /\ fields["canopus_agenda_id"] = agenda
            /\ fields["canopus_run_id"] = canopus_run_id_for_task(agenda, t)
            /\ \A key : key # "canopus_run_id" => Field(fields, key) \in Text
            /\ Field(fields, "github_issue_number") \in Numbers \cup {<<>>}
            /\ Field(fields, "github_project_mode") \in NonMutatingModes \cup {<<>>}
            /\ Field(fields, "github_project_number")
                 \in Numbers \cup {<<>>, Setting(Env, "GITHUB_PROJECT_NUMBER")}
<1> DEFINE agenda == AgendaOf(t, project, intake)
           run == canopus_run_id_for_task(agenda, t)
           order == [request |-> request, repo_path |-> project.repo_path, task_id |-> t,
                     agenda_id |-> agenda, canopus_agenda_id |-> agenda, canopus_run_id |-> run,
                     role_mode |-> Channel.role_mode, github_project_status |-> <<"Pending">>]
           mode == canopus_github_project_mode_metadata
           settings == ProjectSettings(project)
           rest == Over(mode, settings)
           around == Over(intake, rest)
           fields == Over(order, around)
<1> HIDE DEF rest, around, fields
<1>1. agenda \in Text
  BY AgendaIs, RegistrationIs, IntakeIs DEF AgendaOf
<1> HIDE DEF agenda, run
<1>2. DOMAIN order = OrderKeys
  BY DEF OrderKeys
<1>3. /\ order["request"] = request /\ order["repo_path"] = project.repo_path
      /\ order["task_id"] = t /\ order["agenda_id"] = agenda
      /\ order["canopus_agenda_id"] = agenda /\ order["canopus_run_id"] = run
      /\ order["role_mode"] = Channel.role_mode /\ order["github_project_status"] = <<"Pending">>
  OBVIOUS
<1>4. \A key \in OrderKeys : key # "canopus_run_id" => order[key] \in Text
  <2>0. <<"Pending">> \in Text
    <3>1. "Pending" \in Characters
      BY WordsAssumption
    <3> QED BY <3>1 DEF Text
  <2>1. request \in Text /\ t \in Text /\ Channel.role_mode \in Text
    BY TaskIdIs, ProjectsAssumption
  <2> HIDE DEF order
  <2> QED BY <1>1, <1>3, <2>0, <2>1 DEF OrderKeys
<1> HIDE DEF order
<1>5. /\ DOMAIN mode \subseteq {"github_project_mode"}
      /\ \A key \in DOMAIN mode : mode[key] \in NonMutatingModes
      /\ NonMutatingModes \subseteq Text
  BY ModeIs
<1>6. /\ DOMAIN settings = ProjectKeys \cup FieldKeys
      /\ \A key : Field(settings, key) \in Text
      /\ Field(settings, "github_project_number")
           \in Numbers \cup {<<>>, Setting(Env, "GITHUB_PROJECT_NUMBER")}
  BY ProjectSettingsAre
<1>7. /\ DOMAIN intake \subseteq {"github_issue_number"}
      /\ \A key : Field(intake, key) \in Text
      /\ Field(intake, "github_issue_number") \in Numbers \cup {<<>>}
  BY IntakeIs
<1> HIDE DEF mode, settings
<1>21. DOMAIN rest = DOMAIN mode \cup DOMAIN settings
  BY OverDomain, Zenon DEF rest
<1>8. \A x : Field(rest, x) = IF x \in DOMAIN mode THEN mode[x] ELSE Field(settings, x)
  BY OverField DEF rest
<1>22. DOMAIN around = DOMAIN intake \cup DOMAIN rest
  BY OverDomain, Zenon DEF around
<1>9. \A x : Field(around, x) = IF x \in DOMAIN intake THEN intake[x] ELSE Field(rest, x)
  BY OverField DEF around
<1>19. DOMAIN fields = DOMAIN order \cup DOMAIN around
  BY OverDomain, Zenon DEF fields
<1>10. \A x : Field(fields, x) = IF x \in DOMAIN order THEN order[x] ELSE Field(around, x)
  BY OverField DEF fields
<1>20. \A x \in DOMAIN order : fields[x] = order[x]
  BY OverValue, Zenon DEF fields
<1>0. \A f, x : x \notin DOMAIN f => Field(f, x) = <<>>
  BY DEF Field
<1>11. \A key : key # "canopus_run_id" => Field(fields, key) \in Text
  <2>1. \A x : Field(rest, x) \in Text
    BY <1>5, <1>6, <1>8, <1>21
  <2>2. \A x : Field(around, x) \in Text
    BY <2>1, <1>7, <1>9 DEF Field
  <2> QED BY <1>2, <1>4, <1>10, <1>19, <1>20, <2>2
<1>12. Field(fields, "github_issue_number") \in Numbers \cup {<<>>}
  <2>1. "github_issue_number" \notin DOMAIN order
    BY <1>2 DEF OrderKeys
  <2>2. "github_issue_number" \notin DOMAIN rest
    BY <1>5, <1>6, <1>21 DEF ProjectKeys, FieldKeys
  <2>3. Field(fields, "github_issue_number") = Field(around, "github_issue_number")
    BY <1>10, <1>19, <1>20, <2>1
  <2>4. Field(rest, "github_issue_number") = <<>>
    BY <1>0, <2>2
  <2>5. Field(around, "github_issue_number") = Field(intake, "github_issue_number") \/ Field(around, "github_issue_number") = <<>>
    BY <1>9, <1>22, <2>4 DEF Field
  <2> QED BY <1>7, <2>3, <2>5
<1>13. Field(fields, "github_project_mode") \in NonMutatingModes \cup {<<>>}
  <2>1. "github_project_mode" \notin DOMAIN order \cup DOMAIN intake
    BY <1>2, <1>7 DEF OrderKeys
  <2>2. "github_project_mode" \notin DOMAIN settings
    BY <1>6 DEF ProjectKeys, FieldKeys
  <2>3. Field(settings, "github_project_mode") = <<>>
    BY <1>0, <2>2
  <2>4. Field(fields, "github_project_mode") = Field(rest, "github_project_mode")
    BY <1>9, <1>22, <1>10, <1>19, <1>20, <2>1
  <2> QED BY <1>5, <1>8, <1>21, <2>3, <2>4
<1>14. Field(fields, "github_project_number")
         \in Numbers \cup {<<>>, Setting(Env, "GITHUB_PROJECT_NUMBER")}
  <2>1. "github_project_number" \notin DOMAIN order \cup DOMAIN intake \cup DOMAIN mode
    BY <1>2, <1>5, <1>7 DEF OrderKeys
  <2>2. Field(fields, "github_project_number") = Field(settings, "github_project_number")
    BY <1>8, <1>21, <1>9, <1>22, <1>10, <1>19, <1>20, <2>1
  <2> QED BY <1>6, <2>2
<1>15. fields = build_task_payload(t, request, project, intake).fields
  <2> DEFINE payload == [form |-> "json", text |-> <<"{", "payload", "}">>, fields |-> fields,
                         job |-> build_v1_job_metadata(run, project)]
  <2>1. build_task_payload(t, request, project, intake) = payload
    BY Zenon DEF build_task_payload, fields, around, rest, order, mode, settings, run, agenda, AgendaOf
  <2>2. payload.fields = fields
    OBVIOUS
  <2> QED BY <2>1, <2>2
<1>16. DOMAIN fields \subseteq OrderKeys \cup {"github_issue_number", "github_project_mode"}
                                 \cup ProjectKeys \cup FieldKeys
  BY <1>2, <1>5, <1>6, <1>7, <1>8, <1>21, <1>9, <1>22, <1>10, <1>19, <1>20
<1>17. /\ fields["request"] = request /\ fields["repo_path"] = project.repo_path
       /\ fields["task_id"] = t /\ fields["agenda_id"] = agenda
       /\ fields["canopus_agenda_id"] = agenda /\ fields["canopus_run_id"] = run
  BY <1>2, <1>3, <1>20 DEF OrderKeys
<1> QED BY <1>2, <1>10, <1>19, <1>20, <1>11, <1>12, <1>13, <1>14, <1>15, <1>16, <1>17 DEF agenda, run

-----------------------------------------------------------------------------
(* Reading a command line: options, one argument, and what it knows after it. *)

(* The options read so far. *)
Options == UNION {[D -> Text] : D \in SUBSET ValuedOptions}

ReadState ==
  [ok : BOOLEAN, flag : ValuedOptions \cup {NoKey}, opts : Options, request : Text, mutate : BOOLEAN]

(* One more option. *)
LEMMA OptionsGrow ==
  ASSUME NEW opts \in Options, NEW f \in ValuedOptions, NEW v \in Text
  PROVE  /\ Over(Only(f, v), opts) \in Options
         /\ DOMAIN Over(Only(f, v), opts) = DOMAIN opts \cup {f}
         /\ Over(Only(f, v), opts)[f] = v
         /\ \A g \in DOMAIN opts \ {f} : Over(Only(f, v), opts)[g] = opts[g]
<1> DEFINE h == Over(Only(f, v), opts)
<1>1. h = [x \in {f} \cup DOMAIN opts |-> IF x \in {f} THEN v ELSE opts[x]]
  BY DEF Over, Only
<1>2. DOMAIN opts \in SUBSET ValuedOptions /\ \A x \in DOMAIN opts : opts[x] \in Text
  BY DEF Options
<1> HIDE DEF h
<1>3. DOMAIN h = DOMAIN opts \cup {f} /\ h[f] = v /\ \A g \in DOMAIN opts \ {f} : h[g] = opts[g]
  BY <1>1
<1>4. h \in [{f} \cup DOMAIN opts -> Text]
  BY <1>1, <1>2
<1>5. {f} \cup DOMAIN opts \in SUBSET ValuedOptions
  BY <1>2
<1> QED BY <1>3, <1>4, <1>5 DEF h, Options

(* What an argument does, case by case (args.rs 409-641). *)
LEMMA ReadArgIs ==
  ASSUME NEW s \in ReadState, NEW arg
  PROVE  /\ ~s.ok => ReadArg(s, arg) = s
         /\ s.ok /\ s.flag # NoKey =>
              ReadArg(s, arg) = [s EXCEPT !.flag = NoKey, !.opts = Over(Only(s.flag, arg), @),
                                          !.ok = ValueFits(s.flag, arg)]
         /\ s.ok /\ s.flag = NoKey /\ LooksLikeOption(arg) =>
              ReadArg(s, arg)
                = IF \E f \in ValuedOptions : arg = Flag(f) THEN [s EXCEPT !.flag = arg[3]]
                  ELSE IF arg = Flag("allow_github_mutation") THEN [s EXCEPT !.mutate = TRUE]
                  ELSE [s EXCEPT !.ok = FALSE]
         /\ s.ok /\ s.flag = NoKey /\ ~LooksLikeOption(arg) =>
              ReadArg(s, arg)
                = [s EXCEPT !.request = IF @ = <<>> THEN arg ELSE @ \o <<Space>> \o arg]
<1>1. "allow_github_mutation" \notin ValuedOptions
  BY DEF ValuedOptions, OptionalArgs
<1>2. (\E f \in ValuedOptions : arg = Flag(f)) => arg # Flag("allow_github_mutation")
  BY <1>1 DEF Flag
<1> DEFINE valued == \E f \in ValuedOptions : arg = Flag(f)
           c == [s EXCEPT !.flag = arg[3]]
           d == [s EXCEPT !.mutate = TRUE]
           e == [s EXCEPT !.ok = FALSE]
           inner == CASE valued -> c [] arg = Flag("allow_github_mutation") -> d [] OTHER -> e
           b == [s EXCEPT !.flag = NoKey, !.opts = Over(Only(s.flag, arg), @), !.ok = ValueFits(s.flag, arg)]
           g == [s EXCEPT !.request = IF @ = <<>> THEN arg ELSE @ \o <<Space>> \o arg]
<1>3. ReadArg(s, arg) = CASE ~s.ok -> s [] s.ok /\ s.flag # NoKey -> b
                          [] s.ok /\ s.flag = NoKey /\ LooksLikeOption(arg) -> inner [] OTHER -> g
  BY Zenon DEF ReadArg, valued, c, d, e, inner, b, g
<1> HIDE DEF b, c, d, e, g, inner, valued
<1>4. inner = IF valued THEN c ELSE IF arg = Flag("allow_github_mutation") THEN d ELSE e
  <2>1. valued => arg # Flag("allow_github_mutation")
    BY <1>2, Zenon DEF valued
  <2> QED BY <2>1 DEF inner
<1>5. /\ ~s.ok => ReadArg(s, arg) = s
      /\ s.ok /\ s.flag # NoKey => ReadArg(s, arg) = b
      /\ s.ok /\ s.flag = NoKey /\ LooksLikeOption(arg) => ReadArg(s, arg) = inner
      /\ s.ok /\ s.flag = NoKey /\ ~LooksLikeOption(arg) => ReadArg(s, arg) = g
  BY <1>3
<1> QED BY <1>4, <1>5, Zenon DEF b, c, d, e, g, valued

(* The optional arguments, by name. *)
LEMMA OptionalArgsAre ==
  /\ DOMAIN OptionalArgs = 1 .. 14 /\ Len(OptionalArgs) = 14
  /\ \A i \in 1 .. 14 :
       OptionalArgs[i] \in ProjectKeys \cup FieldKeys
         \cup {"github_issue_url", "github_issue_number", "github_project_item_id",
               "github_project_status", "github_project_mode"}
BY DEF OptionalArgs, ProjectKeys, FieldKeys

(* A flag is no text of its own option: the third character names it. *)
LEMMA FlagIs ==
  ASSUME NEW f \in ValuedOptions
  PROVE  /\ Flag(f) \in Text /\ LooksLikeOption(Flag(f)) /\ Flag(f)[3] = f /\ f # NoKey
<1>1. f \in Characters /\ "-" \in Characters
  BY Strings, WordsAssumption
<1>2. Flag(f) \in Text
  BY <1>1 DEF Flag, Text
<1>3. LooksLikeOption(Flag(f)) /\ Flag(f)[3] = f
  BY DEF LooksLikeOption, Flag
<1>4. f # NoKey
  <2>1. \A i \in DOMAIN OptionalArgs : OptionalArgs[i] # NoKey
    <3> TAKE i \in DOMAIN OptionalArgs
    <3>1. OptionalArgs[i] \in ProjectKeys \cup FieldKeys
            \cup {"github_issue_url", "github_issue_number", "github_project_item_id",
                  "github_project_status", "github_project_mode"}
      BY OptionalArgsAre
    <3> QED BY <3>1, Zenon DEF NoKey, ProjectKeys, FieldKeys
  <2>2. NoKey \notin ValuedOptions
    BY <2>1, Zenon DEF NoKey, ValuedOptions
  <2> QED BY <2>2
<1> QED BY <1>2, <1>3, <1>4

(* A state has five parts. *)
LEMMA StateIs ==
  ASSUME NEW ok \in BOOLEAN, NEW flag \in ValuedOptions \cup {NoKey}, NEW opts \in Options,
         NEW request \in Text, NEW mutate \in BOOLEAN
  PROVE  [ok |-> ok, flag |-> flag, opts |-> opts, request |-> request, mutate |-> mutate]
           \in ReadState
BY Zenon DEF ReadState

(* And it is made of them. *)
LEMMA StatePartsAre ==
  ASSUME NEW s \in ReadState
  PROVE  /\ s.ok \in BOOLEAN /\ s.flag \in ValuedOptions \cup {NoKey} /\ s.opts \in Options
         /\ s.request \in Text /\ s.mutate \in BOOLEAN
         /\ s = [ok |-> s.ok, flag |-> s.flag, opts |-> s.opts, request |-> s.request,
                 mutate |-> s.mutate]
BY DEF ReadState

(* What is known after an argument is of the same kind as before. *)
LEMMA ReadArgType ==
  ASSUME NEW s \in ReadState, NEW arg \in Text
  PROVE  ReadArg(s, arg) \in ReadState
<1> DEFINE ok == s.ok
           flag == s.flag
           opts == s.opts
           request == s.request
           mutate == s.mutate
<1>1. /\ ok \in BOOLEAN /\ flag \in ValuedOptions \cup {NoKey} /\ opts \in Options
      /\ request \in Text /\ mutate \in BOOLEAN
  BY StatePartsAre
<1>2. CASE ~s.ok
  BY <1>2, ReadArgIs
<1>3. CASE s.ok /\ s.flag # NoKey
  <2>1. ReadArg(s, arg) = [s EXCEPT !.flag = NoKey, !.opts = Over(Only(s.flag, arg), @),
                                    !.ok = ValueFits(s.flag, arg)]
    BY <1>3, ReadArgIs
  <2>2. Over(Only(flag, arg), opts) \in Options
    BY <1>1, <1>3, OptionsGrow
  <2>3. ValueFits(flag, arg) \in BOOLEAN
    BY DEF ValueFits
  <2> DEFINE r == [ok |-> ValueFits(flag, arg), flag |-> NoKey, opts |-> Over(Only(flag, arg), opts),
                   request |-> request, mutate |-> mutate]
  <2>4. r \in ReadState
    <3> HIDE DEF flag, opts, request, mutate
    <3> QED BY <1>1, <2>2, <2>3, StateIs
  <2>5. ReadArg(s, arg) = r
    BY <2>1 DEF ReadState
  <2> QED BY <2>4, <2>5
<1>4. CASE s.ok /\ s.flag = NoKey /\ LooksLikeOption(arg)
  <2>1. ReadArg(s, arg) = IF \E f \in ValuedOptions : arg = Flag(f) THEN [s EXCEPT !.flag = arg[3]]
                          ELSE IF arg = Flag("allow_github_mutation") THEN [s EXCEPT !.mutate = TRUE]
                          ELSE [s EXCEPT !.ok = FALSE]
    BY <1>4, ReadArgIs
  <2>2. ASSUME NEW f \in ValuedOptions, arg = Flag(f)
        PROVE  [s EXCEPT !.flag = arg[3]] \in ReadState
    <3>1. arg[3] \in ValuedOptions
      BY <2>2, FlagIs
    <3> QED BY <3>1 DEF ReadState
  <2>3. [s EXCEPT !.mutate = TRUE] \in ReadState /\ [s EXCEPT !.ok = FALSE] \in ReadState
    BY DEF ReadState
  <2> QED BY <2>1, <2>2, <2>3
<1>5. CASE s.ok /\ s.flag = NoKey /\ ~LooksLikeOption(arg)
  <2>1. ReadArg(s, arg) = [s EXCEPT !.request = IF @ = <<>> THEN arg ELSE @ \o <<Space>> \o arg]
    BY <1>5, ReadArgIs
  <2>2. <<Space>> \in Text
    <3>1. Space \in Characters
      BY LowercaseAssumption DEF Separators
    <3> QED BY <3>1 DEF Text
  <2>3. request \o <<Space>> \o arg \in Text
    BY <1>1, <2>2, Joined
  <2>4. \A x \in Text : [s EXCEPT !.request = x] \in ReadState
    BY DEF ReadState
  <2>5. (IF s.request = <<>> THEN arg ELSE s.request \o <<Space>> \o arg) \in Text
    BY <2>3
  <2> QED BY <2>1, <2>4, <2>5
<1> QED BY <1>1, <1>2, <1>3, <1>4, <1>5

Lines == Seq(Text)

(* Nothing read is a state. *)
LEMMA NothingReadType == NothingRead \in ReadState
<1>1. <<>> \in Options
  <2>1. <<>> \in [{} -> Text]
    OBVIOUS
  <2>2. {} \in SUBSET ValuedOptions
    OBVIOUS
  <2> QED BY <2>1, <2>2, Zenon DEF Options
<1>2. TRUE \in BOOLEAN /\ FALSE \in BOOLEAN /\ NoKey \in ValuedOptions \cup {NoKey} /\ <<>> \in Text
  BY OwnTexts
<1> QED BY <1>1, <1>2, StateIs, Zenon DEF NothingRead

(* A command line is read from left to right. *)
LEMMA ReadingUnfolds ==
  ASSUME NEW args \in Lines
  PROVE  /\ Reading(args) \in [0 .. Len(args) -> ReadState]
         /\ Reading(args)[0] = NothingRead
         /\ \A i \in 1 .. Len(args) : Reading(args)[i] = ReadArg(Reading(args)[i - 1], args[i])
<1> DEFINE n == Len(args)
           base == NothingRead
           step == [i \in 1 .. n |-> [s \in ReadState |-> ReadArg(s, args[i])]]
           Rec(f) == f = [i \in 0 .. n |-> IF i = 0 THEN base ELSE ReadArg(f[i - 1], args[i])]
<1>1. n \in Nat /\ base \in ReadState
  BY NothingReadType, LenProperties DEF Lines
<1>2. \A i \in 1 .. n : args[i] \in Text
  BY ElementOfSeq DEF Lines
<1> HIDE DEF n, base
<1>3. step \in [1 .. n -> [ReadState -> ReadState]]
  BY <1>1, <1>2, ReadArgType
<1>4. PICK f \in [0 .. n -> ReadState] : f[0] = base /\ \A i \in 1 .. n : f[i] = step[i][f[i - 1]]
  <2> HIDE DEF step
  <2> QED BY <1>1, <1>3, RecursionExists
<1>5. Rec(f)
  <2>1. \A i \in 1 .. n : f[i] = ReadArg(f[i - 1], args[i])
    <3> TAKE i \in 1 .. n
    <3>1. f[i - 1] \in ReadState /\ f[i] = step[i][f[i - 1]]
      <4> HIDE DEF step
      <4> QED BY <1>1, <1>4
    <3> QED BY <3>1
  <2> QED BY <1>1, <1>4, <2>1
<1>6. Reading(args) = CHOOSE x : Rec(x)
  BY DEF Reading, n, base
<1> DEFINE g == Reading(args)
<1>7. Rec(g)
  <2> HIDE DEF Rec
  <2> QED BY <1>5, <1>6
<1>8. /\ g[0] = base
      /\ \A i \in 1 .. n : g[i] = ReadArg(g[i - 1], args[i])
      /\ g = [i \in 0 .. n |-> g[i]]
  BY <1>1, <1>7
<1>9. \A i \in 0 .. n : g[i] \in ReadState
  <2> DEFINE P == {i \in 0 .. n : g[i] \in ReadState}
  <2> HIDE DEF g
  <2>1. 0 \in P
    BY <1>1, <1>8
  <2>2. \A i \in 1 .. n : i - 1 \in P => i \in P
    <3> SUFFICES ASSUME NEW i \in 1 .. n, g[i - 1] \in ReadState PROVE g[i] \in ReadState
      BY <1>1
    <3>1. g[i] = ReadArg(g[i - 1], args[i])
      BY <1>8
    <3> QED BY <3>1, <1>2, ReadArgType
  <2> HIDE DEF P
  <2>3. \A i \in 0 .. n : i \in P
    BY <1>1, <2>1, <2>2, UpTo
  <2> QED BY <2>3 DEF P
<1> HIDE DEF g
<1> QED BY <1>8, <1>9 DEF g, n, base

-----------------------------------------------------------------------------
(* A pair of a flag and its value, and the request. *)

(* What follows does not change what was read. *)
LEMMA PrefixAgrees ==
  ASSUME NEW args \in Lines, NEW more \in Lines
  PROVE  /\ args \o more \in Lines /\ Len(args \o more) = Len(args) + Len(more)
         /\ Reading(args \o more)[Len(args)] = Reading(args)[Len(args)]
         /\ \A i \in 1 .. Len(more) : (args \o more)[Len(args) + i] = more[i]
<1> DEFINE n == Len(args)
           m == Len(more)
           all == args \o more
           a == Reading(args)
           b == Reading(all)
           P == {i \in 0 .. n : a[i] = b[i]}
<1>1. n \in Nat /\ m \in Nat
  BY LenProperties DEF Lines
<1>2. /\ all \in Lines /\ Len(all) = n + m
      /\ \A i \in 1 .. n + m : all[i] = IF i <= n THEN args[i] ELSE more[i - n]
  BY ConcatProperties DEF Lines
<1>3. /\ a[0] = NothingRead /\ \A i \in 1 .. n : a[i] = ReadArg(a[i - 1], args[i])
  BY ReadingUnfolds
<1> HIDE DEF all
<1>4. /\ b[0] = NothingRead /\ \A i \in 1 .. n + m : b[i] = ReadArg(b[i - 1], all[i])
  BY <1>2, ReadingUnfolds
<1> HIDE DEF a, b, n, m
<1>5. 0 \in P
  BY <1>1, <1>3, <1>4
<1>6. \A i \in 1 .. n : i - 1 \in P => i \in P
  <2> SUFFICES ASSUME NEW i \in 1 .. n, a[i - 1] = b[i - 1] PROVE a[i] = b[i]
    OBVIOUS
  <2>1. i \in 1 .. n + m /\ i <= n
    BY <1>1
  <2>2. all[i] = args[i]
    BY <1>2, <2>1
  <2> QED BY <1>3, <1>4, <2>1, <2>2
<1> HIDE DEF P
<1>7. n \in P
  <2>1. n \in 0 .. n
    BY <1>1
  <2> QED BY <1>1, <1>5, <1>6, <2>1, UpTo
<1>8. \A i \in 1 .. m : all[n + i] = more[i]
  <2> TAKE i \in 1 .. m
  <2>1. n + i \in 1 .. n + m /\ ~(n + i <= n) /\ (n + i) - n = i
    BY <1>1
  <2> QED BY <1>2, <2>1
<1> QED BY <1>2, <1>7, <1>8 DEF P, n, m, a, b, all

(* Where a line has been read and only options were found. *)
Clean(s) == s \in ReadState /\ s.ok /\ s.flag = NoKey /\ s.request = <<>> /\ ~s.mutate

(* A flag and a value that fits set the option, and nothing else. *)
LEMMA ReadPair ==
  ASSUME NEW s, Clean(s), NEW f \in ValuedOptions, NEW v \in Text, ValueFits(f, v)
  PROVE  LET r == ReadArg(ReadArg(s, Flag(f)), v)
         IN /\ Clean(r) /\ f \in DOMAIN r.opts /\ r.opts[f] = v
            /\ \A g \in DOMAIN s.opts \ {f} : g \in DOMAIN r.opts /\ r.opts[g] = s.opts[g]
<1> DEFINE q == ReadArg(s, Flag(f))
           r == ReadArg(q, v)
<1>1. s \in ReadState /\ s.ok /\ s.flag = NoKey /\ s.request = <<>> /\ ~s.mutate /\ s.opts \in Options
  BY StatePartsAre DEF Clean
<1>2. q = [s EXCEPT !.flag = f]
  <2>1. ReadArg(s, Flag(f))
          = IF \E g \in ValuedOptions : Flag(f) = Flag(g) THEN [s EXCEPT !.flag = Flag(f)[3]]
            ELSE IF Flag(f) = Flag("allow_github_mutation") THEN [s EXCEPT !.mutate = TRUE]
            ELSE [s EXCEPT !.ok = FALSE]
    BY <1>1, FlagIs, ReadArgIs
  <2> QED BY <2>1, FlagIs
<1>3. /\ q \in ReadState /\ q.ok = s.ok /\ q.flag = f /\ q.request = s.request
      /\ q.mutate = s.mutate /\ q.opts = s.opts
  <2>1. q \in ReadState
    BY <1>1, FlagIs, ReadArgType
  <2> HIDE DEF q
  <2> QED BY <1>1, <1>2, <2>1 DEF ReadState
<1> HIDE DEF q
<1>4. r = [q EXCEPT !.flag = NoKey, !.opts = Over(Only(q.flag, v), @), !.ok = ValueFits(q.flag, v)]
  BY <1>1, <1>3, FlagIs, ReadArgIs
<1>5. r \in ReadState
  BY <1>3, ReadArgType
<1> HIDE DEF r
<1>6. r.opts = Over(Only(f, v), s.opts) /\ r.flag = NoKey /\ r.request = q.request /\ r.mutate = q.mutate
  BY <1>3, <1>4, <1>5 DEF ReadState
<1>7. r.ok = ValueFits(f, v)
  BY <1>3, <1>4, <1>5 DEF ReadState
<1>8. Clean(r)
  BY <1>1, <1>3, <1>5, <1>6, <1>7 DEF Clean
<1>9. /\ f \in DOMAIN r.opts /\ r.opts[f] = v
      /\ \A g \in DOMAIN s.opts \ {f} : g \in DOMAIN r.opts /\ r.opts[g] = s.opts[g]
  <2> DEFINE opts == s.opts
             more == Over(Only(f, v), opts)
  <2>1. opts \in Options
    BY <1>1
  <2> HIDE DEF opts
  <2>2. /\ DOMAIN more = DOMAIN opts \cup {f} /\ more[f] = v
        /\ \A g \in DOMAIN opts \ {f} : more[g] = opts[g]
    BY <2>1, OptionsGrow
  <2>3. r.opts = more
    BY <1>6, Zenon DEF opts
  <2> HIDE DEF more
  <2> QED BY <2>2, <2>3 DEF opts
<1> QED BY <1>8, <1>9 DEF r, q

(* A request is refused if it looks like an option, and else it is kept. *)
LEMMA ReadRequest ==
  ASSUME NEW s, Clean(s), NEW request \in Text, ~IsBlank(request)
  PROVE  LET r == ReadArg(s, request)
         IN /\ LooksLikeOption(request) => ~r.ok \/ r.flag # NoKey \/ IsBlank(r.request)
            /\ ~LooksLikeOption(request) =>
                 r.ok /\ r.flag = NoKey /\ r.request = request /\ ~r.mutate /\ r.opts = s.opts
<1>1. s \in ReadState /\ s.ok /\ s.flag = NoKey /\ s.request = <<>> /\ ~s.mutate
  BY DEF Clean
<1> DEFINE r == ReadArg(s, request)
<1>2. CASE LooksLikeOption(request)
  <2>1. r = IF \E f \in ValuedOptions : request = Flag(f) THEN [s EXCEPT !.flag = request[3]]
            ELSE IF request = Flag("allow_github_mutation") THEN [s EXCEPT !.mutate = TRUE]
            ELSE [s EXCEPT !.ok = FALSE]
    BY <1>1, <1>2, ReadArgIs
  <2> HIDE DEF r
  <2>2. CASE \E f \in ValuedOptions : request = Flag(f)
    <3>1. request[3] # NoKey /\ r = [s EXCEPT !.flag = request[3]]
      BY <2>1, <2>2, FlagIs
    <3>2. r.flag = request[3]
      BY <1>1, <3>1 DEF ReadState
    <3> QED BY <1>2, <3>1, <3>2 DEF r
  <2>3. CASE ~(\E f \in ValuedOptions : request = Flag(f))
    <3>1. r = [s EXCEPT !.mutate = TRUE] \/ r = [s EXCEPT !.ok = FALSE]
      BY <2>1, <2>3, Zenon
    <3>2. r = [s EXCEPT !.mutate = TRUE] => r.request = <<>>
      BY <1>1 DEF ReadState
    <3>3. r = [s EXCEPT !.ok = FALSE] => ~r.ok
      BY <1>1 DEF ReadState
    <3>4. IsBlank(<<>>)
      BY DEF IsBlank
    <3>5. ~r.ok \/ IsBlank(r.request)
      BY <3>1, <3>2, <3>3, <3>4
    <3> QED BY <1>2, <3>5, Zenon DEF r
  <2> QED BY <2>2, <2>3
<1>3. CASE ~LooksLikeOption(request)
  <2>1. r = [s EXCEPT !.request = request]
    BY <1>1, <1>3, ReadArgIs
  <2> HIDE DEF r
  <2>2. r.ok = s.ok /\ r.flag = s.flag /\ r.request = request /\ r.mutate = s.mutate /\ r.opts = s.opts
    BY <1>1, <2>1 DEF ReadState
  <2>3. r.ok /\ r.flag = NoKey /\ r.request = request /\ ~r.mutate /\ r.opts = s.opts
    BY <1>1, <2>2
  <2> QED BY <1>3, <2>3, Zenon DEF r
<1> QED BY <1>2, <1>3

-----------------------------------------------------------------------------
(* The whole line: what the worker always gives, then the optional pairs. *)

(* What is always given is read as it was written. *)
LEMMA RequiredRead ==
  ASSUME NEW v \in [1 .. 9 -> Text], IsTaskTypeArg(v[5]), NEW line,
         line = << Flag("repo"), v[1], Flag("state"), v[2], Flag("agenda_id"), v[3],
                   Flag("task_id"), v[4], Flag("task_type"), v[5], Flag("role_mode"), v[6],
                   Flag("task_status"), v[7], Flag("task_created_at"), v[8],
                   Flag("task_updated_at"), v[9] >>
  PROVE  /\ line \in Lines /\ Len(line) = 18 /\ Clean(Reading(line)[18])
         /\ {"repo", "state", "agenda_id", "task_id"} \subseteq DOMAIN Reading(line)[18].opts
         /\ Reading(line)[18].opts["repo"] = v[1] /\ Reading(line)[18].opts["state"] = v[2]
         /\ Reading(line)[18].opts["agenda_id"] = v[3] /\ Reading(line)[18].opts["task_id"] = v[4]
<1> DEFINE names == <<"repo", "state", "agenda_id", "task_id", "task_type", "role_mode",
                      "task_status", "task_created_at", "task_updated_at">>
           r == Reading(line)
           Read(i) == /\ Clean(r[2 * i])
                      /\ \A j \in 1 .. i : names[j] \in DOMAIN r[2 * i].opts
                                           /\ r[2 * i].opts[names[j]] = v[j]
           P == {i \in 0 .. 9 : Read(i)}
<1>1. \A i \in 1 .. 9 : names[i] \in ValuedOptions
  BY DEF ValuedOptions
<1>2. \A i, j \in 1 .. 9 : i # j => names[i] # names[j]
  OBVIOUS
<1>3. \A i \in 1 .. 9 : line[2 * i - 1] = Flag(names[i]) /\ line[2 * i] = v[i]
  <2> HIDE DEF r, P
  <2>1. line[1] = Flag("repo") /\ line[2] = v[1] /\ names[1] = "repo"
    OBVIOUS
  <2>2. line[3] = Flag("state") /\ line[4] = v[2] /\ names[2] = "state"
    OBVIOUS
  <2>3. line[5] = Flag("agenda_id") /\ line[6] = v[3] /\ names[3] = "agenda_id"
    OBVIOUS
  <2>4. line[7] = Flag("task_id") /\ line[8] = v[4] /\ names[4] = "task_id"
    OBVIOUS
  <2>5. line[9] = Flag("task_type") /\ line[10] = v[5] /\ names[5] = "task_type"
    OBVIOUS
  <2>6. line[11] = Flag("role_mode") /\ line[12] = v[6] /\ names[6] = "role_mode"
    OBVIOUS
  <2>7. line[13] = Flag("task_status") /\ line[14] = v[7] /\ names[7] = "task_status"
    OBVIOUS
  <2>8. line[15] = Flag("task_created_at") /\ line[16] = v[8] /\ names[8] = "task_created_at"
    OBVIOUS
  <2>9. line[17] = Flag("task_updated_at") /\ line[18] = v[9] /\ names[9] = "task_updated_at"
    OBVIOUS
  <2> HIDE DEF names
  <2>10. \A i \in 1 .. 9 : i = 1 \/ i = 2 \/ i = 3 \/ i = 4 \/ i = 5 \/ i = 6 \/ i = 7 \/ i = 8 \/ i = 9
    OBVIOUS
  <2> QED BY <2>1, <2>2, <2>3, <2>4, <2>5, <2>6, <2>7, <2>8, <2>9, <2>10

<1>4. DOMAIN line = 1 .. 18 /\ Len(line) = 18
  OBVIOUS
<1>5. /\ names[1] = "repo" /\ names[2] = "state" /\ names[3] = "agenda_id" /\ names[4] = "task_id"
      /\ \A i \in 1 .. 9 : names[i] = "task_type" => i = 5
      /\ \A i \in 1 .. 9 : names[i] \notin {"github_issue_number", "github_project_number",
                                          "github_project_mode"}
  OBVIOUS
<1> HIDE DEF names
<1>6. line \in Lines
  <2>1. \A i \in 1 .. 18 : line[i] \in Text
    <3> TAKE i \in 1 .. 18
    <3>1. \E j \in 1 .. 9 : i = 2 * j - 1 \/ i = 2 * j
      <4>1. i \in {1, 2} \/ i \in {3, 4} \/ i \in {5, 6} \/ i \in {7, 8} \/ i \in {9, 10}
            \/ i \in {11, 12} \/ i \in {13, 14} \/ i \in {15, 16} \/ i \in {17, 18}
        OBVIOUS
      <4> QED BY <4>1
    <3>2. PICK j \in 1 .. 9 : i = 2 * j - 1 \/ i = 2 * j
      BY <3>1
    <3>3. Flag(names[j]) \in Text /\ v[j] \in Text
      BY <1>1, FlagIs
    <3> QED BY <1>3, <3>2, <3>3
  <2>2. line = [i \in 1 .. 18 |-> line[i]]
    BY <1>4
  <2>3. line \in [1 .. 18 -> Text]
    BY <2>1, <2>2
  <2> QED BY <2>3, SeqDef DEF Lines
<1>7. r[0] = NothingRead /\ \A i \in 1 .. 18 : r[i] = ReadArg(r[i - 1], line[i])
  BY <1>4, <1>6, ReadingUnfolds
<1> HIDE DEF r
<1>8. 0 \in P
  <2>1. Clean(NothingRead)
    BY NothingReadType DEF Clean, NothingRead
  <2> QED BY <1>7, <2>1
<1>9. \A i \in 1 .. 9 : i - 1 \in P => i \in P
  <2> SUFFICES ASSUME NEW i \in 1 .. 9, Read(i - 1) PROVE Read(i)
    OBVIOUS
  <2> DEFINE s == r[2 * (i - 1)]
             q == ReadArg(ReadArg(s, Flag(names[i])), v[i])
  <2>1. r[2 * i] = q
    <3>1. /\ 2 * i - 1 \in 1 .. 18 /\ 2 * i \in 1 .. 18 /\ 2 * i - 1 - 1 = 2 * (i - 1)
      OBVIOUS
    <3>2. r[2 * i - 1] = ReadArg(s, Flag(names[i]))
      BY <1>3, <1>7, <3>1
    <3>3. r[2 * i] = ReadArg(r[2 * i - 1], v[i])
      BY <1>3, <1>7, <3>1
    <3> QED BY <3>2, <3>3
  <2>2. ValueFits(names[i], v[i])
    BY <1>5 DEF ValueFits
  <2>3. Clean(s) /\ names[i] \in ValuedOptions /\ v[i] \in Text
    BY <1>1
  <2> HIDE DEF s
  <2>4. /\ Clean(q) /\ names[i] \in DOMAIN q.opts /\ q.opts[names[i]] = v[i]
        /\ \A g \in DOMAIN s.opts \ {names[i]} : g \in DOMAIN q.opts /\ q.opts[g] = s.opts[g]
    BY <2>2, <2>3, ReadPair
  <2> HIDE DEF q
  <2>5. ASSUME NEW j \in 1 .. i
        PROVE  names[j] \in DOMAIN q.opts /\ q.opts[names[j]] = v[j]
    <3>1. CASE j = i
      BY <2>4, <3>1
    <3>2. CASE j # i
      <4>1. j \in 1 .. (i - 1) /\ j \in 1 .. 9
        BY <3>2
      <4>2. names[j] \in DOMAIN s.opts /\ s.opts[names[j]] = v[j]
        BY <4>1 DEF s
      <4>3. names[j] # names[i]
        BY <1>2, <3>2, <4>1
      <4> QED BY <2>4, <4>2, <4>3
    <3> QED BY <3>1, <3>2
  <2> QED BY <2>1, <2>4, <2>5
<1> HIDE DEF P
<1>10. 9 \in P
  <2>1. 9 \in Nat /\ 9 \in 0 .. 9
    OBVIOUS
  <2> QED BY <1>8, <1>9, <2>1, UpTo
<1>11. Clean(r[18]) /\ \A j \in 1 .. 9 : names[j] \in DOMAIN r[18].opts /\ r[18].opts[names[j]] = v[j]
  BY <1>10 DEF P
<1>12. 1 \in 1 .. 9 /\ 2 \in 1 .. 9 /\ 3 \in 1 .. 9 /\ 4 \in 1 .. 9
  OBVIOUS
<1>13. /\ {"repo", "state", "agenda_id", "task_id"} \subseteq DOMAIN r[18].opts
       /\ r[18].opts["repo"] = v[1] /\ r[18].opts["state"] = v[2]
       /\ r[18].opts["agenda_id"] = v[3] /\ r[18].opts["task_id"] = v[4]
  BY <1>5, <1>11, <1>12
<1> QED BY <1>4, <1>6, <1>11, <1>13 DEF r

ReadAll(args) == Reading(args)[Len(args)]

(* A pair after a line that has been read. *)
LEMMA PairAppended ==
  ASSUME NEW args \in Lines, Clean(ReadAll(args)),
         NEW f \in ValuedOptions, NEW v \in Text, ValueFits(f, v)
  PROVE  LET r == ReadAll(args \o <<Flag(f), v>>)
             s == ReadAll(args)
         IN /\ args \o <<Flag(f), v>> \in Lines
            /\ Clean(r)
            /\ \A g \in DOMAIN s.opts \ {f} : g \in DOMAIN r.opts /\ r.opts[g] = s.opts[g]
<1> DEFINE more == <<Flag(f), v>>
           all == args \o more
           n == Len(args)
           r == Reading(all)
<1>1. more \in Lines /\ Len(more) = 2 /\ more[1] = Flag(f) /\ more[2] = v
  <2>1. Flag(f) \in Text
    BY FlagIs
  <2> HIDE DEF more
  <2>2. more \in Lines
    BY <2>1 DEF more, Lines
  <2> QED BY <2>2 DEF more
<1> HIDE DEF more
<1>2. n \in Nat
  BY LenProperties DEF Lines
<1>3. /\ all \in Lines /\ Len(all) = n + 2 /\ r[n] = ReadAll(args)
      /\ all[n + 1] = Flag(f) /\ all[n + 2] = v
  <2>1. /\ all \in Lines /\ Len(all) = Len(args) + Len(more)
        /\ Reading(all)[Len(args)] = Reading(args)[Len(args)]
        /\ \A i \in 1 .. Len(more) : all[Len(args) + i] = more[i]
    BY <1>1, PrefixAgrees
  <2>2. 1 \in 1 .. 2 /\ 2 \in 1 .. 2
    OBVIOUS
  <2> HIDE DEF all
  <2> QED BY <1>1, <2>1, <2>2 DEF ReadAll
<1>4. r[n + 1] = ReadArg(r[n], Flag(f)) /\ r[n + 2] = ReadArg(r[n + 1], v)
  <2>1. \A i \in 1 .. Len(all) : r[i] = ReadArg(r[i - 1], all[i])
    BY <1>3, ReadingUnfolds
  <2> HIDE DEF all, r, n
  <2>2. n + 1 \in 1 .. n + 2 /\ n + 2 \in 1 .. n + 2 /\ (n + 1) - 1 = n /\ (n + 2) - 1 = n + 1
    BY <1>2
  <2>3. r[n + 1] = ReadArg(r[(n + 1) - 1], all[n + 1]) /\ r[n + 2] = ReadArg(r[(n + 2) - 1], all[n + 2])
    BY <1>3, <2>1, <2>2
  <2> QED BY <1>3, <2>2, <2>3
<1>5. ReadAll(all) = r[n + 2]
  BY <1>3 DEF ReadAll
<1> DEFINE s == ReadAll(args)
           q == ReadArg(ReadArg(s, Flag(f)), v)
<1>6. q = ReadAll(all)
  <2> HIDE DEF all, r, n
  <2> QED BY <1>3, <1>4, <1>5
<1> HIDE DEF s
<1>7. /\ Clean(q)
      /\ \A g \in DOMAIN s.opts \ {f} : g \in DOMAIN q.opts /\ q.opts[g] = s.opts[g]
  <2>1. Clean(s)
    BY DEF s
  <2> QED BY <2>1, ReadPair
<1> HIDE DEF q
<1> QED BY <1>3, <1>6, <1>7, Zenon DEF s, all, more

(* The options a task's own settings never touch. *)
OwnOptions == {"repo", "state", "agenda_id", "task_id"}

(* The metadata pushed after the line fits its options. *)
Fitting(metadata) ==
  \A i \in 1 .. 14 :
    /\ Field(metadata, OptionalArgs[i]) \in Text
    /\ ~IsBlank(Field(metadata, OptionalArgs[i])) =>
         ValueFits(OptionalArgs[i], Field(metadata, OptionalArgs[i]))

(* The arguments are pushed one after the other (custom.rs 271-340). *)
LEMMA PushedArgsUnfold ==
  ASSUME NEW line \in Lines, NEW metadata, Fitting(metadata)
  PROVE  /\ PushedArgs(line, metadata)[0] = line
         /\ \A i \in 1 .. 14 :
              PushedArgs(line, metadata)[i]
                = PushedArgs(line, metadata)[i - 1] \o push_optional_arg(metadata, OptionalArgs[i])
<1> DEFINE n == Len(OptionalArgs)
           push == [i \in 1 .. n |-> push_optional_arg(metadata, OptionalArgs[i])]
           step == [i \in 1 .. n |-> [x \in Lines |-> x \o push[i]]]
           Rec(f) == f = [i \in 0 .. n |-> IF i = 0 THEN line
                                           ELSE f[i - 1] \o push_optional_arg(metadata, OptionalArgs[i])]
<1>1. n = 14
  BY OptionalArgsAre
<1> HIDE DEF n
<1>2. \A i \in 1 .. n : push[i] \in Lines
  <2> TAKE i \in 1 .. n
  <2> DEFINE key == OptionalArgs[i]
             value == Field(metadata, key)
  <2>1. key \in ValuedOptions /\ value \in Text
    BY <1>1, OptionalArgsAre DEF ValuedOptions, Fitting
  <2>2. push[i] = IF IsBlank(value) THEN <<>> ELSE <<Flag(key), value>>
    BY Zenon DEF push_optional_arg
  <2> HIDE DEF key, value, push
  <2>3. Flag(key) \in Text
    BY <2>1, FlagIs
  <2>4. <<>> \in Lines /\ <<Flag(key), value>> \in Lines
    BY <2>1, <2>3 DEF Lines
  <2> QED BY <2>2, <2>4
<1> HIDE DEF push
<1>3. step \in [1 .. n -> [Lines -> Lines]]
  <2>1. \A i \in 1 .. n : \A x \in Lines : x \o push[i] \in Lines
    BY <1>2 DEF Lines
  <2> QED BY <2>1
<1>4. PICK f \in [0 .. n -> Lines] : f[0] = line /\ \A i \in 1 .. n : f[i] = step[i][f[i - 1]]
  <2>1. n \in Nat
    BY <1>1
  <2> HIDE DEF step
  <2> QED BY <1>3, <2>1, RecursionExists
<1>5. Rec(f)
  <2>1. \A i \in 1 .. n : f[i] = f[i - 1] \o push_optional_arg(metadata, OptionalArgs[i])
    <3> TAKE i \in 1 .. n
    <3>1. f[i - 1] \in Lines /\ f[i] = step[i][f[i - 1]]
      <4> HIDE DEF step
      <4> QED BY <1>1, <1>4
    <3>2. f[i] = f[i - 1] \o push[i]
      BY <3>1
    <3>3. push[i] = push_optional_arg(metadata, OptionalArgs[i])
      BY DEF push
    <3> QED BY <3>2, <3>3
  <2>2. \A i \in 0 .. n : f[i] = IF i = 0 THEN line
                                ELSE f[i - 1] \o push_optional_arg(metadata, OptionalArgs[i])
    <3> TAKE i \in 0 .. n
    <3>1. CASE i = 0
      BY <1>4, <3>1
    <3>2. CASE i # 0
      <4>1. i \in 1 .. n
        BY <1>1, <3>2
      <4> QED BY <2>1, <3>2, <4>1
    <3> QED BY <3>1, <3>2
  <2>3. f = [i \in 0 .. n |-> f[i]]
    BY <1>4
  <2> QED BY <2>2, <2>3, Zenon
<1>6. PushedArgs(line, metadata) = CHOOSE x : Rec(x)
  BY DEF PushedArgs, n
<1> DEFINE g == PushedArgs(line, metadata)
<1>7. Rec(g)
  <2> HIDE DEF Rec
  <2> QED BY <1>5, <1>6
<1>8. /\ g[0] = line
      /\ \A i \in 1 .. n : g[i] = g[i - 1] \o push_optional_arg(metadata, OptionalArgs[i])
  <2> HIDE DEF g
  <2>1. \A i \in 0 .. n : g[i] = IF i = 0 THEN line
                                ELSE g[i - 1] \o push_optional_arg(metadata, OptionalArgs[i])
    BY <1>7, Zenon
  <2>2. 0 \in 0 .. n
    BY <1>1
  <2>3. ASSUME NEW i \in 1 .. n
        PROVE  g[i] = g[i - 1] \o push_optional_arg(metadata, OptionalArgs[i])
    <3>1. i \in 0 .. n /\ i # 0
      BY <1>1
    <3> QED BY <2>1, <3>1
  <2> QED BY <2>1, <2>2, <2>3
<1> QED BY <1>1, <1>8

(* What the task does not order itself is read too, and changes none of it. *)
LEMMA OptionalRead ==
  ASSUME NEW line \in Lines, Clean(ReadAll(line)), OwnOptions \subseteq DOMAIN ReadAll(line).opts,
         NEW metadata, Fitting(metadata)
  PROVE  LET args == PushedArgs(line, metadata)[14]
         IN /\ args \in Lines /\ Clean(ReadAll(args))
            /\ \A g \in OwnOptions : /\ g \in DOMAIN ReadAll(args).opts
                                     /\ ReadAll(args).opts[g] = ReadAll(line).opts[g]
<1> DEFINE a == PushedArgs(line, metadata)
           Q(i) == /\ a[i] \in Lines /\ Clean(ReadAll(a[i]))
                   /\ \A g \in OwnOptions : /\ g \in DOMAIN ReadAll(a[i]).opts
                                            /\ ReadAll(a[i]).opts[g] = ReadAll(line).opts[g]
           P == {i \in 0 .. 14 : Q(i)}
<1>1. a[0] = line
      /\ \A i \in 1 .. 14 : a[i] = a[i - 1] \o push_optional_arg(metadata, OptionalArgs[i])
  BY PushedArgsUnfold
<1> HIDE DEF a
<1>2. 0 \in P
  BY <1>1
<1>3. \A i \in 1 .. 14 : i - 1 \in P => i \in P
  <2> SUFFICES ASSUME NEW i \in 1 .. 14, Q(i - 1) PROVE Q(i)
    OBVIOUS
  <2> DEFINE key == OptionalArgs[i]
             value == Field(metadata, key)
             before == a[i - 1]
  <2>1. key \in ValuedOptions /\ key \notin OwnOptions
    BY OptionalArgsAre DEF ValuedOptions, OwnOptions, ProjectKeys, FieldKeys
  <2>2. value \in Text /\ (~IsBlank(value) => ValueFits(key, value))
    BY DEF Fitting
  <2>3. a[i] = before \o push_optional_arg(metadata, key)
    BY <1>1
  <2> HIDE DEF key, value
  <2>4. push_optional_arg(metadata, key) = IF IsBlank(value) THEN <<>> ELSE <<Flag(key), value>>
    BY Zenon DEF push_optional_arg, value
  <2>5. /\ before \in Lines /\ Clean(ReadAll(before))
        /\ \A g \in OwnOptions : /\ g \in DOMAIN ReadAll(before).opts
                                 /\ ReadAll(before).opts[g] = ReadAll(line).opts[g]
    OBVIOUS
  <2> HIDE DEF before
  <2>6. CASE IsBlank(value)
    <3>1. before \o <<>> = before
      BY <2>5 DEF Lines
    <3>2. a[i] = before
      BY <2>3, <2>4, <2>6, <3>1
    <3> QED BY <2>5, <3>2
  <2>7. CASE ~IsBlank(value)
    <3>1. a[i] = before \o <<Flag(key), value>>
      BY <2>3, <2>4, <2>7
    <3> DEFINE r == ReadAll(before \o <<Flag(key), value>>)
               s == ReadAll(before)
    <3>2. /\ before \o <<Flag(key), value>> \in Lines /\ Clean(r)
          /\ \A g \in DOMAIN s.opts \ {key} : g \in DOMAIN r.opts /\ r.opts[g] = s.opts[g]
      BY <2>1, <2>2, <2>5, <2>7, PairAppended
    <3>3. ReadAll(a[i]) = r /\ a[i] \in Lines
      BY <3>1, <3>2
    <3> HIDE DEF r
    <3>4. \A g \in OwnOptions : /\ g \in DOMAIN s.opts /\ s.opts[g] = ReadAll(line).opts[g]
      BY <2>5
    <3> HIDE DEF s
    <3>5. \A g \in OwnOptions : g \in DOMAIN r.opts /\ r.opts[g] = ReadAll(line).opts[g]
      BY <2>1, <3>2, <3>4
    <3> QED BY <3>2, <3>3, <3>5
  <2> QED BY <2>6, <2>7
<1> HIDE DEF P
<1>4. 14 \in P
  <2>1. 14 \in Nat /\ 14 \in 0 .. 14
    OBVIOUS
  <2> QED BY <1>2, <1>3, <2>1, UpTo
<1> QED BY <1>4 DEF P, a

-----------------------------------------------------------------------------
(* What Laniakea takes from the payload, and the order that arrives. *)

(* The first of three keys. *)
LEMMA FirstKeyIs ==
  ASSUME NEW f, NEW a, NEW b, NEW c
  PROVE  /\ a \in DOMAIN f => FirstKey(f, <<a, b, c>>) = a
         /\ {a, b, c} \cap DOMAIN f = {} => FirstKey(f, <<a, b, c>>) = NoKey
<1> DEFINE keys == <<a, b, c>>
           present == {i \in DOMAIN keys : keys[i] \in DOMAIN f}
<1>1. FirstKey(f, keys) = IF present = {} THEN NoKey ELSE keys[Min(present)]
  BY Zenon DEF FirstKey
<1>2. DOMAIN keys = 1 .. 3 /\ keys[1] = a /\ \A i \in 1 .. 3 : keys[i] \in {a, b, c}
  OBVIOUS
<1> HIDE DEF keys
<1>3. present \in SUBSET Nat /\ \A i \in present : i \in 1 .. 3
  BY <1>2
<1>4. ASSUME a \in DOMAIN f PROVE FirstKey(f, keys) = a
  <2>1. 1 \in present
    BY <1>2, <1>4
  <2> HIDE DEF present
  <2>2. Min(present) \in present /\ Min(present) <= 1
    BY <1>3, <2>1, MinIs
  <2>3. Min(present) = 1
    <3>1. \A i \in 1 .. 3 : i <= 1 => i = 1
      OBVIOUS
    <3> QED BY <1>3, <2>2, <3>1
  <2> QED BY <1>1, <1>2, <2>1, <2>3
<1>5. ASSUME {a, b, c} \cap DOMAIN f = {} PROVE FirstKey(f, keys) = NoKey
  <2>1. present = {}
    BY <1>2, <1>5
  <2> QED BY <1>1, <2>1
<1> QED BY <1>4, <1>5 DEF keys

(* What Laniakea makes of an order's payload: the request under its own key
   comes first, and no alias of a key is in use (custom.rs 86-209). *)
LEMMA MetadataIs ==
  ASSUME NEW payload, payload.form = "json", NEW fields, fields = payload.fields,
         "request" \in DOMAIN fields, NoKey \notin DOMAIN fields,
         "github_issue" \notin DOMAIN fields, "issue_number" \notin DOMAIN fields
  PROVE  /\ parse_canopus_metadata(payload)["request"] = fields["request"]
         /\ \A key : Field(parse_canopus_metadata(payload), key) = Field(fields, key)
<1> DEFINE asked == FirstKey(fields, <<"request", "prompt", "title">>)
           number == Field(fields, FirstKey(fields, IssueNumberKeys))
           found == [request |-> IF asked = NoKey THEN payload.text ELSE fields[asked],
                     github_issue_number |-> number]
           m == Over(found, fields)
<1> HIDE DEF asked, number, found, m
<1>1. asked = "request"
  BY FirstKeyIs DEF asked
<1>2. number = Field(fields, "github_issue_number")
  <2>1. CASE "github_issue_number" \in DOMAIN fields
    BY <2>1, FirstKeyIs DEF number, IssueNumberKeys
  <2>2. CASE "github_issue_number" \notin DOMAIN fields
    <3>1. FirstKey(fields, IssueNumberKeys) = NoKey
      BY <2>2, FirstKeyIs DEF IssueNumberKeys
    <3> QED BY <2>2, <3>1 DEF number, Field
  <2> QED BY <2>1, <2>2
<1>3. parse_canopus_metadata(payload) = m
  BY Zenon DEF parse_canopus_metadata, MetadataOfObject, m, found, asked, number
<1>4. /\ DOMAIN found = {"request", "github_issue_number"}
      /\ found["request"] = fields["request"] /\ found["github_issue_number"] = number
  <2>1. asked # NoKey
    BY <1>1, Zenon DEF NoKey
  <2> QED BY <1>1, <2>1 DEF found
<1>5. m["request"] = fields["request"]
  BY <1>4, OverValue DEF m
<1>6. ASSUME NEW key PROVE Field(m, key) = Field(fields, key)
  <2>1. Field(m, key) = IF key \in DOMAIN found THEN found[key] ELSE Field(fields, key)
    BY OverField DEF m
  <2>2. Field(fields, "request") = fields["request"]
    BY DEF Field
  <2> QED BY <1>2, <1>4, <2>1, <2>2
<1> QED BY <1>3, <1>5, <1>6

(* A project number is a number, where the environment's variables fit. *)
LEMMA ConfiguredIs ==
  ASSUME Configured(Env), Setting(Env, "GITHUB_PROJECT_NUMBER") # <<>>
  PROVE  Setting(Env, "GITHUB_PROJECT_NUMBER") \in Numbers
<1> DEFINE names == {o \in DOMAIN VariableOf : Setting(Env, VariableOf[o]) # <<>>}
           set == [option \in names |-> Setting(Env, VariableOf[option])]
           defaults == [repo |-> <<".">>, state |-> <<".canopus">>, role_mode |-> <<"standard">>,
                        github_project_mode |-> <<"dry-run-offline">>]
<1>1. "github_project_number" \in DOMAIN VariableOf
      /\ VariableOf["github_project_number"] = "GITHUB_PROJECT_NUMBER"
  BY DEF VariableOf
<1>2. DOMAIN set = names /\ "github_project_number" \in names
      /\ set["github_project_number"] = Setting(Env, "GITHUB_PROJECT_NUMBER")
  BY <1>1
<1>3. EnvOptions(Env) = Over(set, defaults)
  BY Zenon DEF EnvOptions
<1> HIDE DEF set, names, defaults
<1>4. /\ "github_project_number" \in DOMAIN Over(set, defaults)
      /\ Over(set, defaults)["github_project_number"] = Setting(Env, "GITHUB_PROJECT_NUMBER")
  <2>1. DOMAIN Over(set, defaults) = DOMAIN set \cup DOMAIN defaults
    BY OverDomain, Zenon
  <2> QED BY <1>2, <2>1, OverValue
<1>5. ValueFits("github_project_number", Setting(Env, "GITHUB_PROJECT_NUMBER"))
  BY <1>3, <1>4 DEF Configured
<1> QED BY <1>5 DEF ValueFits

(* The label of a channel is a task type by itself or behind its prefix. *)
LEMMA TaskTypeIs ==
  ASSUME NEW type \in Text
  PROVE  task_type_arg(type) \in Text /\ IsTaskTypeArg(task_type_arg(type))
<1>1. <<"custom", ":">> \in Text /\ <<"custom", ":">>[1] = "custom" /\ <<"custom", ":">>[2] = ":"
      /\ Len(<<"custom", ":">>) = 2
  <2>1. "custom" \in Characters /\ ":" \in Characters
    BY WordsAssumption, LowercaseAssumption DEF Separators
  <2> QED BY <2>1 DEF Text
<1> DEFINE prefix == <<"custom", ":">>
<1>2. task_type_arg(type) = IF type \in NamedTaskTypes THEN type ELSE prefix \o type
  BY Zenon DEF task_type_arg
<1>3. prefix \in Text /\ prefix[1] = "custom" /\ prefix[2] = ":" /\ Len(prefix) = 2
  BY <1>1, Zenon
<1> HIDE DEF prefix
<1>4. prefix \o type \in Text /\ Len(prefix \o type) >= 2
      /\ (prefix \o type)[1] = "custom" /\ (prefix \o type)[2] = ":"
  <2>1. Len(type) \in Nat /\ 1 \in 1 .. Len(prefix) /\ 2 \in 1 .. Len(prefix)
    BY <1>3, LenProperties DEF Text
  <2>2. /\ prefix \o type \in Text /\ Len(prefix \o type) = Len(prefix) + Len(type)
        /\ \A i \in 1 .. Len(prefix) : (prefix \o type)[i] = prefix[i]
    BY <1>3, Joined
  <2> DEFINE whole == prefix \o type
  <2> HIDE DEF whole
  <2>3. Len(whole) >= 2 /\ whole[1] = prefix[1] /\ whole[2] = prefix[2]
    BY <1>3, <2>1, <2>2 DEF whole
  <2> QED BY <1>3, <2>2, <2>3 DEF whole
<1> QED BY <1>2, <1>4 DEF IsTaskTypeArg

(* How canopus reads the order of task t, whose payload is given. *)
TaskFor(t, payload) ==
  [id |-> t, type |-> Channel.label, status |-> <<"Dispatched">>, payload |-> payload]

OrderOf(t, payload, writable) ==
  ParsedArgs(canopus_submit_args(TaskFor(t, payload), WorkerEnv.repo, WorkerEnv.state,
                                 Channel.role_mode, writable),
             Env, {"CANOPUS_ENABLE_GITHUB"})

(* The payload as a record: JSON, with the paths !show reads. *)
LEMMA PayloadForm ==
  \A t, request, project, intake :
    LET payload == build_task_payload(t, request, project, intake)
        run == canopus_run_id_for_task(AgendaOf(t, project, intake), t)
    IN /\ payload.form = "json"
       /\ payload.job.artifact_paths = [root |-> canopus_state_root_for_project(project), run |-> run]
<1> TAKE t, request, project, intake
<1> DEFINE agenda == resolve_agenda_id(Env, t, <<intake, project.github>>)
           run == canopus_run_id_for_task(agenda, t)
           order == [request |-> request, repo_path |-> project.repo_path, task_id |-> t,
                     agenda_id |-> agenda, canopus_agenda_id |-> agenda, canopus_run_id |-> run,
                     role_mode |-> Channel.role_mode, github_project_status |-> <<"Pending">>]
           mode == canopus_github_project_mode_metadata
           text == <<"{", "payload", "}">>
           fields == Over(order, Over(intake, Over(mode, ProjectSettings(project))))
           job == build_v1_job_metadata(run, project)
           found == artifact_paths(canopus_state_root_for_project(project), run)
           branch == <<"canopus", "/">> \o run
           path == project.worktrees[project.active]
           payload == build_task_payload(t, request, project, intake)
<1> HIDE DEF agenda, run, order, mode, fields, job, text, found, branch, path, payload
<1>1. payload = [form |-> "json", text |-> text, fields |-> fields, job |-> job]
  BY Zenon DEF payload, build_task_payload, agenda, run, order, mode, fields, job, text
<1>2. job = [canopus_run_id |-> run, planned_branch |-> branch, worktree_repo_path |-> path,
             artifact_paths |-> found]
  BY Zenon DEF job, build_v1_job_metadata, branch, path, found
<1>3. payload.form = "json" /\ payload.job = job
  BY <1>1
<1>4. job.artifact_paths = found
  BY <1>2
<1>5. run = canopus_run_id_for_task(AgendaOf(t, project, intake), t)
  BY Zenon DEF run, agenda, AgendaOf
<1> QED BY <1>3, <1>4, <1>5, Zenon DEF payload, found, artifact_paths

(* Every setting that is pushed after the line fits its option. *)
LEMMA SettingsFit ==
  ASSUME NEW t \in TaskTexts, NEW request \in Requests, NEW project,
         project.repo_path \in Text, project.github \in Registrations \cup {<<>>},
         NEW intake \in Intakes(project), Configured(Env), NEW metadata,
         \A key : Field(metadata, key)
                    = Field(build_task_payload(t, request, project, intake).fields, key)
  PROVE  Fitting(metadata)
<1> DEFINE fields == build_task_payload(t, request, project, intake).fields
           number == Setting(Env, "GITHUB_PROJECT_NUMBER")
<1>1. /\ \A key : key # "canopus_run_id" => Field(fields, key) \in Text
      /\ Field(fields, "github_issue_number") \in Numbers \cup {<<>>}
      /\ Field(fields, "github_project_mode") \in NonMutatingModes \cup {<<>>}
      /\ Field(fields, "github_project_number") \in Numbers \cup {<<>>, number}
  BY PayloadIs
<1>2. number # <<>> => number \in Numbers
  BY ConfiguredIs
<1> HIDE DEF fields, number
<1>3. IsBlank(<<>>)
  BY DEF IsBlank
<1>4. SUFFICES ASSUME NEW i \in 1 .. 14
               PROVE  /\ Field(fields, OptionalArgs[i]) \in Text
                      /\ ~IsBlank(Field(fields, OptionalArgs[i])) =>
                           ValueFits(OptionalArgs[i], Field(fields, OptionalArgs[i]))
  BY DEF Fitting, fields
<1> DEFINE key == OptionalArgs[i]
           value == Field(fields, key)
<1>5. key # "canopus_run_id" /\ key # "task_type"
  BY OptionalArgsAre DEF ProjectKeys, FieldKeys
<1> HIDE DEF key
<1>6. value \in Text
  BY <1>1, <1>5
<1>7. ASSUME ~IsBlank(value) PROVE ValueFits(key, value)
  <2>1. value # <<>>
    BY <1>3, <1>7
  <2>2. key \in {"github_issue_number", "github_project_number"} => value \in Numbers
    BY <1>1, <1>2, <2>1
  <2>3. key = "github_project_mode" => value \in ProjectModes
    BY <1>1, <2>1, ModeAssumption
  <2> QED BY <1>5, <2>2, <2>3 DEF ValueFits
<1> QED BY <1>6, <1>7 DEF key

(* What the worker itself puts in the line (custom.rs 258-340). *)
LEMMA RequiredIs ==
  ASSUME NEW t \in TaskTexts, NEW payload, NEW repo_path \in Text, ~IsBlank(repo_path),
         NEW agenda \in Text, ~IsBlank(agenda), NEW writable \in BOOLEAN,
         Field(parse_canopus_metadata(payload), "repo_path") = repo_path,
         Field(parse_canopus_metadata(payload), "agenda_id") = agenda
  PROVE  LET line == RequiredArgs(TaskFor(t, payload), WorkerEnv.repo, WorkerEnv.state,
                                  Channel.role_mode, writable)
             opts == ReadAll(line).opts
         IN /\ line \in Lines /\ Clean(ReadAll(line)) /\ OwnOptions \subseteq DOMAIN opts
            /\ opts["repo"] = Trim(repo_path) /\ opts["agenda_id"] = agenda /\ opts["task_id"] = t
            /\ opts["state"] = IF writable THEN Trim(repo_path) \o <<"/", ".canopus">>
                               ELSE WorkerEnv.state
<1> DEFINE task == TaskFor(t, payload)
           m == parse_canopus_metadata(payload)
           trimmed == Trim(repo_path)
           state == derive_submit_state(trimmed, WorkerEnv.state, writable)
           v == << trimmed, state, agenda, t, task_type_arg(Channel.label), Channel.role_mode,
                   <<"Dispatched">>, <<"then">>, <<"now">> >>
           line == RequiredArgs(task, WorkerEnv.repo, WorkerEnv.state, Channel.role_mode, writable)
           written == << Flag("repo"), v[1], Flag("state"), v[2], Flag("agenda_id"), v[3],
                         Flag("task_id"), v[4], Flag("task_type"), v[5], Flag("role_mode"), v[6],
                         Flag("task_status"), v[7], Flag("task_created_at"), v[8],
                         Flag("task_updated_at"), v[9] >>
<1> HIDE DEF task, m, trimmed, state, v, line, written
<1>1. /\ task.id = t /\ task.type = Channel.label /\ task.status = <<"Dispatched">>
      /\ task.payload = payload
  BY DEF task, TaskFor
<1>2. trimmed \in Text /\ trimmed # <<>>
  BY TrimType DEF trimmed
<1>3. state = IF writable THEN trimmed \o <<"/", ".canopus">> ELSE WorkerEnv.state
  BY <1>2 DEF state, derive_submit_state
<1>4. state \in Text
  <2>1. "/" \in Characters /\ ".canopus" \in Characters
    BY WordsAssumption, LowercaseAssumption DEF Separators
  <2>2. <<"/", ".canopus">> \in Text
    BY <2>1 DEF Text
  <2>3. WorkerEnv.state \in Text
    BY ProjectsAssumption
  <2> QED BY <1>2, <1>3, <2>2, <2>3, Joined
<1>5. Channel.label \in Text /\ Channel.role_mode \in Text
  BY ProjectsAssumption
<1>6. <<"Dispatched">> \in Text /\ <<"then">> \in Text /\ <<"now">> \in Text
  <2>1. {"Dispatched", "then", "now"} \subseteq Characters
    BY WordsAssumption
  <2> QED BY <2>1 DEF Text
<1>7. v \in [1 .. 9 -> Text] /\ IsTaskTypeArg(v[5]) /\ v[1] = trimmed /\ v[2] = state
      /\ v[3] = agenda /\ v[4] = t /\ v[5] = task_type_arg(Channel.label)
      /\ v[6] = Channel.role_mode /\ v[7] = <<"Dispatched">> /\ v[8] = <<"then">> /\ v[9] = <<"now">>
  <2>1. t \in Text /\ task_type_arg(Channel.label) \in Text /\ IsTaskTypeArg(task_type_arg(Channel.label))
    BY <1>5, TaskIdIs, TaskTypeIs
  <2> QED BY <1>2, <1>4, <1>5, <1>6, <2>1 DEF v
<1>8. line = written
  <2> DEFINE a == Trim(Field(parse_canopus_metadata(task.payload), "repo_path"))
             b == Field(parse_canopus_metadata(task.payload), "agenda_id")
  <2>1. a = trimmed /\ b = agenda
    BY <1>1 DEF trimmed
  <2> HIDE DEF a, b
  <2>2. line = << Flag("repo"), IF a # <<>> THEN a ELSE WorkerEnv.repo,
                  Flag("state"), derive_submit_state(a, WorkerEnv.state, writable),
                  Flag("agenda_id"), IF IsBlank(b) THEN task.id ELSE b,
                  Flag("task_id"), task.id,
                  Flag("task_type"), task_type_arg(task.type),
                  Flag("role_mode"), Channel.role_mode,
                  Flag("task_status"), task.status,
                  Flag("task_created_at"), <<"then">>, Flag("task_updated_at"), <<"now">> >>
    BY Zenon DEF line, RequiredArgs, a, b
  <2>3. /\ (IF a # <<>> THEN a ELSE WorkerEnv.repo) = v[1]
        /\ derive_submit_state(a, WorkerEnv.state, writable) = v[2]
        /\ (IF IsBlank(b) THEN task.id ELSE b) = v[3] /\ task.id = v[4]
        /\ task_type_arg(task.type) = v[5] /\ Channel.role_mode = v[6] /\ task.status = v[7]
        /\ <<"then">> = v[8] /\ <<"now">> = v[9]
    BY <1>1, <1>2, <1>7, <2>1 DEF state
  <2> QED BY <2>2, <2>3, Zenon DEF written
<1>9. /\ line \in Lines /\ Len(line) = 18 /\ Clean(Reading(line)[18])
      /\ {"repo", "state", "agenda_id", "task_id"} \subseteq DOMAIN Reading(line)[18].opts
      /\ Reading(line)[18].opts["repo"] = v[1] /\ Reading(line)[18].opts["state"] = v[2]
      /\ Reading(line)[18].opts["agenda_id"] = v[3] /\ Reading(line)[18].opts["task_id"] = v[4]
  BY <1>7, <1>8, RequiredRead, Zenon DEF written
<1>10. ReadAll(line) = Reading(line)[18]
  BY <1>9 DEF ReadAll
<1> QED BY <1>3, <1>7, <1>9, <1>10 DEF line, task, trimmed, OwnOptions

(* A line of options and the request after it. *)
LEMMA RequestAppended ==
  ASSUME NEW args \in Lines, Clean(ReadAll(args)), NEW request \in Text, ~IsBlank(request)
  PROVE  LET r == ReadAll(args \o <<request>>)
         IN /\ LooksLikeOption(request) => ~r.ok \/ r.flag # NoKey \/ IsBlank(r.request)
            /\ ~LooksLikeOption(request) =>
                 /\ r.ok /\ r.flag = NoKey /\ r.request = request /\ ~r.mutate
                 /\ r.opts = ReadAll(args).opts
<1> DEFINE more == <<request>>
           all == args \o more
           n == Len(args)
           s == ReadAll(args)
<1>1. more \in Lines /\ Len(more) = 1 /\ more[1] = request
  <2>1. more \in Lines
    BY DEF Lines
  <2> QED BY <2>1
<1> HIDE DEF more
<1>2. n \in Nat
  BY LenProperties DEF Lines
<1>3. /\ all \in Lines /\ Len(all) = n + 1 /\ Reading(all)[n] = s /\ all[n + 1] = request
  <2>1. /\ all \in Lines /\ Len(all) = Len(args) + Len(more)
        /\ Reading(all)[Len(args)] = Reading(args)[Len(args)]
        /\ \A i \in 1 .. Len(more) : all[Len(args) + i] = more[i]
    BY <1>1, PrefixAgrees
  <2>2. 1 \in 1 .. 1
    OBVIOUS
  <2> HIDE DEF all
  <2> QED BY <1>1, <2>1, <2>2 DEF ReadAll
<1> HIDE DEF all
<1>4. ReadAll(all) = ReadArg(s, request)
  <2>1. \A i \in 1 .. Len(all) : Reading(all)[i] = ReadArg(Reading(all)[i - 1], all[i])
    BY <1>3, ReadingUnfolds
  <2>2. n + 1 \in 1 .. n + 1 /\ (n + 1) - 1 = n
    BY <1>2
  <2> HIDE DEF n, s
  <2>3. Reading(all)[n + 1] = ReadArg(Reading(all)[(n + 1) - 1], all[n + 1])
    BY <1>3, <2>1, <2>2
  <2> QED BY <1>3, <2>2, <2>3 DEF ReadAll
<1> DEFINE r == ReadArg(s, request)
<1>5. /\ LooksLikeOption(request) => ~r.ok \/ r.flag # NoKey \/ IsBlank(r.request)
      /\ ~LooksLikeOption(request) =>
           r.ok /\ r.flag = NoKey /\ r.request = request /\ ~r.mutate /\ r.opts = s.opts
  <2>1. Clean(s)
    OBVIOUS
  <2> HIDE DEF s
  <2> QED BY <2>1, ReadRequest
<1> HIDE DEF r
<1> QED BY <1>4, <1>5, Zenon DEF r, s, all, more

(* What parsing makes of a line that has been read (args.rs 590-641). *)
LEMMA ParsedIs ==
  ASSUME NEW args, NEW read, read = ReadAll(args), read \in ReadState
  PROVE  LET parsed == ParsedArgs(args, Env, {"CANOPUS_ENABLE_GITHUB"})
         IN /\ parsed.ok <=> Configured(Env) /\ read.ok /\ read.flag = NoKey /\ ~IsBlank(read.request)
            /\ parsed.ok => /\ parsed.opts = Over(read.opts, EnvOptions(Env))
                            /\ parsed.request = read.request
                            /\ ~read.mutate => ~parsed.allow_github_mutation
<1> DEFINE flags == {"CANOPUS_ENABLE_GITHUB"}
           parsed == ParsedArgs(args, Env, flags)
           accepted == Configured(Env) /\ read.ok /\ read.flag = NoKey /\ ~IsBlank(read.request)
           may == MayMutate(flags, read.mutate)
           opts == Over(read.opts, EnvOptions(Env))
<1>1. Reading(args)[Len(args)] = read
  BY DEF ReadAll
<1>2. "CANOPUS_ALLOW_GITHUB_MUTATION" \notin flags
  OBVIOUS
<1>3. may <=> read.mutate
  BY <1>2, StatePartsAre, Zenon DEF MayMutate
<1> HIDE DEF may, opts, accepted
<1>4. CASE accepted
  <2>1. parsed = [ok |-> TRUE, opts |-> opts, request |-> read.request, allow_github_mutation |-> may]
    BY <1>1, <1>4, Zenon DEF ParsedArgs, accepted, may, opts
  <2> HIDE DEF parsed
  <2>2. parsed.ok /\ parsed.opts = opts /\ parsed.request = read.request
    BY <2>1
  <2>3. parsed.allow_github_mutation = may
    BY <2>1
  <2> QED BY <1>3, <1>4, <2>2, <2>3 DEF accepted, opts, parsed
<1>5. CASE ~accepted
  <2>1. parsed = [ok |-> FALSE]
    BY <1>1, <1>5, Zenon DEF ParsedArgs, accepted, Refused
  <2> HIDE DEF parsed
  <2>2. ~parsed.ok
    BY <2>1
  <2> QED BY <1>5, <2>2, Zenon DEF accepted, parsed
<1> QED BY <1>4, <1>5

(* The order of a task, at canopus (custom.rs 86-340, args.rs 409-641). *)
LEMMA OrderIs ==
  ASSUME NEW t \in TaskTexts, NEW request \in Requests, NEW project,
         project.repo_path \in Text, ~IsBlank(project.repo_path),
         project.github \in Registrations \cup {<<>>},
         NEW intake \in Intakes(project), NEW writable \in BOOLEAN
  PROVE  LET order == OrderOf(t, build_task_payload(t, request, project, intake), writable)
             repo == Trim(project.repo_path)
         IN /\ order.ok <=> ~LooksLikeOption(request) /\ Configured(Env)
            /\ order.ok =>
                 /\ order.request = request /\ ~order.allow_github_mutation
                 /\ OwnOptions \subseteq DOMAIN order.opts
                 /\ order.opts["repo"] = repo /\ order.opts["task_id"] = t
                 /\ order.opts["agenda_id"] = AgendaOf(t, project, intake)
                 /\ order.opts["state"] = IF writable THEN repo \o <<"/", ".canopus">>
                                          ELSE WorkerEnv.state
<1> DEFINE payload == build_task_payload(t, request, project, intake)
           fields == payload.fields
           agenda == AgendaOf(t, project, intake)
           m == parse_canopus_metadata(payload)
           line == RequiredArgs(TaskFor(t, payload), WorkerEnv.repo, WorkerEnv.state,
                                Channel.role_mode, writable)
           pushed == PushedArgs(line, m)[14]
           args == pushed \o <<request>>
           order == OrderOf(t, payload, writable)
<1>1. /\ OrderKeys \subseteq DOMAIN fields
      /\ DOMAIN fields \subseteq OrderKeys \cup {"github_issue_number", "github_project_mode"}
                                   \cup ProjectKeys \cup FieldKeys
      /\ fields["request"] = request /\ fields["repo_path"] = project.repo_path
      /\ fields["agenda_id"] = agenda
  BY PayloadIs
<1>2. agenda \in Text /\ ~IsBlank(agenda)
  BY AgendaIs, RegistrationIs, IntakeIs DEF AgendaOf
<1>3. request \in Text /\ ~IsBlank(request)
  BY ProjectsAssumption
<1>4. payload.form = "json"
  BY PayloadForm
<1> HIDE DEF agenda, fields, order
<1>5. /\ m["request"] = request /\ \A key : Field(m, key) = Field(fields, key)
  <2>1. "request" \in DOMAIN fields
    BY <1>1 DEF OrderKeys
  <2>2. NoKey \notin DOMAIN fields
    BY <1>1, Zenon DEF OrderKeys, ProjectKeys, FieldKeys, NoKey
  <2>3. "github_issue" \notin DOMAIN fields /\ "issue_number" \notin DOMAIN fields
    BY <1>1 DEF OrderKeys, ProjectKeys, FieldKeys
  <2>4. fields = payload.fields
    BY DEF fields
  <2> HIDE DEF payload
  <2> QED BY <1>1, <1>4, <2>1, <2>2, <2>3, <2>4, MetadataIs
<1>6. Field(m, "repo_path") = project.repo_path /\ Field(m, "agenda_id") = agenda
  <2>1. "repo_path" \in DOMAIN fields /\ "agenda_id" \in DOMAIN fields
    BY <1>1 DEF OrderKeys
  <2> QED BY <1>1, <1>5, <2>1 DEF Field
<1>7. /\ line \in Lines /\ Clean(ReadAll(line)) /\ OwnOptions \subseteq DOMAIN ReadAll(line).opts
      /\ ReadAll(line).opts["repo"] = Trim(project.repo_path)
      /\ ReadAll(line).opts["agenda_id"] = agenda /\ ReadAll(line).opts["task_id"] = t
      /\ ReadAll(line).opts["state"]
           = IF writable THEN Trim(project.repo_path) \o <<"/", ".canopus">> ELSE WorkerEnv.state
  <2> HIDE DEF payload
  <2> QED BY <1>2, <1>6, RequiredIs
<1>8. order = ParsedArgs(args, Env, {"CANOPUS_ENABLE_GITHUB"})
  <2> DEFINE task == TaskFor(t, payload)
  <2>1. task.payload = payload
    BY DEF TaskFor
  <2> HIDE DEF payload, task
  <2> DEFINE n == parse_canopus_metadata(task.payload)
             asked == n["request"]
             req == RequiredArgs(task, WorkerEnv.repo, WorkerEnv.state, Channel.role_mode, writable)
             words == canopus_submit_args(task, WorkerEnv.repo, WorkerEnv.state,
                                          Channel.role_mode, writable)
  <2>2. words = PushedArgs(req, n)[Len(OptionalArgs)]
                  \o << IF IsBlank(asked) THEN task.payload.text ELSE asked >>
    BY Zenon DEF canopus_submit_args
  <2>3. n = m /\ asked = request /\ req = line /\ Len(OptionalArgs) = 14
    BY <2>1, <1>5, OptionalArgsAre DEF task
  <2> HIDE DEF n, asked, req, line, m
  <2>4. words = args
    BY <1>3, <2>2, <2>3, Zenon
  <2> QED BY <2>4, Zenon DEF order, OrderOf, task
<1> HIDE DEF line, order
<1>9. CASE ~Configured(Env)
  <2>1. order.ok <=> FALSE
    BY <1>8, <1>9, Zenon DEF ParsedArgs, Refused
  <2> QED BY <1>9, <2>1 DEF order
<1>10. CASE Configured(Env)
  <2>1. Fitting(m)
    <3> HIDE DEF m
    <3> QED BY <1>5, <1>10, SettingsFit DEF fields
  <2> HIDE DEF m
  <2>2. /\ pushed \in Lines /\ Clean(ReadAll(pushed))
        /\ \A g \in OwnOptions : /\ g \in DOMAIN ReadAll(pushed).opts
                                 /\ ReadAll(pushed).opts[g] = ReadAll(line).opts[g]
    BY <1>7, <2>1, OptionalRead
  <2> HIDE DEF pushed
  <2> DEFINE read == ReadAll(args)
             before == ReadAll(pushed)
  <2>3. /\ LooksLikeOption(request) => ~read.ok \/ read.flag # NoKey \/ IsBlank(read.request)
        /\ ~LooksLikeOption(request) =>
             read.ok /\ read.flag = NoKey /\ read.request = request /\ ~read.mutate
               /\ read.opts = before.opts
    BY <1>3, <2>2, RequestAppended
  <2>4. read \in ReadState
    <3>1. args \in Lines
      BY <1>3, <2>2 DEF Lines
    <3> HIDE DEF args
    <3>2. Len(args) \in 0 .. Len(args)
      BY <3>1, LenProperties DEF Lines
    <3> QED BY <3>1, <3>2, ReadingUnfolds DEF ReadAll
  <2>5. /\ order.ok <=> Configured(Env) /\ read.ok /\ read.flag = NoKey /\ ~IsBlank(read.request)
        /\ order.ok => /\ order.opts = Over(read.opts, EnvOptions(Env))
                       /\ order.request = read.request
                       /\ ~read.mutate => ~order.allow_github_mutation
    <3> HIDE DEF args
    <3> QED BY <1>8, <2>4, ParsedIs
  <2> HIDE DEF read, before
  <2>6. order.ok <=> ~LooksLikeOption(request)
    BY <1>3, <1>10, <2>3, <2>5
  <2>7. ASSUME order.ok
        PROVE  /\ order.request = request /\ ~order.allow_github_mutation
               /\ \A g \in OwnOptions : /\ g \in DOMAIN order.opts
                                        /\ order.opts[g] = ReadAll(line).opts[g]
    <3>1. /\ read.request = request /\ ~read.mutate /\ read.opts = before.opts
          /\ order.opts = Over(before.opts, EnvOptions(Env))
      BY <2>3, <2>5, <2>6, <2>7
    <3>2. ASSUME NEW g \in OwnOptions
          PROVE  g \in DOMAIN order.opts /\ order.opts[g] = ReadAll(line).opts[g]
      <4>1. g \in DOMAIN before.opts /\ before.opts[g] = ReadAll(line).opts[g]
        BY <2>2 DEF before
      <4>2. DOMAIN order.opts = DOMAIN before.opts \cup DOMAIN EnvOptions(Env)
        BY <3>1, OverDomain, Zenon
      <4>3. order.opts[g] = before.opts[g]
        <5>1. Over(before.opts, EnvOptions(Env))[g] = before.opts[g]
          BY <4>1, OverValue
        <5> QED BY <3>1, <5>1, Zenon
      <4> QED BY <4>1, <4>2, <4>3
    <3> QED BY <2>5, <2>7, <3>1, <3>2
  <2>8. order.ok => /\ OwnOptions \subseteq DOMAIN order.opts
                    /\ order.opts["repo"] = Trim(project.repo_path) /\ order.opts["task_id"] = t
                    /\ order.opts["agenda_id"] = agenda
                    /\ order.opts["state"] = IF writable THEN Trim(project.repo_path) \o <<"/", ".canopus">>
                                             ELSE WorkerEnv.state
    BY <1>7, <2>7 DEF OwnOptions
  <2> QED BY <1>10, <2>6, <2>7, <2>8, Zenon DEF order, agenda
<1> QED BY <1>9, <1>10

-----------------------------------------------------------------------------
(* Paths and directories.  First facts about records, for any set of paths. *)

(* A fresh registration is well formed when its repository exists. *)
LEMMA NewRecordFits ==
  ASSUME NEW path, NEW registration \in Registrations \cup {<<>>}, NEW paths, path \in paths
  PROVE  WellFormed(NewRecord(path, registration), paths)
BY DEF WellFormed, NewRecord

(* Directories are never removed, so that a record stays well formed. *)
LEMMA RecordStays ==
  ASSUME NEW project, NEW paths, NEW more, paths \subseteq more, WellFormed(project, paths)
  PROVE  WellFormed(project, more)
BY DEF WellFormed

(* A command stays well formed when paths are added. *)
LEMMA CommandStays ==
  ASSUME NEW k, NEW paths, NEW more, paths \subseteq more, WellFormedCommand(k, paths)
  PROVE  WellFormedCommand(k, more)
BY RecordStays DEF WellFormedCommand

(* A worktree that is recorded under a new name leaves the active one alone. *)
LEMMA RecordedFits ==
  ASSUME NEW project, NEW paths, NEW name, NEW path, WellFormed(project, paths),
         name \notin DOMAIN project.worktrees, path \in paths
  PROVE  WellFormed(record_project_worktree(project, name, path), paths)
<1> DEFINE q == record_project_worktree(project, name, path)
<1>1. /\ DOMAIN q = {"repo_path", "base", "active", "worktrees", "github"}
      /\ q.repo_path = project.repo_path /\ q.base = project.base
      /\ q.active = project.active
      /\ q.worktrees = Put(project.worktrees, name, path)
      /\ q.github = project.github
  BY DEF WellFormed, record_project_worktree
<1>2. \A n \in DOMAIN project.worktrees : Put(project.worktrees, name, path)[n] = project.worktrees[n]
  BY DEF Put
<1>3. \A n \in DOMAIN Put(project.worktrees, name, path) :
        Put(project.worktrees, name, path)[n] \in paths
  BY DEF WellFormed, Put
<1>4. DOMAIN Put(project.worktrees, name, path) = DOMAIN project.worktrees \cup {name}
  BY DEF Put
<1> HIDE DEF q
<1> QED BY <1>1, <1>2, <1>3, <1>4 DEF WellFormed, q

(* A switch leads to a worktree that is recorded. *)
LEMMA SwitchedFits ==
  ASSUME NEW project, NEW paths, NEW name \in DOMAIN project.worktrees, WellFormed(project, paths)
  PROVE  WellFormed(switch_project_worktree(project, name), paths)
<1> DEFINE q == switch_project_worktree(project, name)
<1>1. /\ DOMAIN q = {"repo_path", "base", "active", "worktrees", "github"}
      /\ q.repo_path = project.worktrees[name] /\ q.base = project.base
      /\ q.active = name
      /\ q.worktrees = project.worktrees /\ q.github = project.github
  BY DEF WellFormed, switch_project_worktree
<1> HIDE DEF q
<1> QED BY <1>1 DEF WellFormed, q

(* One record that is well formed is put among others. *)
LEMMA PutFits ==
  ASSUME NEW records, NEW c, NEW record, NEW paths, WellFormed(record, paths),
         \A d \in DOMAIN records : WellFormed(records[d], paths)
  PROVE  \A d \in DOMAIN Put(records, c, record) : WellFormed(Put(records, c, record)[d], paths)
<1> TAKE d \in DOMAIN Put(records, c, record)
<1>1. CASE d = c
  BY <1>1 DEF Put
<1>2. CASE d # c
  BY <1>2 DEF Put
<1> QED BY <1>1, <1>2

-----------------------------------------------------------------------------
(* Then the steps. *)

Records == \A c \in DOMAIN projects : WellFormed(projects[c], DOMAIN dirs)
Commands == \A s \in Slots : WellFormedCommand(commands[s], DOMAIN dirs)
Paths == \A path \in DOMAIN dirs : path \in Text /\ ~IsBlank(path)
Orders == \A t \in DOMAIN tasks : IsOrder(t, tasks[t], DOMAIN dirs)

(* A write of a well-formed record over a well-formed registry. *)
LEMMA WriteFits ==
  ASSUME NEW seen, NEW c \in Categories, NEW record, NEW told, NEW others,
         Writes(seen, c, record), TypeOK,
         TellsRecord(c, told, others) \/ TellsChange(c, told, others),
         DOMAIN seen \subseteq Categories, UNCHANGED dirs,
         WellFormed(record, DOMAIN dirs), \A d \in DOMAIN seen : WellFormed(seen[d], DOMAIN dirs)
  PROVE  /\ Records'
         /\ DOMAIN projects' \subseteq Categories /\ DOMAIN promised' \subseteq Categories
         /\ overlapped' \subseteq Categories
<1>1. Records'
  <2>1. \A d \in DOMAIN Put(seen, c, record) : WellFormed(Put(seen, c, record)[d], DOMAIN dirs)
    BY PutFits
  <2> QED BY <2>1 DEF Writes, Records
<1>2. DOMAIN projects' \subseteq Categories /\ DOMAIN promised' \subseteq Categories
  BY DEF Put, Writes, TellsRecord, TellsChange, TypeOK
<1>3. overlapped' \subseteq Categories
  BY DEF TellsRecord, TellsChange, TypeOK
<1> QED BY <1>1, <1>2, <1>3

(* A command that begins, or ends, leaves the others as they are. *)
LEMMA CommandsChange ==
  ASSUME TypeOK, Commands, NEW s \in Slots, NEW k, DOMAIN dirs \subseteq DOMAIN dirs',
         commands' = [commands EXCEPT ![s] = k],
         k.kind \in {"idle", "register", "new", "create", "run"},
         WellFormedCommand(k, DOMAIN dirs')
  PROVE  /\ Commands'
         /\ commands' = [x \in Slots |-> commands'[x]]
         /\ \A x \in Slots : commands'[x].kind \in {"idle", "register", "new", "create", "run"}
<1>1. \A x \in Slots : commands'[x] = IF x = s THEN k ELSE commands[x]
  BY DEF TypeOK
<1>2. \A x \in Slots : WellFormedCommand(commands[x], DOMAIN dirs')
  BY CommandStays DEF Commands
<1> QED BY <1>1, <1>2 DEF TypeOK, Commands

(* A slot without a command is well formed. *)
LEMMA IdleFits == \A paths : WellFormedCommand(Idle, paths) /\ Idle.kind = "idle"
BY DEF WellFormedCommand, Idle

(* The registry is empty at first. *)
LEMMA RegistryInit == Init => RegistryInv
<1> SUFFICES ASSUME Init PROVE RegistryInv
  OBVIOUS
<1>1. TypeOK
  <2>1. /\ commands = [s \in Slots |-> commands[s]]
        /\ \A s \in Slots : commands[s].kind \in {"idle", "register", "new", "create", "run"}
    BY DEF Init, Idle
  <2>2. DOMAIN projects = {} /\ DOMAIN promised = {} /\ DOMAIN tasks = {}
    BY DEF Init
  <2>3. given \in 0 .. MaxCommands /\ categories \subseteq Categories
    BY ProjectsAssumption DEF Init
  <2>4. overlapped \subseteq Categories
    BY DEF Init
  <2> QED BY <2>1, <2>2, <2>3, <2>4 DEF TypeOK
<1>2. Records
  BY DEF Init, Records
<1>3. Commands
  BY IdleFits DEF Init, Commands
<1>4. Paths
  BY ProjectsAssumption DEF Init, Paths
<1>5. Orders
  BY DEF Init, Orders
<1> QED BY <1>1, <1>2, <1>3, <1>4, <1>5 DEF RegistryInv, Records, Commands, Paths, Orders

Kinds == {"idle", "register", "new", "create", "run"}

CommandsTyped ==
  /\ commands = [s \in Slots |-> commands[s]]
  /\ \A s \in Slots : commands[s].kind \in Kinds

(* A command counts once. *)
LEMMA GivenStep ==
  ASSUME TypeOK, GiveCommand
  PROVE  given' \in 0 .. MaxCommands
BY ProjectsAssumption DEF TypeOK, GiveCommand

(* A command that begins with well-formed contents. *)
LEMMA BeginsFits ==
  ASSUME TypeOK, Commands, NEW s \in Slots, NEW k, Begins(s, k), k.kind \in Kinds,
         DOMAIN dirs \subseteq DOMAIN dirs', WellFormedCommand(k, DOMAIN dirs')
  PROVE  Commands' /\ CommandsTyped' /\ given' \in 0 .. MaxCommands
BY CommandsChange, GivenStep DEF Begins, CommandsTyped, Kinds

(* A command that ends leaves the other ones as they are. *)
LEMMA EndsFits ==
  ASSUME TypeOK, Commands, NEW s \in Slots, Ends(s), DOMAIN dirs \subseteq DOMAIN dirs'
  PROVE  Commands' /\ CommandsTyped'
BY CommandsChange, IdleFits DEF Ends, CommandsTyped, Kinds

(* The commands stay well formed when they are not touched. *)
LEMMA CommandsStay ==
  ASSUME TypeOK, Commands, UNCHANGED commands, DOMAIN dirs \subseteq DOMAIN dirs'
  PROVE  Commands' /\ CommandsTyped'
<1>1. Commands'
  BY CommandStays DEF Commands
<1>2. CommandsTyped'
  BY DEF CommandsTyped, Kinds, TypeOK
<1> QED BY <1>1, <1>2

(* And so do the records. *)
LEMMA RecordsStay ==
  ASSUME Records, UNCHANGED projects, DOMAIN dirs \subseteq DOMAIN dirs'
  PROVE  Records'
BY RecordStays DEF Records

(* An order stands for the project as it was, whatever is added. *)
LEMMA OrdersStay ==
  ASSUME Orders, UNCHANGED tasks, DOMAIN dirs \subseteq DOMAIN dirs'
  PROVE  Orders'
BY RecordStays DEF Orders, IsOrder

(* Paths stay texts while no directory is made. *)
LEMMA PathsStay ==
  ASSUME Paths, UNCHANGED dirs
  PROVE  Paths'
BY DEF Paths

(* Another path is a text like the others. *)
LEMMA PathsGrow ==
  ASSUME Paths, NEW path \in Text, ~IsBlank(path), NEW repository, dirs' = Put(dirs, path, repository)
  PROVE  Paths'
BY DEF Paths, Put

(* The registry's part of the type invariant, and the rest. *)
RegistryTyped ==
  DOMAIN projects \subseteq Categories /\ DOMAIN promised \subseteq Categories /\ overlapped \subseteq Categories

RestTyped ==
  categories \subseteq Categories /\ DOMAIN tasks \subseteq TaskTexts /\ given \in 0 .. MaxCommands

(* The invariant is its parts. *)
LEMMA Parts ==
  RegistryInv <=> RegistryTyped /\ RestTyped /\ CommandsTyped /\ Records /\ Commands
                  /\ Paths /\ Orders
BY DEF RegistryInv, Paths, Orders, RegistryTyped, RestTyped, CommandsTyped, Records, Commands, TypeOK, Kinds

(* After a step as before it. *)
LEMMA PartsNext ==
  RegistryTyped' /\ RestTyped' /\ CommandsTyped' /\ Records' /\ Commands' /\ Paths' /\ Orders'
    => RegistryInv'
BY DEF RegistryInv, Paths, Orders, RegistryTyped, RestTyped, CommandsTyped, Records, Commands, TypeOK, Kinds

(* Nothing is lost from a registry that is put into. *)
LEMMA PutGrows == \A f, x, v : DOMAIN f \subseteq DOMAIN Put(f, x, v) /\ x \in DOMAIN Put(f, x, v)
BY DEF Put

(* !register without GitHub. *)
LEMMA RegisterStep ==
  ASSUME RegistryInv, NEW c \in Categories, NEW path \in DOMAIN dirs, Register(c, path)
  PROVE  RegistryInv'
<1> USE Parts, PartsNext
<1>1. TypeOK
  BY DEF RegistryInv
<1>2. WellFormed(NewRecord(path, <<>>), DOMAIN dirs)
  BY NewRecordFits
<1>3. Records' /\ RegistryTyped'
  BY <1>1, <1>2, WriteFits DEF Register, RegistryTyped, Records
<1>4. Commands' /\ CommandsTyped'
  BY <1>1, CommandsStay DEF Register
<1>5. RestTyped'
  BY <1>1, GivenStep DEF Register, RestTyped
<1>6. Paths' /\ Orders'
  BY PathsStay, OrdersStay DEF Register
<1> QED BY <1>3, <1>4, <1>5, <1>6

(* !worktree switch. *)
LEMMA SwitchStep ==
  ASSUME RegistryInv, NEW c \in Categories, NEW name, Switch(c, name)
  PROVE  RegistryInv'
<1> USE Parts, PartsNext
<1>1. TypeOK
  BY DEF RegistryInv
<1>2. WellFormed(switch_project_worktree(projects[c], name), DOMAIN dirs)
  BY SwitchedFits DEF Switch, Records
<1>3. Records' /\ RegistryTyped'
  BY <1>1, <1>2, WriteFits DEF Switch, RegistryTyped, Records
<1>4. Commands' /\ CommandsTyped'
  BY <1>1, CommandsStay DEF Switch
<1>5. RestTyped'
  BY <1>1, GivenStep DEF Switch, RestTyped
<1>6. Paths' /\ Orders'
  BY PathsStay, OrdersStay DEF Switch
<1> QED BY <1>3, <1>4, <1>5, <1>6

(* !register, up to its await. *)
LEMMA RegisterBeginsStep ==
  ASSUME RegistryInv, NEW s \in Slots, NEW c \in Categories, NEW path \in DOMAIN dirs,
         NEW g \in Registrations, RegisterBegins(s, c, path, g)
  PROVE  RegistryInv'
<1> USE Parts, PartsNext
<1>1. TypeOK
  BY DEF RegistryInv
<1> DEFINE k == [kind |-> "register", category |-> c, seen |-> projects,
                 record |-> merge_project_registration(path, g)]
<1>2. WellFormedCommand(k, DOMAIN dirs)
  BY NewRecordFits DEF WellFormedCommand, merge_project_registration, Records, RegistryTyped
<1>3. k.kind \in Kinds
  BY DEF Kinds
<1>4. Begins(s, k) /\ UNCHANGED <<projects, categories, dirs, branches, tasks, promised, overlapped>>
  BY DEF RegisterBegins
<1> HIDE DEF k
<1>5. Commands' /\ CommandsTyped' /\ given' \in 0 .. MaxCommands
  BY <1>1, <1>2, <1>3, <1>4, BeginsFits
<1>6. Records' /\ RegistryTyped' /\ RestTyped' /\ Paths' /\ Orders'
  BY <1>4, <1>5, RecordsStay, PathsStay, OrdersStay DEF RegistryTyped, RestTyped
<1> QED BY <1>5, <1>6

(* !new-project, up to its await. *)
LEMMA NewProjectBeginsStep ==
  ASSUME RegistryInv, NEW s \in Slots, NEW c \in Categories, NEW path \in NewRepos,
         NEW g \in Registrations \cup {<<>>}, NewProjectBegins(s, c, path, g)
  PROVE  RegistryInv'
<1> USE Parts, PartsNext
<1>1. TypeOK
  BY DEF RegistryInv
<1> DEFINE k == [kind |-> "new", category |-> c, seen |-> projects,
                 record |-> merge_project_registration(path, g)]
<1>2. DOMAIN dirs \subseteq DOMAIN dirs' /\ path \in DOMAIN dirs'
  BY PutGrows DEF NewProjectBegins
<1>3. Records'
  BY <1>2, RecordsStay DEF NewProjectBegins
<1>4. WellFormedCommand(k, DOMAIN dirs')
  BY <1>2, <1>3, NewRecordFits
  DEF WellFormedCommand, merge_project_registration, Records, RegistryTyped, NewProjectBegins
<1>5. k.kind \in Kinds
  BY DEF Kinds
<1>6. Begins(s, k) /\ UNCHANGED <<projects, categories, branches, tasks, promised, overlapped>>
  BY DEF NewProjectBegins
<1> HIDE DEF k
<1>7. Commands' /\ CommandsTyped' /\ given' \in 0 .. MaxCommands
  BY <1>1, <1>2, <1>4, <1>5, <1>6, BeginsFits
<1>8. RegistryTyped' /\ RestTyped'
  BY <1>6, <1>7 DEF RegistryTyped, RestTyped
<1>9. Paths'
  <2>1. path \in Text /\ ~IsBlank(path)
    BY ProjectsAssumption
  <2> QED BY <2>1, PathsStay, PathsGrow DEF NewProjectBegins
<1>10. Orders'
  BY <1>2, <1>6, OrdersStay
<1> QED BY <1>3, <1>7, <1>8, <1>9, <1>10

(* !worktree create, up to its await. *)
LEMMA CreateBeginsStep ==
  ASSUME RegistryInv, NEW s \in Slots, NEW c \in Categories, NEW name \in Names,
         CreateBegins(s, c, name)
  PROVE  RegistryInv'
<1> USE Parts, PartsNext
<1>1. TypeOK
  BY DEF RegistryInv
<1> DEFINE k == [kind |-> "create", category |-> c, seen |-> projects, name |-> name,
                 record |-> projects[c], path |-> <<>>]
<1>2. WellFormedCommand(k, DOMAIN dirs)
  BY DEF WellFormedCommand, Records, RegistryTyped, CreateBegins
<1>3. k.kind \in Kinds
  BY DEF Kinds
<1>4. Begins(s, k) /\ UNCHANGED <<projects, categories, dirs, branches, tasks, promised, overlapped>>
  BY DEF CreateBegins
<1> HIDE DEF k
<1>5. Commands' /\ CommandsTyped' /\ given' \in 0 .. MaxCommands
  BY <1>1, <1>2, <1>3, <1>4, BeginsFits
<1>6. Records' /\ RegistryTyped' /\ RestTyped' /\ Paths' /\ Orders'
  BY <1>4, <1>5, RecordsStay, PathsStay, OrdersStay DEF RegistryTyped, RestTyped
<1> QED BY <1>5, <1>6

(* !run, up to its await. *)
LEMMA RunBeginsStep ==
  ASSUME RegistryInv, NEW s \in Slots, NEW c \in Categories, NEW request \in Requests,
         RunBegins(s, c, request)
  PROVE  RegistryInv'
<1> USE Parts, PartsNext
<1>1. TypeOK
  BY DEF RegistryInv
<1> DEFINE t == CHOOSE x \in FreshTasks : TRUE
<1> DEFINE k == [kind |-> "run", category |-> c, project |-> projects[c], task |-> t,
                 request |-> request]
<1>2. t \in TaskTexts
  <2>1. FreshTasks # {}
    BY DEF RunBegins
  <2>2. t \in FreshTasks
    BY <2>1
  <2> QED BY <2>2 DEF FreshTasks
<1>3. WellFormedCommand(k, DOMAIN dirs)
  BY <1>2 DEF WellFormedCommand, Records, RunBegins
<1>4. k.kind \in Kinds
  BY DEF Kinds
<1>5. Begins(s, k) /\ UNCHANGED <<projects, categories, dirs, branches, tasks, promised, overlapped>>
  BY DEF RunBegins
<1> HIDE DEF k
<1>6. Commands' /\ CommandsTyped' /\ given' \in 0 .. MaxCommands
  BY <1>1, <1>3, <1>4, <1>5, BeginsFits
<1>7. Records' /\ RegistryTyped' /\ RestTyped' /\ Paths' /\ Orders'
  BY <1>5, <1>6, RecordsStay, PathsStay, OrdersStay DEF RegistryTyped, RestTyped
<1> QED BY <1>6, <1>7

(* What a command that ends writes is what WellFormedCommand says of it. *)
LEMMA EndsStep ==
  ASSUME RegistryInv, NEW s \in Slots, RegisterEnds(s) \/ NewProjectEnds(s) \/ CreateEnds(s)
  PROVE  RegistryInv'
<1> USE Parts, PartsNext
<1>1. TypeOK
  BY DEF RegistryInv
<1>2. Ends(s) /\ UNCHANGED <<categories, dirs, branches, tasks, given>>
  BY DEF RegisterEnds, NewProjectEnds, CreateEnds
<1>3. WellFormedCommand(commands[s], DOMAIN dirs)
  BY DEF Commands
<1>4. Records' /\ RegistryTyped'
  <2>1. CASE RegisterEnds(s)
    <3>1. /\ commands[s].category \in Categories /\ WellFormed(commands[s].record, DOMAIN dirs)
          /\ DOMAIN commands[s].seen \subseteq Categories
          /\ \A c \in DOMAIN commands[s].seen : WellFormed(commands[s].seen[c], DOMAIN dirs)
      BY <1>3, <2>1 DEF WellFormedCommand, RegisterEnds
    <3> QED BY <1>1, <1>2, <2>1, <3>1, WriteFits DEF RegisterEnds, RegistryTyped
  <2>2. CASE NewProjectEnds(s)
    <3>1. commands[s].category \in Categories /\ WellFormed(commands[s].record, DOMAIN dirs)
      BY <1>3, <2>2 DEF WellFormedCommand, NewProjectEnds
    <3> QED BY <1>1, <1>2, <2>2, <3>1, WriteFits DEF NewProjectEnds, RegistryTyped, Records
  <2>3. CASE CreateEnds(s)
    <3> DEFINE k == commands[s]
    <3> DEFINE record == record_project_worktree(k.record, k.name, k.path)
    <3>1. /\ k.category \in Categories /\ WellFormed(k.record, DOMAIN dirs)
          /\ DOMAIN k.seen \subseteq Categories
          /\ \A c \in DOMAIN k.seen : WellFormed(k.seen[c], DOMAIN dirs)
          /\ k.name \notin DOMAIN k.record.worktrees /\ k.path \in DOMAIN dirs
      BY <1>3, <2>3 DEF WellFormedCommand, CreateEnds
    <3>2. WellFormed(record, DOMAIN dirs)
      BY <3>1, RecordedFits
    <3>3. Writes(k.seen, k.category, record)
      BY <2>3 DEF CreateEnds
    <3> DEFINE told == record_project_worktree(promised[k.category], k.name, k.path)
    <3>4. TellsChange(k.category, told, Slots \ {s})
      BY <2>3 DEF CreateEnds
    <3> HIDE DEF record, told
    <3> QED BY <1>1, <1>2, <3>1, <3>2, <3>3, <3>4, WriteFits DEF RegistryTyped
  <2> QED BY <2>1, <2>2, <2>3
<1>5. Commands' /\ CommandsTyped'
  BY <1>1, <1>2, EndsFits
<1>6. RestTyped' /\ Paths' /\ Orders'
  BY <1>2, PathsStay, OrdersStay DEF RestTyped
<1> QED BY <1>4, <1>5, <1>6

(* A worktree's directory is next to its repository. *)
LEMMA TargetIs ==
  ASSUME NEW base \in Text, ~IsBlank(base), NEW name \in Text
  PROVE  target_path(base, name) \in Text /\ ~IsBlank(target_path(base, name))
<1> DEFINE dash == <<"-">>
           rest == dash \o name
           path == base \o rest
<1>1. dash \in Text
  BY OwnTexts
<1> HIDE DEF dash
<1>2. rest \in Text
  BY <1>1, Joined
<1>3. target_path(base, name) = path
  BY <1>1 DEF target_path, dash, Text
<1> HIDE DEF rest
<1>4. /\ path \in Text /\ Len(path) = Len(base) + Len(rest)
      /\ \A i \in 1 .. Len(base) : path[i] = base[i]
  BY <1>2, Joined
<1>5. PICK i \in DOMAIN base : base[i] # Space
  BY DEF IsBlank
<1>6. Len(base) \in Nat /\ Len(rest) \in Nat /\ DOMAIN base = 1 .. Len(base)
  BY <1>2, LenProperties DEF Text
<1> HIDE DEF path
<1>7. i \in 1 .. Len(base) /\ i \in DOMAIN path
  BY <1>4, <1>5, <1>6, LenProperties DEF Text
<1> QED BY <1>3, <1>4, <1>5, <1>7 DEF IsBlank

(* git adds the directory the command will record. *)
LEMMA CreateWorktreeStep ==
  ASSUME RegistryInv, NEW s \in Slots, create_worktree(s)
  PROVE  RegistryInv'
<1> USE Parts, PartsNext
<1>1. TypeOK
  BY DEF RegistryInv
<1> DEFINE target == target_path(commands[s].record.base, commands[s].name)
           k == [commands[s] EXCEPT !.path = target]
<1>2. DOMAIN dirs \subseteq DOMAIN dirs' /\ target \in DOMAIN dirs'
  BY PutGrows DEF create_worktree
<1>3. WellFormedCommand(commands[s], DOMAIN dirs')
  BY <1>2, CommandStays DEF Commands
<1>4. commands[s].kind = "create"
  BY DEF create_worktree
<1>5. commands' = [commands EXCEPT ![s] = k]
  BY DEF create_worktree
<1> HIDE DEF target
<1>6. /\ k.kind = "create" /\ k.category = commands[s].category /\ k.record = commands[s].record
      /\ k.seen = commands[s].seen /\ k.name = commands[s].name /\ k.path = target
      /\ DOMAIN k = DOMAIN commands[s]
  BY <1>3, <1>4 DEF WellFormedCommand
<1> HIDE DEF k
<1>7. WellFormedCommand(k, DOMAIN dirs')
  BY <1>2, <1>3, <1>4, <1>6 DEF WellFormedCommand
<1>8. Commands' /\ CommandsTyped'
  BY <1>1, <1>2, <1>5, <1>6, <1>7, CommandsChange DEF CommandsTyped, Kinds
<1>9. Records' /\ RegistryTyped' /\ RestTyped' /\ Orders'
  BY <1>2, RecordsStay, OrdersStay DEF create_worktree, RegistryTyped, RestTyped
<1>10. Paths'
  <2>1. commands[s].record.base \in DOMAIN dirs /\ commands[s].name \in Names
    BY <1>4 DEF Commands, WellFormedCommand, WellFormed
  <2>2. target \in Text /\ ~IsBlank(target)
    BY <2>1, TargetIs, ProjectsAssumption DEF target, Paths
  <2> QED BY <2>2, PathsGrow DEF create_worktree, target
<1> QED BY <1>8, <1>9, <1>10

(* The ends that do not write the registry. *)
LEMMA OtherEndsStep ==
  ASSUME RegistryInv, NEW s \in Slots, NEW intake,
         NewProjectRollsBack(s) \/ CommandFails(s) \/ RunAppends(s, intake)
  PROVE  RegistryInv'
<1> USE Parts, PartsNext
<1>1. TypeOK
  BY DEF RegistryInv
<1>2. Ends(s) /\ UNCHANGED <<projects, dirs, branches, promised, overlapped, given>>
  BY DEF NewProjectRollsBack, CommandFails, RunAppends
<1>3. Commands' /\ CommandsTyped' /\ Records' /\ RegistryTyped'
  BY <1>1, <1>2, EndsFits, RecordsStay DEF RegistryTyped
<1>4. categories' \subseteq Categories
  BY DEF NewProjectRollsBack, CommandFails, RunAppends, RestTyped
<1>5. DOMAIN tasks' \subseteq TaskTexts
  <2>1. CASE RunAppends(s, intake)
    <3>1. commands[s].task \in TaskTexts
      BY <2>1 DEF RunAppends, Commands, WellFormedCommand
    <3> QED BY <2>1, <3>1 DEF RunAppends, RestTyped, Put
  <2>2. CASE ~RunAppends(s, intake)
    BY <2>2 DEF NewProjectRollsBack, CommandFails, RestTyped
  <2> QED BY <2>1, <2>2
<1>6. Paths'
  BY <1>2, PathsStay
<1>7. Orders'
  <2>1. CASE RunAppends(s, intake)
    <3> DEFINE k == commands[s]
               payload == build_task_payload(k.task, k.request, k.project, intake)
               task == [payload |-> payload, category |-> k.category, request |-> k.request,
                        project |-> k.project]
    <3>1. /\ k.task \in TaskTexts /\ k.request \in Requests /\ WellFormed(k.project, DOMAIN dirs)
          /\ intake \in Intakes(k.project)
      BY <2>1 DEF RunAppends, Commands, WellFormedCommand
    <3>2. tasks' = Put(tasks, k.task, task)
      BY <2>1 DEF RunAppends
    <3> HIDE DEF payload
    <3>3. task.payload = payload /\ task.request = k.request /\ task.project = k.project
      OBVIOUS
    <3> HIDE DEF k, task
    <3>4. IsOrder(k.task, task, DOMAIN dirs)
      BY <3>1, <3>3 DEF IsOrder, payload
    <3>5. \A t \in DOMAIN tasks' :
            (t \in DOMAIN tasks /\ tasks'[t] = tasks[t]) \/ (t = k.task /\ tasks'[t] = task)
      BY <3>2 DEF Put
    <3> QED BY <1>2, <3>4, <3>5 DEF Orders
  <2>2. CASE ~RunAppends(s, intake)
    BY <1>2, <2>2, OrdersStay DEF NewProjectRollsBack, CommandFails
  <2> QED BY <2>1, <2>2
<1> QED BY <1>2, <1>3, <1>4, <1>5, <1>6, <1>7 DEF RestTyped

(* The category a !new-project creates. *)
LEMMA CategoryCreatedStep ==
  ASSUME RegistryInv, NEW s \in Slots, CategoryCreated(s)
  PROVE  RegistryInv'
<1> USE Parts, PartsNext
<1>1. TypeOK
  BY DEF RegistryInv
<1>2. commands[s].category \in Categories
  BY DEF Commands, WellFormedCommand, CategoryCreated
<1>3. Commands' /\ CommandsTyped' /\ Records' /\ RegistryTyped'
  BY <1>1, CommandsStay, RecordsStay DEF CategoryCreated, RegistryTyped
<1>4. RestTyped' /\ Paths' /\ Orders'
  BY <1>2, PathsStay, OrdersStay DEF CategoryCreated, RestTyped
<1> QED BY <1>3, <1>4

(* The bot stops and forgets its commands. *)
LEMMA BotStopsStep ==
  ASSUME RegistryInv, BotStops
  PROVE  RegistryInv'
<1> USE Parts, PartsNext
<1>1. Records' /\ RegistryTyped' /\ RestTyped' /\ Paths' /\ Orders'
  BY RecordsStay, PathsStay, OrdersStay DEF BotStops, RegistryTyped, RestTyped
<1>2. commands' = [s \in Slots |-> Idle]
  BY DEF BotStops
<1>3. Commands' /\ CommandsTyped'
  BY <1>2, IdleFits DEF Commands, CommandsTyped, Kinds
<1> QED BY <1>1, <1>3

(* Every step keeps the invariant. *)
LEMMA RegistryStep ==
  ASSUME RegistryInv, [Next]_vars
  PROVE  RegistryInv'
<1>1. CASE UNCHANGED vars
  <2>1. TypeOK' = TypeOK
    BY <1>1 DEF TypeOK, vars
  <2> QED BY <1>1, <2>1 DEF RegistryInv, vars
<1>2. CASE Next
  <2>1. CASE BotStops
    BY <2>1, BotStopsStep
  <2>2. ASSUME NEW c \in Categories, NEW path \in DOMAIN dirs, Register(c, path)
        PROVE  RegistryInv'
    BY <2>2, RegisterStep
  <2>3. ASSUME NEW c \in Categories, NEW name, Switch(c, name)
        PROVE  RegistryInv'
    BY <2>3, SwitchStep
  <2>4. ASSUME NEW s \in Slots, NEW c \in Categories,
               \/ \E path \in DOMAIN dirs, g \in Registrations : RegisterBegins(s, c, path, g)
               \/ \E path \in NewRepos, g \in Registrations \cup {<<>>} :
                    NewProjectBegins(s, c, path, g)
               \/ \E name \in Names : CreateBegins(s, c, name)
               \/ \E request \in Requests : RunBegins(s, c, request)
        PROVE  RegistryInv'
    BY <2>4, RegisterBeginsStep, NewProjectBeginsStep, CreateBeginsStep, RunBeginsStep
  <2>5. ASSUME NEW s \in Slots,
               \/ RegisterEnds(s) \/ CategoryCreated(s) \/ NewProjectEnds(s)
               \/ NewProjectRollsBack(s) \/ create_worktree(s) \/ CreateEnds(s) \/ CommandFails(s)
        PROVE  RegistryInv'
    BY <2>5, EndsStep, CategoryCreatedStep, CreateWorktreeStep, OtherEndsStep
  <2>6. ASSUME NEW s \in Slots, NEW intake, RunAppends(s, intake)
        PROVE  RegistryInv'
    BY <2>6, OtherEndsStep
  <2> QED BY <1>2, <2>1, <2>2, <2>3, <2>4, <2>5, <2>6 DEF Next
<1> QED BY <1>1, <1>2

(* Paths and directories fit, and what a waiting command will write fits them
   too, for any number of categories, repositories and commands (europa.py
   545-766, projects_store.py 35-84). *)
THEOREM RegistryFits == Spec => []RegistryInv
<1>1. Init => RegistryInv
  BY RegistryInit
<1>2. RegistryInv /\ [Next]_vars => RegistryInv'
  BY RegistryStep
<1> QED BY <1>1, <1>2, PTL DEF Spec

-----------------------------------------------------------------------------
(* What users were told.  A command that will write back what it has read has
   read the truth about every category that nobody wrote meanwhile. *)

(* What such a command has read, and the record a worktree is added to. *)
ReadFits(k) ==
  /\ k.kind \in {"register", "create"} =>
       \A c \in Categories \ overlapped : SameRecord(k.seen, projects, c)
  /\ k.kind = "create" => k.category \in DOMAIN k.seen /\ k.record = k.seen[k.category]

PromisesInv == RegistryKeepsPromises /\ \A s \in Slots : ReadFits(commands[s])

(* What two registries say after a write to both. *)
LEMMA PutSame ==
  ASSUME NEW f, NEW g, NEW c, NEW v, NEW w, NEW d
  PROVE  SameRecord(Put(f, c, v), Put(g, c, w), d)
           <=> IF d = c THEN v = w ELSE SameRecord(f, g, d)
BY DEF SameRecord, Put

(* What one registry says of a category, another may say for it. *)
LEMMA PutKeeps ==
  ASSUME NEW f, NEW c, NEW v, NEW d, d # c
  PROVE  SameRecord(f, Put(f, c, v), d) /\ SameRecord(Put(f, c, v), f, d)
BY DEF SameRecord, Put

LEMMA SameThrough ==
  ASSUME NEW f, NEW g, NEW h, NEW c, SameRecord(f, g, c), SameRecord(h, g, c)
  PROVE  SameRecord(f, h, c)
BY DEF SameRecord

(* A write of a registry that is true but for what is overlapped: the promise
   is kept, or its category is overlapped from now on. *)
LEMMA WriteKeepsPromises ==
  ASSUME PromisesInv, NEW seen, NEW c \in Categories, NEW record, NEW told, NEW others,
         Writes(seen, c, record), promised' = Put(promised, c, told),
         \A d \in Categories \ overlapped : SameRecord(seen, projects, d),
         overlapped \ {c} \subseteq overlapped',
         c \notin overlapped' => told = record /\ ~Waits(others),
         \A x \in Slots : commands'[x].kind \in {"register", "create"} =>
                            x \in others /\ commands'[x] = commands[x]
  PROVE  PromisesInv'
<1>1. ASSUME NEW d \in Categories \ overlapped', d # c
      PROVE  /\ SameRecord(seen, projects, d) /\ SameRecord(promised, projects, d)
             /\ SameRecord(projects', projects, d)
  <2>1. d \in Categories \ overlapped
    BY <1>1
  <2>2. SameRecord(seen, projects, d) /\ SameRecord(promised, projects, d)
    BY <2>1 DEF PromisesInv, RegistryKeepsPromises
  <2>3. SameRecord(projects', seen, d)
    BY <1>1, PutKeeps DEF Writes
  <2> QED BY <2>2, <2>3 DEF SameRecord
<1>2. RegistryKeepsPromises'
  <2> SUFFICES ASSUME NEW d \in Categories \ overlapped' PROVE SameRecord(promised', projects', d)
    BY DEF RegistryKeepsPromises
  <2>1. CASE d = c
    BY <2>1, PutSame DEF Writes
  <2>2. CASE d # c
    <3>1. SameRecord(promised, seen, d)
      BY <1>1, <2>2, SameThrough
    <3> QED BY <2>2, <3>1, PutSame DEF Writes
  <2> QED BY <2>1, <2>2
<1>3. ASSUME NEW x \in Slots
      PROVE  ReadFits(commands[x])'
  <2> DEFINE k == commands'[x]
  <2>1. CASE k.kind \in {"register", "create"}
    <3>1. k = commands[x] /\ x \in others
      BY <2>1
    <3>2. Waits(others)
      BY <2>1, <3>1 DEF Waits
    <3>3. \A d \in Categories \ overlapped' : d # c /\ d \in Categories \ overlapped
      BY <3>2
    <3>4. ReadFits(commands[x])
      BY DEF PromisesInv
    <3>5. \A d \in Categories \ overlapped' : SameRecord(k.seen, projects, d)
      BY <2>1, <3>1, <3>3, <3>4 DEF ReadFits
    <3>6. \A d \in Categories \ overlapped' : SameRecord(k.seen, projects', d)
      <4> TAKE d \in Categories \ overlapped'
      <4>1. SameRecord(k.seen, projects, d) /\ SameRecord(projects', projects, d)
        BY <1>1, <3>3, <3>5
      <4> QED BY <4>1, SameThrough
    <3> QED BY <3>1, <3>4, <3>6 DEF ReadFits
  <2>2. CASE k.kind \notin {"register", "create"}
    BY <2>2 DEF ReadFits
  <2> QED BY <2>1, <2>2
<1> QED BY <1>2, <1>3 DEF PromisesInv

(* A step that writes nothing: the commands that wait are those of before, or
   have just read the registry. *)
LEMMA ReadingKeepsPromises ==
  ASSUME PromisesInv, UNCHANGED <<projects, promised, overlapped>>,
         \A x \in Slots : commands'[x].kind \in {"register", "create"} =>
           \/ ReadFits(commands'[x])
           \/ commands'[x] = commands[x]
  PROVE  PromisesInv'
<1>1. RegistryKeepsPromises'
  BY DEF PromisesInv, RegistryKeepsPromises
<1>2. \A x \in Slots : ReadFits(commands'[x])
  BY DEF PromisesInv, ReadFits
<1>3. \A x \in Slots : ReadFits(commands[x])'
  BY <1>2 DEF ReadFits
<1> QED BY <1>1, <1>3 DEF PromisesInv

(* A command that ends is none that waits, and the others are as before. *)
LEMMA EndedIsQuiet ==
  ASSUME TypeOK, NEW s \in Slots, Ends(s)
  PROVE  \A x \in Slots : commands'[x].kind \in {"register", "create"} =>
           x \in Slots \ {s} /\ commands'[x] = commands[x]
<1>1. \A x \in Slots : commands'[x] = IF x = s THEN Idle ELSE commands[x]
  BY DEF TypeOK, Ends
<1> QED BY <1>1 DEF Idle

(* The steps that write the registry. *)
LEMMA WritesKeepPromises ==
  ASSUME RegistryInv, PromisesInv
  PROVE  /\ \A c \in Categories, path \in DOMAIN dirs : Register(c, path) => PromisesInv'
         /\ \A c \in Categories : \A name : Switch(c, name) => PromisesInv'
         /\ \A s \in Slots : RegisterEnds(s) \/ NewProjectEnds(s) \/ CreateEnds(s) => PromisesInv'
<1>1. TypeOK
  BY DEF RegistryInv
<1>2. \A d \in Categories \ overlapped : SameRecord(projects, projects, d)
  BY DEF SameRecord
<1>3. ASSUME NEW c \in Categories, NEW path \in DOMAIN dirs, Register(c, path)
      PROVE  PromisesInv'
  <2> DEFINE record == NewRecord(path, <<>>)
  <2>1. /\ Writes(projects, c, record) /\ promised' = Put(promised, c, record)
        /\ overlapped \ {c} \subseteq overlapped'
        /\ c \notin overlapped' => ~Waits(Slots)
        /\ \A x \in Slots : commands'[x] = commands[x]
    BY <1>3 DEF Register, TellsRecord
  <2> HIDE DEF record
  <2> QED BY <1>2, <2>1, WriteKeepsPromises
<1>4. ASSUME NEW c \in Categories, NEW name, Switch(c, name)
      PROVE  PromisesInv'
  <2> DEFINE record == switch_project_worktree(projects[c], name)
             told == [promised[c] EXCEPT !.active = name,
                                         !.repo_path = projects[c].worktrees[name]]
  <2>1. /\ Writes(projects, c, record) /\ promised' = Put(promised, c, told)
        /\ overlapped \subseteq overlapped'
        /\ c \notin overlapped' => ~Waits(Slots)
        /\ \A x \in Slots : commands'[x] = commands[x]
    BY <1>4 DEF Switch, TellsChange
  <2>2. c \in DOMAIN projects
    BY <1>4 DEF Switch
  <2>3. c \notin overlapped => told = record
    <3> SUFFICES ASSUME c \notin overlapped PROVE told = record
      OBVIOUS
    <3>1. SameRecord(promised, projects, c)
      BY DEF PromisesInv, RegistryKeepsPromises
    <3>2. promised[c] = projects[c]
      BY <2>2, <3>1 DEF SameRecord
    <3> QED BY <3>2 DEF switch_project_worktree
  <2> HIDE DEF record, told
  <2> QED BY <1>2, <2>1, <2>3, WriteKeepsPromises
<1>5. ASSUME NEW s \in Slots, RegisterEnds(s) \/ NewProjectEnds(s) \/ CreateEnds(s)
      PROVE  PromisesInv'
  <2> DEFINE k == commands[s]
  <2>1. /\ k.kind \in {"register", "new", "create"} /\ k.category \in Categories
        /\ Ends(s)
    BY <1>5 DEF RegisterEnds, NewProjectEnds, CreateEnds, RegistryInv, WellFormedCommand
  <2>2. \A x \in Slots : commands'[x].kind \in {"register", "create"} =>
          x \in Slots \ {s} /\ commands'[x] = commands[x]
    BY <1>1, <2>1, EndedIsQuiet
  <2>3. ReadFits(k)
    BY DEF PromisesInv
  <2>4. CASE RegisterEnds(s) \/ NewProjectEnds(s)
    <3>1. PICK seen \in {k.seen, projects} :
            /\ Writes(seen, k.category, k.record)
            /\ \A d \in Categories \ overlapped : SameRecord(seen, projects, d)
      BY <1>2, <2>3, <2>4 DEF RegisterEnds, NewProjectEnds, ReadFits
    <3>2. /\ promised' = Put(promised, k.category, k.record)
          /\ overlapped \ {k.category} \subseteq overlapped'
          /\ k.category \notin overlapped' => ~Waits(Slots \ {s})
      BY <2>4 DEF RegisterEnds, NewProjectEnds, TellsRecord
    <3> HIDE DEF k
    <3> QED BY <2>1, <2>2, <3>1, <3>2, WriteKeepsPromises
  <2>5. CASE CreateEnds(s)
    <3> DEFINE c == k.category
               record == record_project_worktree(k.record, k.name, k.path)
               told == record_project_worktree(promised[c], k.name, k.path)
    <3>1. /\ Writes(k.seen, c, record) /\ promised' = Put(promised, c, told)
          /\ overlapped \subseteq overlapped'
          /\ c \notin overlapped' => ~Waits(Slots \ {s})
          /\ k.kind = "create"
      BY <2>5 DEF CreateEnds, TellsChange
    <3>2. \A d \in Categories \ overlapped : SameRecord(k.seen, projects, d)
      BY <2>3, <3>1 DEF ReadFits
    <3>3. c \notin overlapped => told = record
      <4> SUFFICES ASSUME c \notin overlapped PROVE told = record
        OBVIOUS
      <4>1. c \in Categories
        BY <2>1
      <4>2. SameRecord(promised, projects, c) /\ SameRecord(k.seen, projects, c)
        BY <3>2, <4>1 DEF PromisesInv, RegistryKeepsPromises
      <4>3. c \in DOMAIN k.seen /\ k.record = k.seen[c]
        BY <2>3, <3>1 DEF ReadFits
      <4>4. promised[c] = k.record
        BY <4>2, <4>3 DEF SameRecord
      <4> QED BY <4>4
    <3> HIDE DEF record, told, k
    <3> QED BY <2>1, <2>2, <3>1, <3>2, <3>3, WriteKeepsPromises
  <2> QED BY <1>5, <2>4, <2>5
<1> QED BY <1>3, <1>4, <1>5

(* The steps that do not. *)
LEMMA OthersKeepPromises ==
  ASSUME RegistryInv, PromisesInv, NEW s \in Slots
  PROVE  /\ \A c \in Categories, path \in DOMAIN dirs, g \in Registrations :
              RegisterBegins(s, c, path, g) => PromisesInv'
         /\ \A c \in Categories, path \in NewRepos, g \in Registrations \cup {<<>>} :
              NewProjectBegins(s, c, path, g) => PromisesInv'
         /\ \A c \in Categories, name \in Names : CreateBegins(s, c, name) => PromisesInv'
         /\ \A c \in Categories, request \in Requests : RunBegins(s, c, request) => PromisesInv'
         /\ CategoryCreated(s) \/ NewProjectRollsBack(s) \/ create_worktree(s) \/ CommandFails(s)
              => PromisesInv'
         /\ \A intake : RunAppends(s, intake) => PromisesInv'
<1>1. TypeOK
  BY DEF RegistryInv
<1>2. ASSUME NEW k, Begins(s, k), ReadFits(k), UNCHANGED <<projects, promised, overlapped>>
      PROVE  PromisesInv'
  <2>1. \A x \in Slots : commands'[x] = IF x = s THEN k ELSE commands[x]
    BY <1>1, <1>2 DEF Begins, TypeOK
  <2> QED BY <1>2, <2>1, ReadingKeepsPromises
<1>3. \A c \in Categories \ overlapped : SameRecord(projects, projects, c)
  BY DEF SameRecord
<1>4. ASSUME NEW c \in Categories, NEW path \in DOMAIN dirs, NEW g \in Registrations,
             RegisterBegins(s, c, path, g)
      PROVE  PromisesInv'
  <2> DEFINE k == [kind |-> "register", category |-> c, seen |-> projects,
                   record |-> merge_project_registration(path, g)]
  <2>1. Begins(s, k) /\ UNCHANGED <<projects, promised, overlapped>>
    BY <1>4 DEF RegisterBegins
  <2>2. ReadFits(k)
    BY <1>3 DEF ReadFits
  <2> HIDE DEF k
  <2> QED BY <1>2, <2>1, <2>2
<1>5. ASSUME NEW c \in Categories, NEW path \in NewRepos, NEW g \in Registrations \cup {<<>>},
             NewProjectBegins(s, c, path, g)
      PROVE  PromisesInv'
  <2> DEFINE k == [kind |-> "new", category |-> c, seen |-> projects,
                   record |-> merge_project_registration(path, g)]
  <2>1. Begins(s, k) /\ UNCHANGED <<projects, promised, overlapped>>
    BY <1>5 DEF NewProjectBegins
  <2>2. ReadFits(k)
    BY DEF ReadFits
  <2> HIDE DEF k
  <2> QED BY <1>2, <2>1, <2>2
<1>6. ASSUME NEW c \in Categories, NEW name \in Names, CreateBegins(s, c, name)
      PROVE  PromisesInv'
  <2> DEFINE k == [kind |-> "create", category |-> c, seen |-> projects, name |-> name,
                   record |-> projects[c], path |-> <<>>]
  <2>1. Begins(s, k) /\ UNCHANGED <<projects, promised, overlapped>> /\ c \in DOMAIN projects
    BY <1>6 DEF CreateBegins
  <2>2. ReadFits(k)
    BY <1>3, <2>1 DEF ReadFits
  <2> HIDE DEF k
  <2> QED BY <1>2, <2>1, <2>2
<1>7. ASSUME NEW c \in Categories, NEW request \in Requests, RunBegins(s, c, request)
      PROVE  PromisesInv'
  <2> DEFINE k == [kind |-> "run", category |-> c, project |-> projects[c],
                   task |-> CHOOSE t \in FreshTasks : TRUE, request |-> request]
  <2>1. Begins(s, k) /\ UNCHANGED <<projects, promised, overlapped>>
    BY <1>7 DEF RunBegins
  <2>2. ReadFits(k)
    BY DEF ReadFits
  <2> HIDE DEF k
  <2> QED BY <1>2, <2>1, <2>2
<1>8. CASE CategoryCreated(s)
  BY <1>8, ReadingKeepsPromises DEF CategoryCreated
<1>9. ASSUME NEW intake, NewProjectRollsBack(s) \/ CommandFails(s) \/ RunAppends(s, intake)
      PROVE  PromisesInv'
  <2>1. Ends(s) /\ UNCHANGED <<projects, promised, overlapped>>
    BY <1>9 DEF NewProjectRollsBack, CommandFails, RunAppends
  <2> QED BY <1>1, <2>1, EndedIsQuiet, ReadingKeepsPromises
<1>10. CASE create_worktree(s)
  <2> DEFINE target == target_path(commands[s].record.base, commands[s].name)
             k == [commands[s] EXCEPT !.path = target]
  <2>1. /\ commands[s].kind = "create" /\ UNCHANGED <<projects, promised, overlapped>>
        /\ commands' = [commands EXCEPT ![s] = k]
    BY <1>10 DEF create_worktree
  <2>2. WellFormedCommand(commands[s], DOMAIN dirs)
    BY DEF RegistryInv
  <2> HIDE DEF target
  <2>3. /\ k.kind = commands[s].kind /\ k.category = commands[s].category
        /\ k.record = commands[s].record /\ k.seen = commands[s].seen
    BY <2>1, <2>2 DEF WellFormedCommand
  <2> HIDE DEF k
  <2>4. ReadFits(k)
    BY <2>3 DEF ReadFits, PromisesInv
  <2>5. \A x \in Slots : commands'[x] = IF x = s THEN k ELSE commands[x]
    BY <1>1, <2>1 DEF TypeOK
  <2> QED BY <2>1, <2>4, <2>5, ReadingKeepsPromises
<1> QED BY <1>4, <1>5, <1>6, <1>7, <1>8, <1>9, <1>10

(* Every step keeps what users were told. *)
LEMMA PromisesStep ==
  ASSUME RegistryInv, PromisesInv, [Next]_vars
  PROVE  PromisesInv'
<1>1. CASE UNCHANGED vars
  BY <1>1, ReadingKeepsPromises DEF vars
<1>2. CASE BotStops
  <2>1. \A x \in Slots : commands'[x].kind \notin {"register", "create"}
    BY <1>2 DEF BotStops, Idle
  <2> QED BY <1>2, <2>1, ReadingKeepsPromises DEF BotStops
<1>3. CASE Next /\ ~BotStops
  BY <1>3, WritesKeepPromises, OthersKeepPromises DEF Next
<1> QED BY <1>1, <1>2, <1>3

(* Whatever the commands are and however they interleave, the registry is what
   users were told of every category, but of those written while a command that
   would write back an older registry was waiting (europa.py 545-766). *)
THEOREM PromisesKept == Spec => []RegistryKeepsPromises
<1>1. Init => PromisesInv
  BY DEF Init, PromisesInv, RegistryKeepsPromises, SameRecord, ReadFits, Idle
<1>2. RegistryInv /\ PromisesInv /\ [Next]_vars => PromisesInv'
  BY PromisesStep
<1>3. PromisesInv => RegistryKeepsPromises
  BY DEF PromisesInv
<1> QED BY <1>1, <1>2, <1>3, RegistryFits, PTL DEF Spec

-----------------------------------------------------------------------------
(* What the registry holds, applied to the texts of each task. *)

(* A task is an order of a project whose repository has a name. *)
LEMMA TaskIs ==
  ASSUME RegistryInv, NEW t \in DOMAIN tasks
  PROVE  LET project == tasks[t].project
         IN /\ t \in TaskTexts /\ tasks[t].request \in Requests
            /\ project.repo_path \in Text /\ ~IsBlank(project.repo_path)
            /\ project.github \in Registrations \cup {<<>>}
            /\ \E intake \in Intakes(project) :
                 tasks[t].payload = build_task_payload(t, tasks[t].request, project, intake)
<1>1. t \in TaskTexts
  BY DEF RegistryInv, TypeOK
<1>2. IsOrder(t, tasks[t], DOMAIN dirs)
  BY DEF RegistryInv
<1>3. tasks[t].project.repo_path \in DOMAIN dirs
  BY <1>2 DEF IsOrder, WellFormed
<1>4. tasks[t].project.repo_path \in Text /\ ~IsBlank(tasks[t].project.repo_path)
  BY <1>3 DEF RegistryInv
<1> QED BY <1>1, <1>2, <1>4 DEF IsOrder, WellFormed

(* The name of a run ends with the word of its task. *)
LEMMA NameIs ==
  ASSUME NEW agenda \in Text, ~IsBlank(agenda), NEW t \in TaskTexts
  PROVE  /\ derive_run_identity(agenda, t) = canopus_run_id_for_task(agenda, t)
         /\ Last(canopus_run_id_for_task(agenda, t)) = t[3]
<1> DEFINE dash == <<"-">>
           first == agenda \o dash
           raw == first \o t
<1>1. t \in Text /\ ~IsBlank(t) /\ Len(t) = 3 /\ t[3] \in DOMAIN Lowercase /\ Lowercase[t[3]] = t[3]
  BY TaskIdIs
<1>2. dash \in Text
  BY OwnTexts
<1>3. derive_run_identity(agenda, t) = sanitize_run_identity(raw)
  <2> DEFINE given1 == ~IsBlank(agenda)
             given2 == ~IsBlank(t)
             name == CASE given1 /\ given2 -> raw [] given1 /\ ~given2 -> agenda
                       [] ~given1 /\ given2 -> t [] OTHER -> ClockText
  <2>1. derive_run_identity(agenda, t) = sanitize_run_identity(name)
    BY Zenon DEF derive_run_identity
  <2>2. given1 /\ given2
    BY <1>1
  <2> HIDE DEF given1, given2, raw
  <2>3. name = raw
    BY <2>2
  <2> QED BY <2>1, <2>3
<1>4. canopus_run_id_for_task(agenda, t) = _sanitize_run_identity(raw)
  BY Zenon DEF canopus_run_id_for_task
<1> HIDE DEF dash
<1>5. first \in Text
  BY <1>2, Joined
<1> HIDE DEF first
<1>6. /\ raw \in Text /\ Len(raw) = Len(first) + 3
      /\ \A i \in 1 .. 3 : raw[Len(first) + i] = t[i]
  <2>1. /\ raw \in Text /\ Len(raw) = Len(first) + Len(t)
        /\ \A i \in 1 .. Len(t) : raw[Len(first) + i] = t[i]
    BY <1>1, <1>5, Joined, Zenon
  <2> HIDE DEF raw
  <2> QED BY <1>1, <2>1
<1>7. Len(first) \in Nat /\ 3 \in 1 .. 3
  BY <1>5, LenProperties DEF Text
<1> HIDE DEF raw
<1>8. raw # <<>> /\ raw[Len(raw)] = t[3]
  BY <1>1, <1>6, <1>7
<1>9. Last(sanitize_run_identity(raw)) = t[3]
  BY <1>1, <1>6, <1>8, SanitizedLast
<1> QED BY <1>3, <1>4, <1>6, <1>9, SanitizersAgree

(* The order of a task names the run Europa announced, with its state. *)
LEMMA TaskOrderIs ==
  ASSUME RegistryInv, NEW t \in DOMAIN tasks, NEW writable \in BOOLEAN
  PROVE  LET order == Submitted(t, writable)
             project == tasks[t].project
             repo == Trim(project.repo_path)
             run == tasks[t].payload.fields["canopus_run_id"]
         IN /\ order.ok <=> ~LooksLikeOption(tasks[t].request) /\ Configured(Env)
            /\ order.ok =>
                 /\ order.request = tasks[t].request /\ ~order.allow_github_mutation
                 /\ order.opts["repo"] = repo /\ order.opts["task_id"] = t
                 /\ order.opts["state"] = IF writable THEN repo \o <<"/", ".canopus">>
                                          ELSE WorkerEnv.state
                 /\ derive_agenda(order.opts) = run
            /\ repo # <<>> /\ tasks[t].payload.fields["repo_path"] = project.repo_path
            /\ derive_approved_run_id(tasks[t].payload.fields, t) = run
            /\ Last(run) = t[3]
            /\ tasks[t].payload.job.artifact_paths
                 = [root |-> canopus_state_root_for_project(project), run |-> run]
<1> DEFINE project == tasks[t].project
           request == tasks[t].request
           payload == tasks[t].payload
           fields == payload.fields
           order == Submitted(t, writable)
           run == fields["canopus_run_id"]
           repo == Trim(project.repo_path)
<1>1. /\ t \in TaskTexts /\ request \in Requests /\ project.repo_path \in Text
      /\ ~IsBlank(project.repo_path) /\ project.github \in Registrations \cup {<<>>}
      /\ \E intake \in Intakes(project) :
           payload = build_task_payload(t, request, project, intake)
  BY TaskIs
<1>2. order = OrderOf(t, payload, writable)
  BY Zenon DEF Submitted, OrderOf, TaskFor
<1> HIDE DEF project, request, payload, order
<1>3. PICK intake \in Intakes(project) : payload = build_task_payload(t, request, project, intake)
  BY <1>1
<1> DEFINE agenda == AgendaOf(t, project, intake)
<1>4. agenda \in Text /\ ~IsBlank(agenda)
  BY <1>1, AgendaIs, RegistrationIs, IntakeIs DEF AgendaOf
<1>5. /\ OrderKeys \subseteq DOMAIN fields
      /\ DOMAIN fields \subseteq OrderKeys \cup {"github_issue_number", "github_project_mode"}
                                   \cup ProjectKeys \cup FieldKeys
      /\ fields["repo_path"] = project.repo_path /\ fields["agenda_id"] = agenda
      /\ run = canopus_run_id_for_task(agenda, t)
  BY <1>1, <1>3, PayloadIs
<1>6. payload.job.artifact_paths
        = [root |-> canopus_state_root_for_project(project),
           run |-> canopus_run_id_for_task(agenda, t)]
  BY <1>3, PayloadForm, Zenon
<1>7. /\ order.ok <=> ~LooksLikeOption(request) /\ Configured(Env)
      /\ order.ok =>
           /\ order.request = request /\ ~order.allow_github_mutation
           /\ OwnOptions \subseteq DOMAIN order.opts
           /\ order.opts["repo"] = repo /\ order.opts["task_id"] = t
           /\ order.opts["agenda_id"] = agenda
           /\ order.opts["state"] = IF writable THEN repo \o <<"/", ".canopus">> ELSE WorkerEnv.state
  <2> DEFINE built == OrderOf(t, build_task_payload(t, request, project, intake), writable)
  <2>1. /\ built.ok <=> ~LooksLikeOption(request) /\ Configured(Env)
        /\ built.ok =>
             /\ built.request = request /\ ~built.allow_github_mutation
             /\ OwnOptions \subseteq DOMAIN built.opts
             /\ built.opts["repo"] = repo /\ built.opts["task_id"] = t
             /\ built.opts["agenda_id"] = agenda
             /\ built.opts["state"] = IF writable THEN repo \o <<"/", ".canopus">>
                                      ELSE WorkerEnv.state
    BY <1>1, OrderIs
  <2>2. order = built
    BY <1>2, <1>3, Zenon
  <2> HIDE DEF built
  <2> QED BY <2>1, <2>2
<1> HIDE DEF agenda, fields
<1>8. repo # <<>>
  BY <1>1, TrimType
<1> HIDE DEF repo
<1>9. derive_run_identity(agenda, t) = canopus_run_id_for_task(agenda, t)
      /\ Last(canopus_run_id_for_task(agenda, t)) = t[3]
  BY <1>1, <1>4, NameIs
<1>10. derive_approved_run_id(fields, t) = derive_run_identity(agenda, t)
  <2>1. "run_id" \notin DOMAIN fields /\ "agenda_id" \in DOMAIN fields
    BY <1>5 DEF OrderKeys, ProjectKeys, FieldKeys
  <2>2. Trim(Field(fields, "run_id")) = <<>>
    <3>1. Field(fields, "run_id") = <<>> /\ <<>> \in Text /\ IsBlank(<<>>)
      BY <2>1, OwnTexts DEF Field, IsBlank
    <3> QED BY <3>1, TrimType
  <2>3. FirstKey(fields, <<"agenda_id", "canopus_agenda_id", "run_id">>) = "agenda_id"
    BY <2>1, FirstKeyIs
  <2>4. Field(fields, "agenda_id") = agenda
    BY <1>5, <2>1 DEF Field
  <2>5. ApprovedAgenda(fields, t) = agenda
    BY <1>4, <2>3, <2>4, Zenon DEF ApprovedAgenda
  <2> QED BY <2>2, <2>5, Zenon DEF derive_approved_run_id
<1>11. ASSUME order.ok PROVE derive_agenda(order.opts) = derive_run_identity(agenda, t)
  <2> DEFINE opts == order.opts
             named == ~IsBlank(Field(opts, "agenda_id"))
             issue == IssueOfArgs(opts)
             item == ProjectItemOfArgs(opts)
             a == derive_run_identity(opts["agenda_id"], Field(opts, "task_id"))
             b == deterministic_agenda_id_for_github_issue(issue.owner, issue.repo, issue.number)
             c == deterministic_agenda_id_for_github_project(item.url, item.item)
             d == derive_run_identity(<<>>, Field(opts, "task_id"))
             hasIssue == Complete(issue)
             hasItem == Complete(item)
             blank == IsBlank(Field(opts, "agenda_id"))
  <2>1. "agenda_id" \in DOMAIN opts /\ "task_id" \in DOMAIN opts
        /\ opts["agenda_id"] = agenda /\ opts["task_id"] = t
    BY <1>7, <1>11 DEF OwnOptions
  <2>2. Field(opts, "agenda_id") = agenda /\ Field(opts, "task_id") = t
    BY <2>1 DEF Field
  <2>3. derive_agenda(opts) = CASE ~blank -> a [] blank /\ hasIssue -> b
                                [] blank /\ ~hasIssue /\ hasItem -> c [] OTHER -> d
    BY Zenon DEF derive_agenda
  <2>4. ~blank
    BY <1>4, <2>2
  <2>5. a = derive_run_identity(agenda, t)
    BY <2>1, <2>2
  <2> HIDE DEF a, b, c, d, blank, hasIssue, hasItem, opts
  <2>6. derive_agenda(opts) = a
    BY <2>3, <2>4
  <2> QED BY <2>5, <2>6 DEF opts
<1> QED BY <1>5, <1>6, <1>7, <1>8, <1>9, <1>10, <1>11, Zenon
        DEF order, project, request, payload, repo, fields

-----------------------------------------------------------------------------

(* Whatever the texts are, a request that looks like an option is refused, and
   any other order reaches canopus with the request, the repository and the
   task it was given (custom.rs 86-340, args.rs 409-641). *)
THEOREM OrdersArrive == Spec => []OrderArrivesWhole
<1>1. RegistryInv => OrderArrivesWhole
  <2> SUFFICES ASSUME RegistryInv, NEW t \in DOMAIN tasks, NEW writable \in BOOLEAN
               PROVE  LET order == Submitted(t, writable)
                      IN /\ order.ok <=> ~LooksLikeOption(tasks[t].request) /\ Configured(Env)
                         /\ order.ok => /\ order.request = tasks[t].request
                                        /\ order.opts["repo"] = Trim(tasks[t].project.repo_path)
                                        /\ order.opts["task_id"] = t
                                        /\ ~order.allow_github_mutation
    BY Zenon DEF OrderArrivesWhole
  <2> QED BY TaskOrderIs, Zenon
<1> QED BY <1>1, RegistryFits, PTL

(* Canopus, Europa and finalize compute one name for a task's run, although
   each does it on its own and from other texts (run_identity.rs 21-58,
   payloads.py 39-58, 254, finalize.rs 205). *)
THEOREM NamesAgree == Spec => []RunNamesAgree
<1>1. RegistryInv => RunNamesAgree
  <2> SUFFICES ASSUME RegistryInv, NEW t \in DOMAIN tasks
               PROVE  LET fields == tasks[t].payload.fields
                          order == Submitted(t, TRUE)
                      IN /\ derive_approved_run_id(fields, t) = fields["canopus_run_id"]
                         /\ order.ok => derive_agenda(order.opts) = fields["canopus_run_id"]
    BY Zenon DEF RunNamesAgree
  <2>1. TRUE \in BOOLEAN
    OBVIOUS
  <2> QED BY <2>1, TaskOrderIs, Zenon
<1> QED BY <1>1, RegistryFits, PTL

(* The name of a run ends with the hexadecimal word of its task, whatever the
   agenda is, so that two tasks never share one. *)
THEOREM RunsDiffer == Spec => []RunsAreDistinct
<1>1. RegistryInv => RunsAreDistinct
  <2> SUFFICES ASSUME RegistryInv, NEW t \in DOMAIN tasks, NEW u \in DOMAIN tasks,
                      derive_approved_run_id(tasks[t].payload.fields, t)
                        = derive_approved_run_id(tasks[u].payload.fields, u)
               PROVE  t = u
    BY Zenon DEF RunsAreDistinct
  <2>1. TRUE \in BOOLEAN
    OBVIOUS
  <2>2. \A x \in DOMAIN tasks : Last(derive_approved_run_id(tasks[x].payload.fields, x)) = x[3]
    <3> TAKE x \in DOMAIN tasks
    <3>1. /\ derive_approved_run_id(tasks[x].payload.fields, x)
               = tasks[x].payload.fields["canopus_run_id"]
          /\ Last(tasks[x].payload.fields["canopus_run_id"]) = x[3]
      BY <2>1, TaskOrderIs, Zenon
    <3> QED BY <3>1
  <2>3. t[3] = u[3]
    <3> DEFINE a == derive_approved_run_id(tasks[t].payload.fields, t)
               b == derive_approved_run_id(tasks[u].payload.fields, u)
    <3>1. Last(a) = t[3] /\ Last(b) = u[3]
      BY <2>2, Zenon
    <3>2. a = b
      OBVIOUS
    <3> HIDE DEF a, b
    <3> QED BY <3>1, <3>2
  <2>4. \A x \in DOMAIN tasks : x = <<"discord", "-", x[3]>>
    BY TaskIdIs DEF RegistryInv, TypeOK
  <2> QED BY <2>3, <2>4, Zenon
<1> QED BY <1>1, RegistryFits, PTL

(* Finalize-approved looks where submit writes exactly when the repository could
   be written or both were given one directory, and so does !show for the project
   the task was written for (custom.rs 228-257, args.rs 40-75, 804-816,
   payloads.py 244-251, 357-410). *)
THEOREM ResultsFound == Spec => []ResultsAreFound
<1>1. RegistryInv => ResultsAreFound
  <2> SUFFICES ASSUME RegistryInv, NEW t \in DOMAIN tasks, NEW writable \in BOOLEAN,
                      Submitted(t, writable).ok
               PROVE  LET order == Submitted(t, writable)
                          repo == Trim(tasks[t].payload.fields["repo_path"])
                          c == tasks[t].category
                      IN /\ order.opts["state"]
                              = derive_state_with_source(repo, FinalizeState(repo), writable)
                              <=> writable \/ FinalizeState(repo) = WorkerEnv.state
                         /\ /\ writable
                            /\ "CANOPUS_STATE_PATH" \notin DOMAIN Env /\ c \in DOMAIN projects
                            /\ projects[c].repo_path = tasks[t].project.repo_path
                            /\ projects[c].repo_path = repo
                            => ShowFinds(t, projects[c])
                                 = {[root |-> order.opts["state"], run |-> derive_agenda(order.opts)]}
    BY Zenon DEF ResultsAreFound
  <2> DEFINE opts == Submitted(t, writable).opts
             project == tasks[t].project
             repo == Trim(tasks[t].payload.fields["repo_path"])
             own == repo \o <<"/", ".canopus">>
             run == derive_agenda(opts)
             c == tasks[t].category
  <2>1. /\ opts["state"] = IF writable THEN Trim(project.repo_path) \o <<"/", ".canopus">>
                           ELSE WorkerEnv.state
        /\ tasks[t].payload.fields["repo_path"] = project.repo_path
        /\ Trim(project.repo_path) # <<>>
        /\ tasks[t].payload.job.artifact_paths
             = [root |-> canopus_state_root_for_project(project), run |-> run]
    BY TaskOrderIs, Zenon
  <2> HIDE DEF opts, project, run
  <2>2. opts["state"] = (IF writable THEN own ELSE WorkerEnv.state) /\ repo # <<>>
    BY <2>1
  <2> HIDE DEF own, repo
  <2>3. opts["state"] = derive_state_with_source(repo, FinalizeState(repo), writable)
          <=> writable \/ FinalizeState(repo) = WorkerEnv.state
    BY <2>2 DEF derive_state_with_source, own
  <2>4. ASSUME writable, "CANOPUS_STATE_PATH" \notin DOMAIN Env,
               projects[c].repo_path = project.repo_path, projects[c].repo_path = repo
        PROVE  ShowFinds(t, projects[c]) = {[root |-> opts["state"], run |-> run]}
    <3>1. Field(Env, "CANOPUS_STATE_PATH") = <<>>
      BY <2>4, Zenon DEF Field
    <3>2. \A p : canopus_state_root_for_project(p) = p.repo_path \o <<"/", ".canopus">>
      BY <3>1, Zenon DEF canopus_state_root_for_project
    <3>3. canopus_state_root_for_project(project) = own
          /\ canopus_state_root_for_project(projects[c]) = own
      BY <2>4, <3>2 DEF own
    <3> DEFINE found == [root |-> own, run |-> run]
    <3>4. tasks[t].payload.job.artifact_paths = found
      BY <2>1, <3>3
    <3>5. found.root = own
      OBVIOUS
    <3> HIDE DEF found, c
    <3>6. ShowFinds(t, projects[c]) = {found}
      BY <3>3, <3>4, <3>5 DEF ShowFinds
    <3> QED BY <2>2, <2>4, <3>6 DEF found
  <2> QED BY <2>3, <2>4, Zenon DEF opts, project, run, repo, c
<1> QED BY <1>1, RegistryFits, PTL
=============================================================================
