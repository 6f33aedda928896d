------------------------------ MODULE CallProofs ------------------------------
(***************************************************************************)
(* Proofs about module Call: types, what is left of one who leaves, and the *)
(* agreement of two connections.  The first two rest on IInv, the third on  *)
(* Phase besides, which says how far a call has come by what the two        *)
(* connections are at and by the descriptions under way between them, two   *)
(* offers that are about to cross included.                                 *)
(***************************************************************************)
EXTENDS Call, SequenceTheorems, TLAPS

-------------------------------------------------------------------------------
(* Two browsers, three tracks, and lines *)

LEMMA OtherFacts ==
    \A x \in Browser : /\ Other(x) \in Browser /\ Other(x) # x /\ Other(Other(x)) = x
                       /\ \A y \in Browser : y = x \/ y = Other(x)
BY DEF Browser, Other

LEMMA LinesAre ==
    ASSUME NEW q \in Lines
    PROVE  /\ q \in Seq(Track) /\ Len(q) \in 0..3 /\ DOMAIN q = 1..Len(q)
           /\ \A i \in 1..Len(q) : q[i] \in Track
           /\ \A i, j \in 1..Len(q) : q[i] = q[j] => i = j
           /\ Among(q) = {q[i] : i \in 1..Len(q)} /\ Among(q) \in SUBSET Track
<1>1. CASE q = <<>>
  BY <1>1, EmptySeq DEF Among
<1>2. CASE q \in [1..1 -> Track]
  <2>1. q \in Seq(Track)
    <3>1. [1..1 -> Track] \in {[1..n -> Track] : n \in Nat}
      OBVIOUS
    <3>2. Seq(Track) = UNION {[1..n -> Track] : n \in Nat}
      BY SeqDef
    <3> QED BY <1>2, <3>1, <3>2
  <2>2. DOMAIN q = 1..1 /\ DOMAIN q = 1..Len(q) /\ Len(q) \in Nat
    BY <1>2, <2>1, LenProperties
  <2>3. Len(q) = 1
    <3>1. \A i \in 1..Len(q) : i \in 1..1
      BY <2>2
    <3>2. 1 \in 1..Len(q)
      BY <2>2
    <3> QED BY <2>2, <3>1, <3>2
  <2> QED BY <1>2, <2>1, <2>2, <2>3 DEF Lines, Among
<1>3. CASE q \in [1..2 -> Track]
  <2>1. q \in Seq(Track)
    <3>1. [1..2 -> Track] \in {[1..n -> Track] : n \in Nat}
      OBVIOUS
    <3>2. Seq(Track) = UNION {[1..n -> Track] : n \in Nat}
      BY SeqDef
    <3> QED BY <1>3, <3>1, <3>2
  <2>2. DOMAIN q = 1..2 /\ DOMAIN q = 1..Len(q) /\ Len(q) \in Nat
    BY <1>3, <2>1, LenProperties
  <2>3. Len(q) = 2
    <3>1. \A i \in 1..Len(q) : i \in 1..2
      BY <2>2
    <3>2. 2 \in 1..Len(q)
      BY <2>2
    <3> QED BY <2>2, <3>1, <3>2
  <2> QED BY <1>3, <2>1, <2>2, <2>3 DEF Lines, Among
<1>4. CASE q \in [1..3 -> Track]
  <2>1. q \in Seq(Track)
    <3>1. [1..3 -> Track] \in {[1..n -> Track] : n \in Nat}
      OBVIOUS
    <3>2. Seq(Track) = UNION {[1..n -> Track] : n \in Nat}
      BY SeqDef
    <3> QED BY <1>4, <3>1, <3>2
  <2>2. DOMAIN q = 1..3 /\ DOMAIN q = 1..Len(q) /\ Len(q) \in Nat
    BY <1>4, <2>1, LenProperties
  <2>3. Len(q) = 3
    <3>1. \A i \in 1..Len(q) : i \in 1..3
      BY <2>2
    <3>2. 3 \in 1..Len(q)
      BY <2>2
    <3> QED BY <2>2, <3>1, <3>2
  <2> QED BY <1>4, <2>1, <2>2, <2>3 DEF Lines, Among
<1> QED BY <1>1, <1>2, <1>3, <1>4 DEF Lines

\* What makes lines: a sequence of tracks, at most three, none twice.
LEMMA MakesLines ==
    ASSUME NEW q \in Seq(Track), Len(q) \in 0..3, \A i, j \in 1..Len(q) : q[i] = q[j] => i = j
    PROVE  q \in Lines
<1>1. q \in [1..Len(q) -> Track] /\ DOMAIN q = 1..Len(q)
  BY LenProperties
<1>2. CASE Len(q) = 0
  BY <1>2, EmptySeq DEF Lines
<1>3. CASE Len(q) = 1
  BY <1>1, <1>3 DEF Lines
<1>4. CASE Len(q) = 2
  BY <1>1, <1>4 DEF Lines
<1>5. CASE Len(q) = 3
  BY <1>1, <1>5 DEF Lines
<1> QED BY <1>2, <1>3, <1>4, <1>5

LEMMA ShortLines ==
    /\ <<>> \in Lines /\ Among(<<>>) = {}
    /\ \A k \in Track : <<k>> \in Lines /\ Among(<<k>>) = {k}
<1>1. <<>> \in Seq(Track) /\ Len(<<>>) = 0 /\ Among(<<>>) = {}
  BY EmptySeq DEF Among
<1>2. ASSUME NEW k \in Track PROVE <<k>> \in Lines /\ Among(<<k>>) = {k}
  <2>1. <<k>> \in Seq(Track) /\ Len(<<k>>) = 1 /\ DOMAIN <<k>> = 1..1 /\ <<k>>[1] = k
    OBVIOUS
  <2>2. Len(<<k>>) \in 0..3 /\ \A i, j \in 1..Len(<<k>>) : <<k>>[i] = <<k>>[j] => i = j
    BY <2>1
  <2>3. <<k>> \in Lines
    BY <2>1, <2>2, MakesLines
  <2> QED BY <2>1, <2>3 DEF Among
<1>3. <<>> \in Lines
  BY DEF Lines
<1> QED BY <1>1, <1>2, <1>3

LEMMA PairLines ==
    ASSUME NEW k \in Track, NEW l \in Track, k # l
    PROVE  <<k, l>> \in Lines /\ Among(<<k, l>>) = {k, l}
<1>1. /\ <<k, l>> \in Seq(Track) /\ Len(<<k, l>>) = 2 /\ DOMAIN <<k, l>> = 1..2
      /\ <<k, l>>[1] = k /\ <<k, l>>[2] = l
  OBVIOUS
<1>2. \A i, j \in 1..Len(<<k, l>>) : <<k, l>>[i] = <<k, l>>[j] => i = j
  BY <1>1
<1>3. <<k, l>> \in Lines
  <2>1. Len(<<k, l>>) \in 0..3
    BY <1>1
  <2> QED BY <1>1, <1>2, <2>1, MakesLines
<1> QED BY <1>1, <1>3 DEF Among

\* Lines of different tracks, one behind the other.
LEMMA JoinedLines ==
    ASSUME NEW p \in Lines, NEW q \in Lines, Among(p) \cap Among(q) = {}
    PROVE  /\ p \o q \in Lines /\ Among(p \o q) = Among(p) \cup Among(q)
           /\ Len(p) <= Len(p \o q) /\ SubSeq(p \o q, 1, Len(p)) = p
           /\ p \o q = <<>> => p = <<>>
<1> DEFINE c == p \o q
<1>1. /\ p \in Seq(Track) /\ q \in Seq(Track) /\ Len(p) \in 0..3 /\ Len(q) \in 0..3
      /\ \A i \in 1..Len(p) : p[i] \in Track
      /\ \A i \in 1..Len(q) : q[i] \in Track
      /\ \A i, j \in 1..Len(p) : p[i] = p[j] => i = j
      /\ \A i, j \in 1..Len(q) : q[i] = q[j] => i = j
      /\ \A i \in 1..Len(p) : p[i] \in Among(p)
      /\ \A i \in 1..Len(q) : q[i] \in Among(q)
  BY LinesAre
<1>2. /\ c \in Seq(Track) /\ Len(c) = Len(p) + Len(q)
      /\ \A i \in 1..Len(p) : c[i] = p[i]
      /\ \A i \in 1..Len(q) : c[Len(p) + i] = q[i]
  BY <1>1, ConcatProperties
<1> HIDE DEF c
<1>3. \A i \in 1..Len(p), j \in 1..Len(q) : p[i] # q[j]
  BY <1>1
<1>4. \A i \in 1..Len(c) : \/ i \in 1..Len(p) /\ c[i] = p[i]
                           \/ i - Len(p) \in 1..Len(q) /\ c[i] = q[i - Len(p)]
  BY <1>1, <1>2
<1>5. Len(p) + Len(q) <= 3
  <2>1. /\ Len(p) >= 1 => p[1] \in Track
        /\ Len(p) >= 2 => p[2] \in Track /\ p[1] # p[2]
        /\ Len(p) = 3 => p[3] \in Track /\ p[1] # p[3] /\ p[2] # p[3]
    BY <1>1
  <2>2. /\ Len(q) >= 1 => q[1] \in Track
        /\ Len(q) >= 2 => q[2] \in Track /\ q[1] # q[2]
        /\ Len(q) = 3 => q[3] \in Track /\ q[1] # q[3] /\ q[2] # q[3]
    BY <1>1
  <2>3. /\ Len(p) >= 1 /\ Len(q) >= 1 => p[1] # q[1]
        /\ Len(p) >= 1 /\ Len(q) >= 2 => p[1] # q[2]
        /\ Len(p) >= 1 /\ Len(q) = 3 => p[1] # q[3]
        /\ Len(p) >= 2 /\ Len(q) >= 1 => p[2] # q[1]
        /\ Len(p) >= 2 /\ Len(q) >= 2 => p[2] # q[2]
        /\ Len(p) = 3 /\ Len(q) >= 1 => p[3] # q[1]
    BY <1>1, <1>3
  <2>4. \A t \in Track : t = "cam" \/ t = "cam2" \/ t = "mic"
    BY DEF Track
  <2>5. Len(p) = 3 => Len(q) = 0
    BY <1>1, <2>1, <2>2, <2>3, <2>4
  <2>6. Len(p) = 2 => Len(q) <= 1
    BY <1>1, <2>1, <2>2, <2>3, <2>4
  <2>7. Len(p) = 1 => Len(q) <= 2
    BY <1>1, <2>1, <2>2, <2>3, <2>4
  <2> QED BY <1>1, <2>5, <2>6, <2>7
<1>6. \A i, j \in 1..Len(c) : c[i] = c[j] => i = j
  <2> SUFFICES ASSUME NEW i \in 1..Len(c), NEW j \in 1..Len(c), c[i] = c[j] PROVE i = j
    OBVIOUS
  <2>1. i \in Nat /\ j \in Nat /\ Len(p) \in Nat
    BY <1>1, <1>2
  <2>2. CASE i \in 1..Len(p) /\ j \in 1..Len(p)
    BY <1>1, <1>2, <2>2
  <2>3. CASE i \notin 1..Len(p) /\ j \notin 1..Len(p)
    <3>1. /\ i - Len(p) \in 1..Len(q) /\ c[i] = q[i - Len(p)]
          /\ j - Len(p) \in 1..Len(q) /\ c[j] = q[j - Len(p)]
      BY <1>4, <2>3
    <3>2. i - Len(p) = j - Len(p)
      <4>1. q[i - Len(p)] = q[j - Len(p)]
        BY <3>1
      <4> QED BY <1>1, <3>1, <4>1
    <3> QED BY <2>1, <3>2
  <2>4. CASE i \in 1..Len(p) /\ j \notin 1..Len(p)
    <3>1. c[i] = p[i] /\ j - Len(p) \in 1..Len(q) /\ c[j] = q[j - Len(p)]
      BY <1>2, <1>4, <2>4
    <3> QED BY <1>3, <2>4, <3>1
  <2>5. CASE i \notin 1..Len(p) /\ j \in 1..Len(p)
    <3>1. c[j] = p[j] /\ i - Len(p) \in 1..Len(q) /\ c[i] = q[i - Len(p)]
      BY <1>2, <1>4, <2>5
    <3> QED BY <1>3, <2>5, <3>1
  <2> QED BY <2>2, <2>3, <2>4, <2>5
<1>7. c \in Lines
  <2>1. Len(c) \in 0..3
    BY <1>1, <1>2, <1>5
  <2> QED BY <1>2, <1>6, <2>1, MakesLines
<1>8. Among(c) = Among(p) \cup Among(q)
  <2>1. Among(c) = {c[i] : i \in 1..Len(c)} /\ Among(p) = {p[i] : i \in 1..Len(p)}
        /\ Among(q) = {q[i] : i \in 1..Len(q)}
    BY <1>7, LinesAre
  <2>2. \A i \in 1..Len(q) : Len(p) + i \in 1..Len(c)
    BY <1>1, <1>2
  <2>3. \A i \in 1..Len(p) : i \in 1..Len(c)
    BY <1>1, <1>2
  <2>4. \A x \in Among(c) : x \in Among(p) \cup Among(q)
    BY <1>4, <2>1
  <2>5. \A x \in Among(p) : x \in Among(c)
    BY <1>2, <2>1, <2>3
  <2>6. \A x \in Among(q) : x \in Among(c)
    BY <1>2, <2>1, <2>2
  <2> QED BY <2>4, <2>5, <2>6
<1>9. SubSeq(c, 1, Len(p)) = p
  <2>1. \A i \in 1..Len(p) : c[i] \in Track
    BY <1>1, <1>2
  <2>2. /\ SubSeq(c, 1, Len(p)) \in Seq(Track) /\ Len(SubSeq(c, 1, Len(p))) = Len(p)
        /\ \A i \in 1..Len(p) : SubSeq(c, 1, Len(p))[i] = c[i]
    BY <1>1, <2>1, SubSeqProperties
  <2> QED BY <1>1, <1>2, <2>2, SeqEqual
<1>10. c = <<>> => p = <<>>
  BY <1>1, <1>2, EmptySeq
<1> QED BY <1>1, <1>2, <1>7, <1>8, <1>9, <1>10 DEF c

LEMMA AppendedLines ==
    ASSUME NEW q \in Lines, NEW k \in Track, k \notin Among(q)
    PROVE  Append(q, k) \in Lines /\ Among(Append(q, k)) = Among(q) \cup {k}
<1>1. <<k>> \in Lines /\ Among(<<k>>) = {k}
  BY ShortLines
<1>2. q \o <<k>> \in Lines /\ Among(q \o <<k>>) = Among(q) \cup {k}
  BY <1>1, JoinedLines
<1>3. Append(q, k) = q \o <<k>>
  BY LinesAre, AppendIsConcat
<1> QED BY <1>2, <1>3

\* What New leaves of lines are lines.
LEMMA NewFacts ==
    ASSUME NEW old \in Lines, NEW more \in Lines
    PROVE  New(old, more) \in Lines /\ Among(New(old, more)) = Among(more) \ Among(old)
<1> DEFINE Is(q) == /\ Among(q) = Among(more) \ Among(old)
                    /\ \A i, j \in DOMAIN q : i < j =>
                          \E k, l \in DOMAIN more : k < l /\ more[k] = q[i] /\ more[l] = q[j]
<1>1. /\ Len(more) \in 0..3 /\ DOMAIN more = 1..Len(more) /\ more \in Seq(Track)
      /\ \A i \in 1..Len(more) : more[i] \in Track
      /\ \A i, j \in 1..Len(more) : more[i] = more[j] => i = j
      /\ Among(more) = {more[i] : i \in 1..Len(more)}
  BY LinesAre
<1>2. /\ DOMAIN <<>> = {} /\ \A k : DOMAIN <<k>> = 1..1
  OBVIOUS
<1>3. \E q \in Lines : Is(q)
  <2>1. CASE Among(more) \ Among(old) = {}
    <3>1. Is(<<>>)
      BY <1>2, <2>1, ShortLines
    <3> QED BY <3>1, ShortLines
  <2>2. CASE Among(more) \cap Among(old) = {}
    <3>1. Is(more)
      BY <1>1, <2>2
    <3> QED BY <3>1
  <2>3. CASE \E k \in Track : Among(more) \ Among(old) = {k}
    <3> PICK k \in Track : Among(more) \ Among(old) = {k}
      BY <2>3
    <3>1. Is(<<k>>)
      BY <1>2, ShortLines
    <3> QED BY <3>1, ShortLines
  <2>4. CASE \E k, l \in DOMAIN more : k < l /\ Among(more) \ Among(old) = {more[k], more[l]}
    <3> PICK k \in DOMAIN more, l \in DOMAIN more :
               k < l /\ Among(more) \ Among(old) = {more[k], more[l]}
      BY <2>4
    <3>1. k \in 1..Len(more) /\ l \in 1..Len(more) /\ k # l
      BY <1>1
    <3>2. more[k] \in Track /\ more[l] \in Track /\ more[k] # more[l]
      BY <1>1, <3>1
    <3>3. /\ <<more[k], more[l]>> \in Lines
          /\ Among(<<more[k], more[l]>>) = {more[k], more[l]}
      BY <3>2, PairLines
    <3>4. Is(<<more[k], more[l]>>)
      BY <1>1, <3>3
    <3> QED BY <3>3, <3>4
  <2>5. \/ Among(more) \ Among(old) = {} \/ Among(more) \cap Among(old) = {}
        \/ \E k \in Track : Among(more) \ Among(old) = {k}
        \/ \E k, l \in DOMAIN more : k < l /\ Among(more) \ Among(old) = {more[k], more[l]}
    <3>1. CASE Len(more) = 3
      <4>1. /\ DOMAIN more = {1, 2, 3}
            /\ Among(more) = {more[1], more[2], more[3]}
            /\ more[1] # more[2] /\ more[1] # more[3] /\ more[2] # more[3]
            /\ more[1] \in Track /\ more[2] \in Track /\ more[3] \in Track
        BY <1>1, <3>1
      <4>2. CASE more[1] \in Among(old) /\ more[2] \notin Among(old) /\ more[3] \notin Among(old)
        <5>1. Among(more) \ Among(old) = {more[2], more[3]}
          BY <4>1, <4>2
        <5> QED BY <4>1, <5>1
      <4>3. CASE more[2] \in Among(old) /\ more[1] \notin Among(old) /\ more[3] \notin Among(old)
        <5>1. Among(more) \ Among(old) = {more[1], more[3]}
          BY <4>1, <4>3
        <5> QED BY <4>1, <5>1
      <4>4. CASE more[3] \in Among(old) /\ more[1] \notin Among(old) /\ more[2] \notin Among(old)
        <5>1. Among(more) \ Among(old) = {more[1], more[2]}
          BY <4>1, <4>4
        <5> QED BY <4>1, <5>1
      <4>5. CASE \E k, l \in {1, 2, 3} : k # l /\ more[k] \in Among(old) /\ more[l] \in Among(old)
        <5>1. \/ Among(more) \ Among(old) = {}
              \/ \E k \in {1, 2, 3} : Among(more) \ Among(old) = {more[k]}
          BY <4>1, <4>5
        <5> QED BY <4>1, <5>1
      <4>6. CASE \A k \in {1, 2, 3} : more[k] \notin Among(old)
        BY <4>1, <4>6
      <4> QED BY <4>2, <4>3, <4>4, <4>5, <4>6
    <3>2. CASE Len(more) = 2
      <4>1. Among(more) = {more[1], more[2]} /\ more[1] \in Track /\ more[2] \in Track
        BY <1>1, <3>2
      <4>2. CASE more[1] \in Among(old) /\ more[2] \in Among(old)
        BY <4>1, <4>2
      <4>3. CASE more[1] \notin Among(old) /\ more[2] \notin Among(old)
        BY <4>1, <4>3
      <4>4. CASE more[1] \in Among(old) /\ more[2] \notin Among(old)
        <5>1. Among(more) \ Among(old) = {more[2]}
          BY <4>1, <4>4
        <5> QED BY <4>1, <5>1
      <4>5. CASE more[1] \notin Among(old) /\ more[2] \in Among(old)
        <5>1. Among(more) \ Among(old) = {more[1]}
          BY <4>1, <4>5
        <5> QED BY <4>1, <5>1
      <4> QED BY <4>2, <4>3, <4>4, <4>5
    <3>3. CASE Len(more) \in {0, 1}
      <4>1. Among(more) = {} \/ (Among(more) = {more[1]} /\ more[1] \in Track)
        BY <1>1, <3>3
      <4>2. CASE Among(more) = {}
        BY <4>2
      <4>3. CASE Among(more) = {more[1]} /\ more[1] \in Track
        <5>1. Among(more) \ Among(old) = {} \/ Among(more) \ Among(old) = {more[1]}
          BY <4>3
        <5> QED BY <4>3, <5>1
      <4> QED BY <4>1, <4>2, <4>3
    <3>4. Len(more) = 3 \/ Len(more) = 2 \/ Len(more) \in {0, 1}
      BY <1>1
    <3> QED BY <3>1, <3>2, <3>3, <3>4, Zenon
  <2> QED BY <2>1, <2>2, <2>3, <2>4, <2>5, Zenon
<1>4. New(old, more) = CHOOSE q \in Lines : Is(q)
  BY DEF New
<1> HIDE DEF Is
<1>5. New(old, more) \in Lines /\ Is(New(old, more))
  BY <1>3, <1>4
<1> QED BY <1>5 DEF Is

-------------------------------------------------------------------------------
(* Connections and frames *)

\* What of a connection's parts must fit together.
WellMade(p) == /\ p.sent \subseteq Among(p.tracks) /\ p.sent \subseteq Among(p.lines)
               /\ p.recv \subseteq Among(p.lines)
               /\ p.offers \subseteq Among(p.tracks) /\ p.offers \subseteq Among(p.local)

LEMMA IdFacts == \A n \in 1..MaxPC : n # 0 /\ n \in 0..MaxPC
BY CallAssumption

LEMMA PCFields ==
    ASSUME NEW p \in PC
    PROVE  /\ p.id \in 1..MaxPC /\ p.sig \in {"stable", "offered", "remote"}
           /\ p.run \in {"none", "offer", "accept", "accept new"}
           /\ p.tracks \in Lines /\ p.lines \in Lines /\ p.local \in Lines
           /\ p.offers \in SUBSET Track /\ p.sent \in SUBSET Track /\ p.recv \in SUBSET Track
           /\ p.remote \in 0..MaxPC /\ p.role \in {"none", "active", "passive"}
           /\ p # NoPC
<1>1. /\ p.id \in 1..MaxPC /\ p.sig \in {"stable", "offered", "remote"}
      /\ p.run \in {"none", "offer", "accept", "accept new"}
      /\ p.tracks \in Lines /\ p.lines \in Lines /\ p.local \in Lines
      /\ p.offers \in SUBSET Track /\ p.sent \in SUBSET Track /\ p.recv \in SUBSET Track
      /\ p.remote \in 0..MaxPC /\ p.role \in {"none", "active", "passive"}
  BY DEF PC
<1>2. p.id # 0
  BY <1>1, IdFacts
<1>3. NoPC.id = 0
  BY DEF NoPC
<1> QED BY <1>1, <1>2, <1>3

LEMMA NoPCFields == NoPC.id = 0 /\ NoPC.run = "none" /\ NoPC \notin PC
BY PCFields DEF NoPC

LEMMA NewPCFacts ==
    ASSUME NEW n \in 1..MaxPC
    PROVE  /\ NewPC(n) \in PC /\ WellMade(NewPC(n))
           /\ NewPC(n).id = n /\ NewPC(n).sig = "stable" /\ NewPC(n).run = "none"
           /\ NewPC(n).tracks = <<>> /\ NewPC(n).lines = <<>> /\ NewPC(n).local = <<>>
           /\ NewPC(n).offers = {} /\ NewPC(n).sent = {} /\ NewPC(n).recv = {}
           /\ NewPC(n).remote = 0 /\ NewPC(n).role = "none"
<1>1. /\ NewPC(n).id = n /\ NewPC(n).sig = "stable" /\ NewPC(n).run = "none"
      /\ NewPC(n).tracks = <<>> /\ NewPC(n).lines = <<>> /\ NewPC(n).local = <<>>
      /\ NewPC(n).offers = {} /\ NewPC(n).sent = {} /\ NewPC(n).recv = {}
      /\ NewPC(n).remote = 0 /\ NewPC(n).role = "none"
  BY DEF NewPC
<1>2. <<>> \in Lines /\ 0 \in 0..MaxPC
  BY ShortLines, CallAssumption
<1>3. NewPC(n) \in PC
  BY <1>2 DEF NewPC, PC
<1> QED BY <1>1, <1>3 DEF WellMade

\* The fields of p and q but for tracks, and for what an offer sets.
SameNegotiated(p, q) == /\ p.id = q.id /\ p.lines = q.lines /\ p.sent = q.sent /\ p.recv = q.recv
                        /\ p.remote = q.remote /\ p.role = q.role /\ p.sig = q.sig

LEMMA AddTracksFacts ==
    ASSUME NEW p \in PC, WellMade(p), NEW ts \in Lines
    PROVE  /\ AddTracks(p, ts) \in PC /\ WellMade(AddTracks(p, ts))
           /\ SameNegotiated(AddTracks(p, ts), p)
           /\ AddTracks(p, ts).run = p.run /\ AddTracks(p, ts).local = p.local
           /\ AddTracks(p, ts).offers = p.offers
           /\ Among(AddTracks(p, ts).tracks) = Among(p.tracks) \cup Among(ts)
<1> DEFINE t == p.tracks \o New(p.tracks, ts)
<1>1. t \in Lines /\ Among(t) = Among(p.tracks) \cup Among(ts)
  <2>1. p.tracks \in Lines
    BY PCFields
  <2>2. /\ New(p.tracks, ts) \in Lines
        /\ Among(New(p.tracks, ts)) = Among(ts) \ Among(p.tracks)
    BY <2>1, NewFacts
  <2>3. /\ t \in Lines
        /\ Among(t) = Among(p.tracks) \cup Among(New(p.tracks, ts))
    BY <2>1, <2>2, JoinedLines
  <2> QED BY <2>2, <2>3
<1>2. AddTracks(p, ts) = [p EXCEPT !.tracks = t]
  BY DEF AddTracks
<1> HIDE DEF t
<1>3. /\ AddTracks(p, ts) \in PC /\ AddTracks(p, ts).tracks = t
      /\ SameNegotiated(AddTracks(p, ts), p)
      /\ AddTracks(p, ts).run = p.run /\ AddTracks(p, ts).local = p.local
      /\ AddTracks(p, ts).offers = p.offers
  BY <1>1, <1>2 DEF PC, SameNegotiated
<1> QED BY <1>1, <1>3 DEF WellMade, SameNegotiated

LEMMA CreateOfferFacts ==
    ASSUME NEW p \in PC, WellMade(p)
    PROVE  /\ CreateOffer(p) \in PC /\ WellMade(CreateOffer(p))
           /\ SameNegotiated(CreateOffer(p), p)
           /\ CreateOffer(p).run = "offer" /\ CreateOffer(p).tracks = p.tracks
           /\ CreateOffer(p).offers = Among(p.tracks)
           /\ Len(p.lines) <= Len(CreateOffer(p).local)
           /\ SubSeq(CreateOffer(p).local, 1, Len(p.lines)) = p.lines
           /\ CreateOffer(p).local = <<>> => p.lines = <<>>
<1> DEFINE l == p.lines \o New(p.lines, p.tracks)
<1>1. /\ p.lines \in Lines /\ p.tracks \in Lines /\ Among(p.tracks) \in SUBSET Track
  BY PCFields, LinesAre
<1>2. /\ l \in Lines /\ Among(p.tracks) \subseteq Among(l)
      /\ Len(p.lines) <= Len(l) /\ SubSeq(l, 1, Len(p.lines)) = p.lines
      /\ l = <<>> => p.lines = <<>>
  <2>1. /\ New(p.lines, p.tracks) \in Lines
        /\ Among(New(p.lines, p.tracks)) = Among(p.tracks) \ Among(p.lines)
    BY <1>1, NewFacts
  <2>2. /\ l \in Lines
        /\ Among(l) = Among(p.lines) \cup Among(New(p.lines, p.tracks))
        /\ Len(p.lines) <= Len(l) /\ SubSeq(l, 1, Len(p.lines)) = p.lines
        /\ l = <<>> => p.lines = <<>>
    BY <1>1, <2>1, JoinedLines
  <2> QED BY <2>1, <2>2
<1>3. CreateOffer(p) = [p EXCEPT !.run = "offer", !.local = l, !.offers = Among(p.tracks)]
  BY DEF CreateOffer
<1> HIDE DEF l
<1>4. /\ CreateOffer(p) \in PC /\ CreateOffer(p).run = "offer" /\ CreateOffer(p).tracks = p.tracks
      /\ CreateOffer(p).offers = Among(p.tracks) /\ CreateOffer(p).local = l
      /\ SameNegotiated(CreateOffer(p), p)
  BY <1>1, <1>2, <1>3 DEF PC, SameNegotiated
<1> QED BY <1>2, <1>4 DEF WellMade, SameNegotiated

LEMMA FrameFields ==
    ASSUME NEW f \in Frame
    PROVE  /\ f.type \in {"OFFER", "ANSWER", "MEDIA", "JOIN", "LEAVE"}
           /\ f.type \in {"OFFER", "ANSWER"} =>
                 /\ f \in Descr /\ f.from \in 1..MaxPC /\ f.lines \in Lines /\ f.sends \in SUBSET Track
           /\ f.type = "MEDIA" => f.kind \in Kind /\ f.state \in {"on", "off"}
BY DEF Frame, Descr

\* The lines that go on from others have all of them.
LEMMA FitsKeepsLines ==
    ASSUME NEW l \in Lines, NEW m \in Lines, Len(l) <= Len(m), SubSeq(m, 1, Len(l)) = l
    PROVE  Among(l) \subseteq Among(m) /\ (m = <<>> => l = <<>>)
<1>1. /\ l \in Seq(Track) /\ m \in Seq(Track) /\ Len(l) \in 0..3 /\ Len(m) \in 0..3
      /\ Among(l) = {l[i] : i \in 1..Len(l)} /\ Among(m) = {m[i] : i \in 1..Len(m)}
      /\ \A i \in 1..Len(m) : m[i] \in Track
  BY LinesAre
<1>2. \A i \in 1..Len(l) : l[i] = m[i]
  <2>1. \A i \in 1..Len(l) : m[i] \in Track
    BY <1>1
  <2>2. \A i \in 1..Len(l) : SubSeq(m, 1, Len(l))[i] = m[i]
    BY <1>1, <2>1, SubSeqProperties
  <2> QED BY <2>2
<1>3. \A i \in 1..Len(l) : i \in 1..Len(m)
  BY <1>1
<1>4. m = <<>> => l = <<>>
  BY <1>1, EmptySeq
<1> QED BY <1>1, <1>2, <1>3, <1>4

LEMMA NothingFitsAll ==
    ASSUME NEW m \in Lines
    PROVE  Len(<<>>) <= Len(m) /\ SubSeq(m, 1, Len(<<>>)) = <<>>
<1>1. m \in Seq(Track) /\ Len(m) \in 0..3
  BY LinesAre
<1>2. Len(<<>>) = 0 /\ SubSeq(m, 1, 0) = <<>>
  BY <1>1, SubSeqEmpty, EmptySeq
<1> QED BY <1>1, <1>2

LEMMA RemoteFacts ==
    ASSUME NEW p \in PC, WellMade(p), NEW d \in Descr, d.sends \subseteq Among(d.lines), Fits(p, d),
           NEW run \in {"accept", "accept new"}
    PROVE  /\ Remote(p, d, run) \in PC /\ WellMade(Remote(p, d, run))
           /\ Remote(p, d, run).id = p.id /\ Remote(p, d, run).tracks = p.tracks
           /\ Remote(p, d, run).sent = p.sent /\ Remote(p, d, run).sig = "remote"
           /\ Remote(p, d, run).run = run /\ Remote(p, d, run).lines = d.lines
           /\ Remote(p, d, run).recv = d.sends /\ Remote(p, d, run).offers = {}
           /\ Remote(p, d, run).remote = d.from
           /\ Remote(p, d, run).role = Part(p, d, "active")
<1>1. d.from \in 1..MaxPC /\ d.lines \in Lines /\ d.sends \in SUBSET Track /\ p.lines \in Lines
  BY PCFields DEF Descr
<1>2. Part(p, d, "active") \in {"none", "active", "passive"}
  BY PCFields DEF Part
<1>3. d.from \in 0..MaxPC
  BY <1>1, IdFacts
<1>4. /\ Remote(p, d, run) \in PC
      /\ Remote(p, d, run).id = p.id /\ Remote(p, d, run).tracks = p.tracks
      /\ Remote(p, d, run).sent = p.sent /\ Remote(p, d, run).sig = "remote"
      /\ Remote(p, d, run).run = run /\ Remote(p, d, run).lines = d.lines
      /\ Remote(p, d, run).recv = d.sends /\ Remote(p, d, run).offers = {}
      /\ Remote(p, d, run).remote = d.from /\ Remote(p, d, run).local = p.local
      /\ Remote(p, d, run).role = Part(p, d, "active")
  BY <1>1, <1>2, <1>3 DEF Remote, PC
<1>5. Among(p.lines) \subseteq Among(d.lines)
  BY <1>1, FitsKeepsLines DEF Fits
<1> QED BY <1>4, <1>5 DEF WellMade

LEMMA AnsweredFacts ==
    ASSUME NEW p \in PC, WellMade(p)
    PROVE  /\ Answered(p) \in PC /\ WellMade(Answered(p))
           /\ Answered(p).id = p.id /\ Answered(p).tracks = p.tracks
           /\ Answered(p).sig = "stable" /\ Answered(p).run = "none"
           /\ Answered(p).lines = p.lines /\ Answered(p).local = p.local
           /\ Answered(p).offers = p.offers /\ Answered(p).recv = p.recv
           /\ Answered(p).remote = p.remote /\ Answered(p).role = p.role
           /\ Answered(p).sent = Among(p.tracks) \cap Among(p.lines)
<1>1. Among(p.tracks) \cap Among(p.lines) \in SUBSET Track
  BY PCFields, LinesAre
<1> DEFINE s == Among(p.tracks) \cap Among(p.lines)
<1>2. Answered(p) = [p EXCEPT !.sig = "stable", !.run = "none", !.sent = s]
  BY DEF Answered
<1> HIDE DEF s
<1>3. /\ Answered(p) \in PC
      /\ Answered(p).id = p.id /\ Answered(p).tracks = p.tracks
      /\ Answered(p).sig = "stable" /\ Answered(p).run = "none"
      /\ Answered(p).lines = p.lines /\ Answered(p).local = p.local
      /\ Answered(p).offers = p.offers /\ Answered(p).recv = p.recv
      /\ Answered(p).remote = p.remote /\ Answered(p).role = p.role
      /\ Answered(p).sent = s
  BY <1>1, <1>2 DEF PC, s
<1> QED BY <1>3 DEF WellMade, s

LEMMA AcceptedFacts ==
    ASSUME NEW p \in PC, WellMade(p), NEW d \in Descr, d.sends \subseteq Among(d.lines),
           d.lines = p.local
    PROVE  /\ Accepted(p, d) \in PC /\ WellMade(Accepted(p, d))
           /\ Accepted(p, d).id = p.id /\ Accepted(p, d).tracks = p.tracks
           /\ Accepted(p, d).sig = "stable" /\ Accepted(p, d).run = p.run
           /\ Accepted(p, d).lines = p.local /\ Accepted(p, d).local = p.local
           /\ Accepted(p, d).sent = p.offers /\ Accepted(p, d).recv = d.sends
           /\ Accepted(p, d).offers = p.offers /\ Accepted(p, d).remote = d.from
           /\ Accepted(p, d).role = Part(p, d, "passive")
<1>1. d.from \in 1..MaxPC /\ d.lines \in Lines /\ d.sends \in SUBSET Track /\ p.local \in Lines
  BY PCFields DEF Descr
<1>2. Part(p, d, "passive") \in {"none", "active", "passive"}
  BY PCFields DEF Part
<1>3. d.from \in 0..MaxPC
  BY <1>1, IdFacts
<1>4. /\ Accepted(p, d) \in PC
      /\ Accepted(p, d).id = p.id /\ Accepted(p, d).tracks = p.tracks
      /\ Accepted(p, d).sig = "stable" /\ Accepted(p, d).run = p.run
      /\ Accepted(p, d).lines = p.local /\ Accepted(p, d).local = p.local
      /\ Accepted(p, d).sent = p.offers /\ Accepted(p, d).recv = d.sends
      /\ Accepted(p, d).offers = p.offers /\ Accepted(p, d).remote = d.from
      /\ Accepted(p, d).role = Part(p, d, "passive")
  BY <1>1, <1>2, <1>3 DEF Accepted, PC
<1> QED BY <1>4 DEF WellMade

-------------------------------------------------------------------------------
(* The invariant about types, frames and leaving *)

\* With dialogs open, there is room in l for the tracks they may bring.
Asked(n, l) == /\ n["audio"] \in {0, 1} /\ n["video"] \in {0, 1, 2}
               /\ n["audio"] = 1 => "mic" \notin Among(l)
               /\ n["video"] # 0 => "cam2" \notin Among(l)
               /\ n["video"] = 2 => "cam" \notin Among(l)

\* The parts of connections and frames fit, what is asked for is not there yet.
Parts == \A x \in Browser : /\ Asked(opening[x], live[x])
                            /\ pc[x] # NoPC => WellMade(pc[x])

GoodFrame(f) == f.type \in {"OFFER", "ANSWER"} => f.sends \subseteq Among(f.lines)

\* JOIN comes first of all, to "a", which has no entry then.  Nobody is told of a
\* leaving that has not been.
Frames == \A x \in Browser : \A i \in 1..Len(wire[x]) :
             /\ GoodFrame(wire[x][i])
             /\ wire[x][i].type = "JOIN" => i = 1 /\ x = "a" /\ made[x] = 0 /\ ~peer[x]
             /\ wire[x][i].type = "LEAVE" => Other(x) \notin inRoom

\* Who has left keeps nothing and does nothing.
NothingKept == \A x \in Browser : x \notin inRoom =>
                  /\ wire[x] = <<>> /\ ~peer[x] /\ pc[x] = NoPC
                  /\ live[x] = <<>> /\ \A k \in Kind : opening[x][k] = 0 /\ ~on[x][k]

\* LEAVE is the last one hears of a member; until it has been taken, it is there.
Goodbye == \A x \in Browser : x \in inRoom /\ Other(x) \notin inRoom =>
              IF wire[x] = <<>> THEN ~peer[x] /\ pc[x] = NoPC
              ELSE wire[x][Len(wire[x])].type = "LEAVE"

IInv == TypeOK /\ Parts /\ Frames /\ NothingKept /\ Goodbye

LEMMA Types ==
    ASSUME TypeOK, NEW x \in Browser
    PROVE  /\ wire[x] \in Seq(Frame) /\ peer[x] \in BOOLEAN /\ made[x] \in 0..MaxPC
           /\ pc[x] \in PC \cup {NoPC} /\ (pc[x] # NoPC => pc[x] \in PC /\ peer[x])
           /\ live[x] \in Lines /\ on[x] \in [Kind -> BOOLEAN] /\ opening[x] \in [Kind -> 0 .. 2]
           /\ media[x] \in [Kind -> {"unknown", "on", "off"}]
BY DEF TypeOK

LEMMA SentFacts ==
    ASSUME TypeOK, NEW x \in Browser, NEW fs \in Seq(Frame)
    PROVE  /\ Sent(x, fs) \in [Browser -> Seq(Frame)] /\ Sent(x, fs)[x] = wire[x]
           /\ Sent(x, fs)[Other(x)] = IF Other(x) \in inRoom THEN wire[Other(x)] \o fs
                                      ELSE wire[Other(x)]
<1>1. wire \in [Browser -> Seq(Frame)] /\ wire[Other(x)] \in Seq(Frame)
  BY OtherFacts DEF TypeOK
<1>2. wire[Other(x)] \o fs \in Seq(Frame)
  BY <1>1, ConcatProperties
<1> QED BY <1>1, <1>2, OtherFacts DEF Sent

LEMMA TakenFacts ==
    ASSUME TypeOK, NEW x \in Browser, wire[x] # <<>>
    PROVE  /\ Taken(x) \in [Browser -> Seq(Frame)] /\ Taken(x)[x] = Tail(wire[x])
           /\ Taken(x)[Other(x)] = wire[Other(x)]
           /\ Head(wire[x]) \in Frame /\ Head(wire[x]) = wire[x][1] /\ 1 \in 1..Len(wire[x])
<1>1. wire \in [Browser -> Seq(Frame)] /\ wire[x] \in Seq(Frame)
  BY DEF TypeOK
<1>2. /\ Tail(wire[x]) \in Seq(Frame) /\ Head(wire[x]) \in Frame /\ Head(wire[x]) = wire[x][1]
      /\ Len(wire[x]) \in Nat \ {0}
  BY <1>1, HeadTailProperties, LenProperties, EmptySeq
<1> QED BY <1>1, <1>2, OtherFacts DEF Taken

LEMMA TailFacts ==
    ASSUME NEW w \in Seq(Frame), w # <<>>
    PROVE  /\ Tail(w) \in Seq(Frame) /\ Len(w) \in Nat \ {0} /\ Len(Tail(w)) = Len(w) - 1
           /\ \A i \in 1..(Len(w) - 1) : Tail(w)[i] = w[i + 1]
           /\ (Tail(w) = <<>> <=> Len(w) = 1)
<1>1. Tail(w) \in Seq(Frame) /\ Len(Tail(w)) = Len(w) - 1 /\ Len(w) \in Nat \ {0}
  BY HeadTailProperties, EmptySeq, LenProperties
<1>2. \A i \in 1..Len(Tail(w)) : Tail(w)[i] = w[i + 1]
  BY HeadTailProperties
<1>3. Tail(w) = <<>> <=> Len(Tail(w)) = 0
  BY <1>1, EmptySeq
<1> QED BY <1>1, <1>2, <1>3

\* Frames that can be sent at any time.
Plain(fs) == /\ fs \in Seq(Frame)
             /\ \A i \in 1..Len(fs) : fs[i].type \in {"OFFER", "ANSWER", "MEDIA"} /\ GoodFrame(fs[i])

LEMMA MediaFrames ==
    /\ \A k \in Kind, v \in BOOLEAN : Media(k, v) \in Frame /\ Media(k, v).type = "MEDIA"
    /\ \A k \in Kind, v \in BOOLEAN : Plain(<<Media(k, v)>>)
    /\ \A x \in Browser : TypeOK => MediaState(x) \in Seq(Frame) /\ Plain(MediaState(x))
                                    /\ \A i \in 1..Len(MediaState(x)) : MediaState(x)[i].type = "MEDIA"
<1>1. ASSUME NEW k \in Kind, NEW v \in BOOLEAN
      PROVE  Media(k, v) \in Frame /\ Media(k, v).type = "MEDIA"
  BY DEF Media, Frame
<1>2. ASSUME NEW k \in Kind, NEW v \in BOOLEAN PROVE Plain(<<Media(k, v)>>)
  <2>1. PICK f \in Frame : f = Media(k, v)
    BY <1>1
  <2>2. f.type = "MEDIA"
    BY <1>1, <2>1
  <2>3. Plain(<<f>>)
    BY <2>2 DEF Plain, GoodFrame
  <2> QED BY <2>1, <2>3
<1>3. ASSUME NEW x \in Browser, TypeOK
      PROVE  /\ MediaState(x) \in Seq(Frame) /\ Plain(MediaState(x))
             /\ \A i \in 1..Len(MediaState(x)) : MediaState(x)[i].type = "MEDIA"
  <2>1. on[x]["video"] \in BOOLEAN /\ on[x]["audio"] \in BOOLEAN
    BY <1>3 DEF TypeOK, Kind
  <2>2. PICK f \in Frame : f = Media("video", on[x]["video"]) /\ f.type = "MEDIA"
    BY <1>1, <2>1 DEF Kind
  <2>3. PICK g \in Frame : g = Media("audio", on[x]["audio"]) /\ g.type = "MEDIA"
    BY <1>1, <2>1 DEF Kind
  <2>4. MediaState(x) = <<f, g>>
    BY <2>2, <2>3 DEF MediaState
  <2>5. /\ <<f, g>> \in Seq(Frame) /\ Plain(<<f, g>>)
        /\ \A i \in 1..Len(<<f, g>>) : <<f, g>>[i].type = "MEDIA"
    BY <2>2, <2>3 DEF Plain, GoodFrame
  <2> QED BY <2>4, <2>5
<1> QED BY <1>1, <1>2, <1>3

\* What a step of x does to frames, entries and connections.
Effect(x) ==
    /\ inRoom' = inRoom /\ x \in inRoom
    /\ wire' \in [Browser -> Seq(Frame)]
    /\ peer'[Other(x)] = peer[Other(x)] /\ pc'[Other(x)] = pc[Other(x)]
    /\ made'[Other(x)] = made[Other(x)] /\ on'[Other(x)] = on[Other(x)]
    /\ opening'[Other(x)] = opening[Other(x)] /\ live'[Other(x)] = live[Other(x)]
    /\ mishaps' \subseteq {"crossing", "cut"}
    /\ \/ wire'[Other(x)] = wire[Other(x)]
       \/ /\ Other(x) \in inRoom
          /\ \E fs : Plain(fs) /\ wire'[Other(x)] = wire[Other(x)] \o fs
    /\ \/ /\ wire'[x] = wire[x] /\ made'[x] = made[x]
          /\ \/ peer'[x] = peer[x] /\ (pc[x] = NoPC => pc'[x] = NoPC)
             \/ peer[x] /\ ~peer'[x] /\ pc'[x] = NoPC
       \/ /\ wire[x] # <<>> /\ wire'[x] = Tail(wire[x])
          /\ wire[x][1].type = "LEAVE" => ~peer'[x] /\ pc'[x] = NoPC

LEMMA EffectKeeps ==
    ASSUME IInv, NEW x \in Browser, Effect(x)
    PROVE  Frames' /\ NothingKept' /\ Goodbye'
<1> DEFINE o == Other(x)
<1>1. /\ o \in Browser /\ o # x /\ Other(o) = x /\ \A y \in Browser : y = x \/ y = o
  BY OtherFacts
<1>2. /\ inRoom' = inRoom /\ x \in inRoom
      /\ peer'[o] = peer[o] /\ pc'[o] = pc[o] /\ made'[o] = made[o] /\ on'[o] = on[o]
      /\ opening'[o] = opening[o] /\ live'[o] = live[o]
  BY DEF Effect
<1>3. \/ wire'[o] = wire[o]
      \/ o \in inRoom /\ \E fs : Plain(fs) /\ wire'[o] = wire[o] \o fs
  BY DEF Effect
<1>4. \/ /\ wire'[x] = wire[x] /\ made'[x] = made[x]
         /\ \/ peer'[x] = peer[x] /\ (pc[x] = NoPC => pc'[x] = NoPC)
            \/ peer[x] /\ ~peer'[x] /\ pc'[x] = NoPC
      \/ /\ wire[x] # <<>> /\ wire'[x] = Tail(wire[x])
         /\ wire[x][1].type = "LEAVE" => ~peer'[x] /\ pc'[x] = NoPC
  BY DEF Effect
<1>5. wire[x] \in Seq(Frame) /\ wire[o] \in Seq(Frame) /\ Len(wire[x]) \in Nat
  BY <1>1, Types, LenProperties DEF IInv
<1>6. wire[x] # <<>> => /\ Len(Tail(wire[x])) = Len(wire[x]) - 1 /\ Len(wire[x]) \in Nat \ {0}
                        /\ \A i \in 1..(Len(wire[x]) - 1) : Tail(wire[x])[i] = wire[x][i + 1]
                        /\ (Tail(wire[x]) = <<>> <=> Len(wire[x]) = 1)
  BY <1>5, TailFacts
<1> HIDE DEF o
<1>7. ASSUME NEW i \in 1..Len(wire'[x])
      PROVE  /\ GoodFrame(wire'[x][i])
             /\ wire'[x][i].type = "JOIN" => i = 1 /\ x = "a" /\ made'[x] = 0 /\ ~peer'[x]
             /\ wire'[x][i].type = "LEAVE" => o \notin inRoom
  <2>1. CASE /\ wire'[x] = wire[x] /\ made'[x] = made[x]
             /\ peer'[x] = peer[x] \/ ~peer'[x]
    <3>1. /\ GoodFrame(wire[x][i])
          /\ wire[x][i].type = "JOIN" => i = 1 /\ x = "a" /\ made[x] = 0 /\ ~peer[x]
          /\ wire[x][i].type = "LEAVE" => o \notin inRoom
      BY <2>1 DEF IInv, Frames, o
    <3> QED BY <2>1, <3>1
  <2>2. CASE wire[x] # <<>> /\ wire'[x] = Tail(wire[x])
    <3>1. i \in Nat /\ i + 1 \in 1..Len(wire[x]) /\ i + 1 # 1 /\ wire'[x][i] = wire[x][i + 1]
      BY <1>6, <2>2
    <3>2. /\ GoodFrame(wire[x][i + 1]) /\ wire[x][i + 1].type # "JOIN"
          /\ wire[x][i + 1].type = "LEAVE" => o \notin inRoom
      BY <3>1 DEF IInv, Frames, o
    <3> QED BY <3>1, <3>2
  <2> QED BY <1>4, <2>1, <2>2
<1>8. ASSUME NEW i \in 1..Len(wire'[o])
      PROVE  /\ GoodFrame(wire'[o][i])
             /\ wire'[o][i].type = "JOIN" => i = 1 /\ o = "a" /\ made'[o] = 0 /\ ~peer'[o]
             /\ wire'[o][i].type = "LEAVE" => x \notin inRoom
  <2>1. CASE i \in 1..Len(wire[o]) /\ wire'[o][i] = wire[o][i]
    BY <1>1, <1>2, <2>1 DEF IInv, Frames
  <2>2. CASE \E fs : Plain(fs) /\ wire'[o] = wire[o] \o fs
    <3> PICK fs : Plain(fs) /\ wire'[o] = wire[o] \o fs
      BY <2>2
    <3>1. /\ Len(wire'[o]) = Len(wire[o]) + Len(fs) /\ Len(wire[o]) \in Nat /\ Len(fs) \in Nat
          /\ \A j \in 1..Len(wire[o]) : wire'[o][j] = wire[o][j]
          /\ \A j \in 1..Len(fs) : wire'[o][Len(wire[o]) + j] = fs[j]
      BY <1>5, ConcatProperties, LenProperties DEF Plain
    <3>2. CASE i \in 1..Len(wire[o])
      BY <2>1, <3>1, <3>2
    <3>3. CASE i \notin 1..Len(wire[o])
      <4>1. PICK j \in 1..Len(fs) : i = Len(wire[o]) + j
        <5>1. i - Len(wire[o]) \in 1..Len(fs) /\ i = Len(wire[o]) + (i - Len(wire[o]))
          BY <3>1, <3>3
        <5> QED BY <5>1
      <4>2. wire'[o][i] = fs[j]
        BY <3>1, <4>1
      <4> QED BY <4>2 DEF Plain
    <3> QED BY <3>2, <3>3
  <2> QED BY <1>3, <2>1, <2>2
<1>9. Frames'
  <2> SUFFICES ASSUME NEW y \in Browser, NEW i \in 1..Len(wire'[y])
               PROVE  /\ GoodFrame(wire'[y][i])
                      /\ wire'[y][i].type = "JOIN" => i = 1 /\ y = "a" /\ made'[y] = 0 /\ ~peer'[y]
                      /\ wire'[y][i].type = "LEAVE" => Other(y) \notin inRoom'
    BY DEF Frames, GoodFrame
  <2> QED BY <1>1, <1>2, <1>7, <1>8 DEF o
<1>10. NothingKept'
  <2> SUFFICES ASSUME o \notin inRoom
               PROVE  /\ wire'[o] = <<>> /\ ~peer'[o] /\ pc'[o] = NoPC
                      /\ live'[o] = <<>> /\ \A k \in Kind : opening'[o][k] = 0 /\ ~on'[o][k]
    BY <1>1, <1>2 DEF NothingKept
  <2> QED BY <1>1, <1>2, <1>3 DEF IInv, NothingKept
<1>11. Goodbye'
  <2> SUFFICES ASSUME o \notin inRoom
               PROVE  IF wire'[x] = <<>> THEN ~peer'[x] /\ pc'[x] = NoPC
                      ELSE wire'[x][Len(wire'[x])].type = "LEAVE"
    BY <1>1, <1>2 DEF Goodbye, o
  <2>1. IF wire[x] = <<>> THEN ~peer[x] /\ pc[x] = NoPC
        ELSE wire[x][Len(wire[x])].type = "LEAVE"
    BY <1>2 DEF IInv, Goodbye, o
  <2>2. CASE wire'[x] = wire[x] /\ wire[x] # <<>>
    BY <2>1, <2>2
  <2>3. CASE wire'[x] = wire[x] /\ wire[x] = <<>>
    BY <1>4, <2>1, <2>3
  <2>4. CASE wire[x] # <<>> /\ wire'[x] = Tail(wire[x]) /\ Len(wire[x]) = 1
    BY <1>4, <1>6, <2>1, <2>4
  <2>5. CASE wire[x] # <<>> /\ wire'[x] = Tail(wire[x]) /\ Len(wire[x]) # 1
    <3>1. /\ Len(wire'[x]) \in 1..(Len(wire[x]) - 1) /\ Len(wire'[x]) + 1 = Len(wire[x])
          /\ wire'[x] # <<>>
      BY <1>6, <2>5
    <3> QED BY <1>6, <2>1, <2>5, <3>1
  <2> QED BY <1>4, <2>2, <2>3, <2>4, <2>5
<1> QED BY <1>9, <1>10, <1>11

-------------------------------------------------------------------------------
(* The steps *)

\* A step keeps the types if what it writes has them, and fits.
LEMMA TypesKept ==
    ASSUME IInv, NEW x \in Browser, Effect(x),
           peer' \in [Browser -> BOOLEAN], made' \in [Browser -> 0 .. MaxPC],
           media' \in [Browser -> [Kind -> {"unknown", "on", "off"}]],
           NEW v, pc' = [pc EXCEPT ![x] = v],
           v = NoPC \/ (v \in PC /\ WellMade(v) /\ peer'[x]),
           live' \in [Browser -> Lines], on' \in [Browser -> [Kind -> BOOLEAN]],
           opening' \in [Browser -> [Kind -> 0 .. 2]], switched' \in 0 .. MaxSwitch,
           Asked(opening'[x], live'[x])
    PROVE  IInv'
<1>1. pc' \in [Browser -> PC \cup {NoPC}] /\ pc'[x] = v
  BY DEF IInv, TypeOK
<1>2. \A y \in Browser : y = x \/ y = Other(x)
  BY OtherFacts
<1>3. wire' \in [Browser -> Seq(Frame)] /\ inRoom' \subseteq Browser
  BY DEF Effect, IInv, TypeOK
<1>4. \A y \in Browser : pc'[y] # NoPC => peer'[y] /\ WellMade(pc'[y])
  <2>1. pc'[x] # NoPC => peer'[x] /\ WellMade(pc'[x])
    BY <1>1
  <2>2. pc'[Other(x)] # NoPC => peer'[Other(x)] /\ WellMade(pc'[Other(x)])
    BY OtherFacts DEF Effect, IInv, TypeOK, Parts
  <2> QED BY <1>2, <2>1, <2>2
<1>5. \A y \in Browser : Asked(opening'[y], live'[y])
  <2>1. Asked(opening'[Other(x)], live'[Other(x)])
    BY OtherFacts DEF Effect, IInv, Parts
  <2> QED BY <1>2, <2>1
<1>6. \A y \in Browser : opening'[y]["audio"] = 1 => "mic" \notin Among(live'[y])
  BY <1>5 DEF Asked
<1>7. TypeOK'
  <2>1. mishaps' \subseteq {"crossing", "cut"}
    BY DEF Effect
  <2> QED BY <1>1, <1>3, <1>4, <1>6, <2>1 DEF TypeOK, WellMade, Among
<1>8. Parts'
  BY <1>4, <1>5 DEF Parts, WellMade, Asked, Among
<1> QED BY <1>7, <1>8, EffectKeeps DEF IInv

\* Who acts is in the room.
LEMMA ActorsAreIn ==
    ASSUME IInv, NEW x \in Browser,
           \/ Step(x) \/ ConnectionFails(x) \/ Leave(x)
           \/ \E k \in Kind : SwitchOn(x, k) \/ SwitchOff(x, k) \/ GotMedia(x, k) \/ NoMedia(x, k)
    PROVE  x \in inRoom
<1> SUFFICES ASSUME x \notin inRoom PROVE FALSE
  OBVIOUS
<1>1. /\ wire[x] = <<>> /\ pc[x] = NoPC /\ pc[x].run = "none" /\ live[x] = <<>>
      /\ \A k \in Kind : opening[x][k] = 0 /\ ~on[x][k]
  BY NoPCFields DEF IInv, NothingKept
<1>2. ~Step(x) /\ ~ConnectionFails(x) /\ ~Leave(x)
  BY <1>1 DEF Step, Leave, TakeJoin, TakeMedia, TakeLeave, TakeOffer, HandleAnswer, SendAnswer,
     Negotiate, SendOffer, ConnectionFails, Next1
<1>3. ASSUME NEW k \in Kind PROVE ~SwitchOn(x, k) /\ ~SwitchOff(x, k)
  BY <1>1 DEF SwitchOn, SwitchOff
<1>4. ASSUME NEW k \in Kind PROVE ~GotMedia(x, k) /\ ~NoMedia(x, k)
  <2>1. opening[x][k] = 0
    BY <1>1
  <2>2. ~(opening[x][k] > 0)
    BY <2>1
  <2> QED BY <2>2 DEF GotMedia, NoMedia
<1> QED BY <1>2, <1>3, <1>4

\* setTrackEnabled sends no more than a frame about media.
LEMMA SetTrackFacts ==
    ASSUME IInv, NEW x \in Browser, NEW k \in Kind, NEW v \in BOOLEAN, SetTrackEnabled(x, k, v)
    PROVE  /\ on' \in [Browser -> [Kind -> BOOLEAN]] /\ on'[Other(x)] = on[Other(x)]
           /\ wire' \in [Browser -> Seq(Frame)] /\ wire'[x] = wire[x]
           /\ \/ wire'[Other(x)] = wire[Other(x)]
              \/ /\ Other(x) \in inRoom
                 /\ Plain(<<Media(k, v)>>) /\ wire'[Other(x)] = wire[Other(x)] \o <<Media(k, v)>>
<1>1. Plain(<<Media(k, v)>>) /\ <<Media(k, v)>> \in Seq(Frame)
  BY MediaFrames DEF Plain
<1>2. on' \in [Browser -> [Kind -> BOOLEAN]] /\ on'[Other(x)] = on[Other(x)]
  BY OtherFacts DEF SetTrackEnabled, IInv, TypeOK
<1>3. wire' = wire \/ wire' = Sent(x, <<Media(k, v)>>)
  BY DEF SetTrackEnabled
<1>4. wire \in [Browser -> Seq(Frame)] /\ TypeOK
  BY DEF IInv, TypeOK
<1>5. CASE wire' = wire
  BY <1>2, <1>4, <1>5
<1>6. CASE wire' = Sent(x, <<Media(k, v)>>)
  <2> DEFINE fs == <<Media(k, v)>>
  <2>1. fs \in Seq(Frame) /\ wire' = Sent(x, fs)
    BY <1>1, <1>6
  <2> HIDE DEF fs
  <2>2. /\ wire' \in [Browser -> Seq(Frame)] /\ wire'[x] = wire[x]
        /\ wire'[Other(x)] = IF Other(x) \in inRoom THEN wire[Other(x)] \o fs ELSE wire[Other(x)]
    BY <1>4, <2>1, SentFacts
  <2> QED BY <1>1, <1>2, <2>2 DEF fs
<1> QED BY <1>3, <1>5, <1>6

\* A dialog more, a dialog less, and the track it brings.
LEMMA OpeningStep ==
    ASSUME IInv, NEW x \in Browser, NEW k \in Kind,
           SwitchOn(x, k) \/ SwitchOff(x, k) \/ GotMedia(x, k) \/ NoMedia(x, k)
    PROVE  /\ opening' \in [Browser -> [Kind -> 0 .. 2]] /\ opening'[Other(x)] = opening[Other(x)]
           /\ live' \in [Browser -> Lines] /\ live'[Other(x)] = live[Other(x)]
           /\ Asked(opening'[x], live'[x])
<1>1. Other(x) \in Browser /\ Other(x) # x /\ (k = "audio" \/ k = "video")
  BY OtherFacts DEF Kind
<1>2. /\ live[x] \in Lines /\ live \in [Browser -> Lines] /\ Asked(opening[x], live[x])
      /\ opening \in [Browser -> [Kind -> 0 .. 2]] /\ opening[x] \in [Kind -> 0 .. 2]
  BY DEF IInv, TypeOK, Parts
<1>3. CASE UNCHANGED <<opening, live>>
  BY <1>2, <1>3
<1>4. PICK n : n = opening[x][k]
  OBVIOUS
<1>5. n \in 0 .. 2
  BY <1>2, <1>4
<1>6. ASSUME NEW m \in 0 .. 2, opening' = [opening EXCEPT ![x][k] = m]
      PROVE  /\ opening' \in [Browser -> [Kind -> 0 .. 2]] /\ opening'[Other(x)] = opening[Other(x)]
             /\ opening'[x][k] = m /\ \A j \in Kind : j # k => opening'[x][j] = opening[x][j]
  BY <1>1, <1>2, <1>6
<1>7. CASE /\ live' = live /\ opening' = [opening EXCEPT ![x][k] = @ + 1]
           /\ TracksOf(k) \cap Among(live[x]) = {} /\ Asks(x, k)
  <2>1. n < 2 /\ (k = "audio" => n = 0)
    BY <1>1, <1>4, <1>5, <1>7, CallAssumption DEF Asks
  <2>2. PICK m : m = n + 1
    OBVIOUS
  <2>3. m \in 0 .. 2 /\ (k = "audio" => m = 1)
    BY <1>5, <2>1, <2>2
  <2>4. opening' = [opening EXCEPT ![x][k] = m]
    BY <1>4, <1>7, <2>2
  <2>5. Asked(opening'[x], live'[x])
    BY <1>1, <1>2, <1>6, <1>7, <2>3, <2>4 DEF Asked, TracksOf, Kind
  <2> QED BY <1>2, <1>6, <1>7, <2>3, <2>4, <2>5
<1>8. CASE n > 0 /\ opening' = [opening EXCEPT ![x][k] = @ - 1] /\ (live' = live \/ GotMedia(x, k))
  <2>1. PICK m : m = n - 1
    OBVIOUS
  <2>2. m \in {0, 1} /\ m \in 0 .. 2 /\ n = m + 1
    BY <1>5, <1>8, <2>1
  <2>3. opening' = [opening EXCEPT ![x][k] = m]
    BY <1>4, <1>8, <2>1
  <2>4. /\ opening' \in [Browser -> [Kind -> 0 .. 2]] /\ opening'[Other(x)] = opening[Other(x)]
        /\ opening'[x][k] = m /\ \A j \in Kind : j # k => opening'[x][j] = opening[x][j]
    BY <1>6, <2>2, <2>3
  <2>5. /\ k = "audio" => m = 0 /\ "mic" \notin Among(live[x])
        /\ k = "video" => "cam2" \notin Among(live[x]) /\ (m = 1 => "cam" \notin Among(live[x]))
    <3>1. /\ opening[x][k] = m + 1
          /\ opening[x]["audio"] \in {0, 1} /\ (opening[x]["audio"] = 1 => "mic" \notin Among(live[x]))
          /\ opening[x]["video"] # 0 => "cam2" \notin Among(live[x])
          /\ opening[x]["video"] = 2 => "cam" \notin Among(live[x])
      BY <1>2, <1>4, <2>2 DEF Asked
    <3>2. CASE k = "audio"
      <4>1. opening[x]["audio"] = m + 1
        BY <3>1, <3>2
      <4>2. opening[x]["audio"] = 1 /\ m = 0
        BY <2>2, <3>1, <4>1
      <4> QED BY <3>1, <3>2, <4>2
    <3>3. CASE k = "video"
      <4>1. opening[x]["video"] = m + 1
        BY <3>1, <3>3
      <4>2. opening[x]["video"] # 0 /\ (m = 1 => opening[x]["video"] = 2)
        BY <2>2, <4>1
      <4> QED BY <3>1, <3>3, <4>2
    <3> QED BY <1>1, <3>2, <3>3
  <2>6. CASE live' = live
    <3>1. Asked(opening'[x], live'[x])
      BY <1>1, <1>2, <2>4, <2>5, <2>2, <2>6 DEF Asked, Kind
    <3> QED BY <1>2, <2>4, <2>6, <3>1
  <2>7. CASE GotMedia(x, k)
    <3>1. PICK t \in Track : t = NewTrack(x, k)
      BY DEF NewTrack, Track
    <3>2. t \notin Among(live[x]) /\ live' = [live EXCEPT ![x] = Append(@, t)]
      BY <1>1, <2>5, <2>7, <3>1 DEF NewTrack, GotMedia
    <3>3. Append(live[x], t) \in Lines /\ Among(Append(live[x], t)) = Among(live[x]) \cup {t}
      BY <1>2, <3>2, AppendedLines
    <3>4. /\ live' \in [Browser -> Lines] /\ live'[Other(x)] = live[Other(x)]
          /\ Among(live'[x]) = Among(live[x]) \cup {t}
      BY <1>1, <1>2, <3>2, <3>3
    <3>5. CASE k = "audio"
      <4>1. t = "mic"
        BY <3>1, <3>5 DEF NewTrack
      <4> QED BY <1>2, <2>4, <2>5, <3>4, <3>5, <4>1 DEF Asked, Kind
    <3>6. CASE k = "video"
      <4>1. /\ t = IF "cam" \in Among(live[x]) THEN "cam2" ELSE "cam"
            /\ m = 1 => "cam" \notin Among(live[x])
        BY <2>5, <3>1, <3>6 DEF NewTrack
      <4>2. m = 0 \/ (m = 1 /\ t = "cam")
        BY <2>2, <4>1
      <4>3. /\ opening'[x]["video"] = m /\ opening'[x]["audio"] = opening[x]["audio"]
            /\ "cam2" \notin Among(live[x]) /\ t # "mic"
        BY <2>4, <2>5, <3>6, <4>1 DEF Kind
      <4> QED BY <1>2, <2>4, <3>4, <4>1, <4>2, <4>3 DEF Asked
    <3> QED BY <1>1, <2>4, <3>4, <3>5, <3>6
  <2> QED BY <1>8, <2>6, <2>7
<1> QED BY <1>3, <1>4, <1>7, <1>8 DEF SwitchOn, SwitchOff, GotMedia, NoMedia

LEMMA DeviceStep ==
    ASSUME IInv, NEW x \in Browser, NEW k \in Kind,
           SwitchOn(x, k) \/ SwitchOff(x, k) \/ GotMedia(x, k) \/ NoMedia(x, k)
    PROVE  Effect(x) /\ IInv'
<1>1. x \in inRoom /\ Other(x) \in Browser /\ Other(x) # x
  BY ActorsAreIn, OtherFacts
<1>2. wire \in [Browser -> Seq(Frame)] /\ on \in [Browser -> [Kind -> BOOLEAN]] /\ TypeOK
  BY DEF IInv, TypeOK
<1>3. /\ wire' \in [Browser -> Seq(Frame)] /\ wire'[x] = wire[x]
      /\ on' \in [Browser -> [Kind -> BOOLEAN]] /\ on'[Other(x)] = on[Other(x)]
      /\ \/ wire'[Other(x)] = wire[Other(x)]
         \/ Other(x) \in inRoom /\ \E fs : Plain(fs) /\ wire'[Other(x)] = wire[Other(x)] \o fs
  <2>1. CASE SetTrackEnabled(x, k, TRUE) \/ SetTrackEnabled(x, k, FALSE)
    BY <2>1, SetTrackFacts
  <2>2. CASE UNCHANGED <<on, wire>>
    BY <1>2, <2>2
  <2> QED BY <2>1, <2>2 DEF SwitchOn, SwitchOff, GotMedia, NoMedia
<1>4. UNCHANGED <<inRoom, peer, media, made, mishaps>>
  BY DEF SwitchOn, SwitchOff, GotMedia, NoMedia
<1>5. /\ opening' \in [Browser -> [Kind -> 0 .. 2]] /\ opening'[Other(x)] = opening[Other(x)]
      /\ live' \in [Browser -> Lines] /\ live'[Other(x)] = live[Other(x)]
      /\ Asked(opening'[x], live'[x])
  BY <1>1, OpeningStep
<1>6. PICK v : /\ pc' = [pc EXCEPT ![x] = v]
               /\ v = NoPC <=> pc[x] = NoPC
               /\ v = NoPC \/ (v \in PC /\ WellMade(v))
  <2>1. pc \in [Browser -> PC \cup {NoPC}] /\ (pc[x] # NoPC => pc[x] \in PC /\ WellMade(pc[x]))
    BY DEF IInv, TypeOK, Parts
  <2>2. CASE pc' = pc
    <3>1. pc' = [pc EXCEPT ![x] = pc[x]]
      BY <2>1, <2>2
    <3> QED BY <2>1, <3>1
  <2>3. CASE pc[x] # NoPC /\ pc' = [pc EXCEPT ![x] = AddTracks(@, <<FirstTrack(k)>>)]
    <3>1. PICK t \in Track : t = FirstTrack(k)
      BY DEF FirstTrack, Track
    <3>2. <<t>> \in Lines
      BY ShortLines
    <3>3. AddTracks(pc[x], <<t>>) \in PC /\ WellMade(AddTracks(pc[x], <<t>>))
      BY <2>1, <2>3, <3>2, AddTracksFacts
    <3>4. pc' = [pc EXCEPT ![x] = AddTracks(pc[x], <<t>>)]
      BY <2>3, <3>1
    <3> QED BY <2>3, <3>3, <3>4, NoPCFields
  <2> QED BY <2>2, <2>3 DEF SwitchOn, SwitchOff, GotMedia, NoMedia
<1>7. pc'[Other(x)] = pc[Other(x)] /\ pc'[x] = v
  BY <1>1, <1>6 DEF IInv, TypeOK
<1>8. Effect(x)
  BY <1>1, <1>3, <1>4, <1>5, <1>6, <1>7 DEF Effect, IInv, TypeOK
<1>9. switched' \in 0..MaxSwitch
  <2>1. switched \in 0..MaxSwitch /\ MaxSwitch \in Nat
    BY CallAssumption DEF IInv, TypeOK
  <2>2. switched' = switched \/ (switched < MaxSwitch /\ switched' = switched + 1)
    BY DEF SwitchOn, SwitchOff, GotMedia, NoMedia
  <2> QED BY <2>1, <2>2
<1>10. v # NoPC => peer'[x]
  BY <1>4, <1>6, Types DEF IInv
<1> QED BY <1>2, <1>3, <1>4, <1>5, <1>6, <1>8, <1>9, <1>10, TypesKept DEF TypeOK

\* Steps that change nothing of the devices.
DevicesSame == UNCHANGED <<live, on, opening, switched>>

LEMMA BrowserStep ==
    ASSUME IInv, NEW x \in Browser, Effect(x), DevicesSame,
           peer' \in [Browser -> BOOLEAN], made' \in [Browser -> 0 .. MaxPC],
           media' \in [Browser -> [Kind -> {"unknown", "on", "off"}]],
           NEW v, pc' = [pc EXCEPT ![x] = v],
           v = NoPC \/ (v \in PC /\ WellMade(v) /\ peer'[x])
    PROVE  IInv'
<1>1. /\ live' \in [Browser -> Lines] /\ on' \in [Browser -> [Kind -> BOOLEAN]]
      /\ opening' \in [Browser -> [Kind -> 0 .. 2]] /\ switched' \in 0 .. MaxSwitch
      /\ Asked(opening'[x], live'[x])
  BY DEF DevicesSame, IInv, TypeOK, Parts
<1> QED BY <1>1, TypesKept

\* What holds of x and the other one before a step of x.
LEMMA Before ==
    ASSUME IInv, NEW x \in Browser
    PROVE  /\ Other(x) \in Browser /\ Other(x) # x /\ Other(Other(x)) = x
           /\ TypeOK /\ wire \in [Browser -> Seq(Frame)] /\ peer \in [Browser -> BOOLEAN]
           /\ made \in [Browser -> 0 .. MaxPC] /\ pc \in [Browser -> PC \cup {NoPC}]
           /\ media \in [Browser -> [Kind -> {"unknown", "on", "off"}]]
           /\ Unknown \in [Kind -> {"unknown", "on", "off"}]
           /\ pc[x] = NoPC \/ (pc[x] \in PC /\ WellMade(pc[x]) /\ peer[x])
           /\ live[x] \in Lines /\ pc = [pc EXCEPT ![x] = pc[x]]
           /\ mishaps \subseteq {"crossing", "cut"}
           /\ \A i \in 1..Len(wire[x]) :
                 /\ GoodFrame(wire[x][i])
                 /\ wire[x][i].type = "JOIN" => i = 1 /\ x = "a" /\ made[x] = 0 /\ ~peer[x]
                 /\ wire[x][i].type = "LEAVE" => Other(x) \notin inRoom
<1>1. pc \in [Browser -> PC \cup {NoPC}]
  BY DEF IInv, TypeOK
<1>2. pc = [pc EXCEPT ![x] = pc[x]]
  BY <1>1
<1> QED BY <1>1, <1>2, OtherFacts DEF IInv, TypeOK, Parts, Frames, Unknown

LEMMA TakeMediaStep ==
    ASSUME IInv, NEW x \in Browser, TakeMedia(x)
    PROVE  Effect(x) /\ IInv'
<1>1. x \in inRoom
  BY ActorsAreIn DEF Step
<1>2. /\ wire[x] # <<>> /\ Head(wire[x]).type = "MEDIA" /\ wire' = Taken(x)
      /\ peer' = [peer EXCEPT ![x] = TRUE]
      /\ media' = [media EXCEPT ![x][Head(wire[x]).kind] = Head(wire[x]).state]
      /\ UNCHANGED <<inRoom, pc, made, mishaps>> /\ DevicesSame
  BY DEF TakeMedia, Next1, DevicesSame
<1>3. /\ wire' \in [Browser -> Seq(Frame)] /\ wire'[x] = Tail(wire[x])
      /\ wire'[Other(x)] = wire[Other(x)]
      /\ Head(wire[x]) \in Frame /\ Head(wire[x]) = wire[x][1]
  BY <1>2, Before, TakenFacts
<1>4. Head(wire[x]).kind \in Kind /\ Head(wire[x]).state \in {"on", "off"}
  BY <1>2, <1>3, FrameFields
<1>5. /\ media' \in [Browser -> [Kind -> {"unknown", "on", "off"}]]
      /\ peer' \in [Browser -> BOOLEAN] /\ peer'[x] /\ peer'[Other(x)] = peer[Other(x)]
  BY <1>2, <1>4, Before
<1>6. Effect(x)
  BY <1>1, <1>2, <1>3, <1>5, Before DEF Effect, DevicesSame
<1>7. made' \in [Browser -> 0 .. MaxPC] /\ pc' = [pc EXCEPT ![x] = pc[x]]
  BY <1>2, Before
<1>8. pc[x] = NoPC \/ (pc[x] \in PC /\ WellMade(pc[x]) /\ peer'[x])
  BY <1>5, Before
<1> QED BY <1>2, <1>5, <1>6, <1>7, <1>8, BrowserStep

\* The entry goes, and with it the connection.
LEMMA ClosePeerFacts ==
    ASSUME IInv, NEW x \in Browser, ClosePeer(x)
    PROVE  /\ peer' \in [Browser -> BOOLEAN] /\ ~peer'[x] /\ peer'[Other(x)] = peer[Other(x)]
           /\ pc' = [pc EXCEPT ![x] = NoPC] /\ pc'[x] = NoPC /\ pc'[Other(x)] = pc[Other(x)]
           /\ media' \in [Browser -> [Kind -> {"unknown", "on", "off"}]]
BY Before DEF ClosePeer

LEMMA ClosingStep ==
    ASSUME IInv, NEW x \in Browser, TakeLeave(x) \/ ConnectionFails(x)
    PROVE  Effect(x) /\ IInv'
<1>1. x \in inRoom
  BY ActorsAreIn DEF Step
<1>2. ClosePeer(x) /\ UNCHANGED <<inRoom, made>> /\ DevicesSame
  BY DEF TakeLeave, ConnectionFails, DevicesSame
<1>3. /\ peer' \in [Browser -> BOOLEAN] /\ ~peer'[x] /\ peer'[Other(x)] = peer[Other(x)]
      /\ pc' = [pc EXCEPT ![x] = NoPC] /\ pc'[x] = NoPC /\ pc'[Other(x)] = pc[Other(x)]
      /\ media' \in [Browser -> [Kind -> {"unknown", "on", "off"}]]
  BY <1>2, ClosePeerFacts
<1>4. /\ wire' \in [Browser -> Seq(Frame)] /\ wire'[Other(x)] = wire[Other(x)]
      /\ \/ wire'[x] = wire[x] /\ peer[x]
         \/ wire[x] # <<>> /\ wire'[x] = Tail(wire[x])
  <2>1. CASE TakeLeave(x)
    BY <2>1, Before, TakenFacts DEF TakeLeave
  <2>2. CASE ConnectionFails(x)
    <3>1. wire' = wire /\ pc[x] # NoPC
      BY <2>2 DEF ConnectionFails
    <3> QED BY <3>1, Before
  <2> QED BY <2>1, <2>2
<1>5. Effect(x)
  <2>1. mishaps' \subseteq {"crossing", "cut"}
    BY Before DEF TakeLeave, ConnectionFails
  <2> QED BY <1>1, <1>2, <1>3, <1>4, <2>1 DEF Effect, DevicesSame
<1>6. made' \in [Browser -> 0 .. MaxPC]
  BY <1>2, Before
<1> QED BY <1>2, <1>3, <1>5, <1>6, BrowserStep

LEMMA TakeJoinStep ==
    ASSUME IInv, NEW x \in Browser, TakeJoin(x)
    PROVE  Effect(x) /\ IInv'
<1>1. x \in inRoom
  BY ActorsAreIn DEF Step
<1>2. /\ wire[x] # <<>> /\ Head(wire[x]).type = "JOIN"
      /\ wire' = [Taken(x) EXCEPT ![Other(x)] =
                     IF Other(x) \in inRoom /\ ~peer[x] THEN @ \o MediaState(x) ELSE @]
      /\ UNCHANGED <<inRoom, media, mishaps>> /\ DevicesSame
  BY DEF TakeJoin, Next1, DevicesSame
<1>3. /\ Taken(x) \in [Browser -> Seq(Frame)] /\ Taken(x)[x] = Tail(wire[x])
      /\ Taken(x)[Other(x)] = wire[Other(x)]
      /\ Head(wire[x]) = wire[x][1] /\ 1 \in 1..Len(wire[x])
  BY <1>2, Before, TakenFacts
<1>4. made[x] = 0 /\ ~peer[x] /\ pc[x] = NoPC
  <2>1. wire[x][1].type = "JOIN"
    BY <1>2, <1>3
  <2>2. made[x] = 0 /\ ~peer[x]
    BY <1>3, <2>1, Before
  <2> QED BY <2>2, Before
<1>5. Plain(MediaState(x)) /\ MediaState(x) \in Seq(Frame)
  BY Before, MediaFrames
<1>6. /\ wire' \in [Browser -> Seq(Frame)] /\ wire'[x] = Tail(wire[x])
      /\ wire'[Other(x)] = IF Other(x) \in inRoom THEN wire[Other(x)] \o MediaState(x)
                           ELSE wire[Other(x)]
  <2>1. wire[Other(x)] \in Seq(Frame)
    BY Before
  <2>2. wire[Other(x)] \o MediaState(x) \in Seq(Frame)
    BY <1>5, <2>1, ConcatProperties
  <2>3. Other(x) \in Browser /\ Other(x) # x
    BY Before
  <2> QED BY <1>2, <1>3, <1>4, <2>1, <2>2, <2>3
<1>7. /\ peer' = [peer EXCEPT ![x] = TRUE] /\ made' = [made EXCEPT ![x] = 1]
      /\ pc' = [pc EXCEPT ![x] = CreateOffer(AddTracks(NewPC(1), live[x]))]
  <2>1. /\ peer' = [peer EXCEPT ![x] = TRUE] /\ made' = [made EXCEPT ![x] = @ + 1]
        /\ pc' = [pc EXCEPT ![x] = CreateOffer(AddTracks(NewPC(made'[x]), live[x]))]
    BY <1>4 DEF TakeJoin
  <2>2. made' = [made EXCEPT ![x] = 1] /\ made'[x] = 1
    BY <1>4, <2>1, Before
  <2> QED BY <2>1, <2>2
<1>8. 1 \in 1..MaxPC /\ 1 \in 0..MaxPC
  BY CallAssumption
<1>9. PICK v : /\ v = CreateOffer(AddTracks(NewPC(1), live[x]))
               /\ v \in PC /\ WellMade(v)
  <2>1. NewPC(1) \in PC /\ WellMade(NewPC(1))
    BY <1>8, NewPCFacts
  <2>2. AddTracks(NewPC(1), live[x]) \in PC /\ WellMade(AddTracks(NewPC(1), live[x]))
    BY <2>1, Before, AddTracksFacts
  <2> QED BY <2>2, CreateOfferFacts
<1>10. /\ peer' \in [Browser -> BOOLEAN] /\ peer'[x] /\ peer'[Other(x)] = peer[Other(x)]
       /\ made' \in [Browser -> 0 .. MaxPC] /\ made'[Other(x)] = made[Other(x)]
       /\ pc'[Other(x)] = pc[Other(x)] /\ pc' = [pc EXCEPT ![x] = v]
  <2>1. /\ peer \in [Browser -> BOOLEAN] /\ made \in [Browser -> 0 .. MaxPC]
        /\ Other(x) \in Browser /\ Other(x) # x /\ pc \in [Browser -> PC \cup {NoPC}]
    BY Before
  <2>2. peer' \in [Browser -> BOOLEAN] /\ peer'[x] /\ peer'[Other(x)] = peer[Other(x)]
    BY <1>7, <2>1
  <2>3. made' \in [Browser -> 0 .. MaxPC] /\ made'[Other(x)] = made[Other(x)]
    BY <1>7, <1>8, <2>1
  <2>4. pc'[Other(x)] = pc[Other(x)] /\ pc' = [pc EXCEPT ![x] = v]
    BY <1>7, <1>9, <2>1
  <2> QED BY <2>2, <2>3, <2>4
<1>11. Effect(x)
  BY <1>1, <1>2, <1>3, <1>5, <1>6, <1>10, Before DEF Effect, DevicesSame
<1>12. media' \in [Browser -> [Kind -> {"unknown", "on", "off"}]]
  BY <1>2, Before
<1> QED BY <1>2, <1>9, <1>10, <1>11, <1>12, BrowserStep

LEMMA TakeOfferStep ==
    ASSUME IInv, NEW x \in Browser, TakeOffer(x)
    PROVE  Effect(x) /\ IInv'
<1> DEFINE d == Head(wire[x])
<1>1. x \in inRoom
  BY ActorsAreIn DEF Step
<1>2. /\ wire[x] # <<>> /\ d.type = "OFFER" /\ wire' = Taken(x)
      /\ peer' = [peer EXCEPT ![x] = TRUE] /\ inRoom' = inRoom /\ DevicesSame
  BY DEF TakeOffer, Next1, DevicesSame
<1>3. /\ wire' \in [Browser -> Seq(Frame)] /\ wire'[x] = Tail(wire[x])
      /\ wire'[Other(x)] = wire[Other(x)]
      /\ d \in Frame /\ d = wire[x][1] /\ 1 \in 1..Len(wire[x])
  BY <1>2, Before, TakenFacts
<1>4. d \in Descr /\ d.lines \in Lines /\ d.sends \subseteq Among(d.lines)
  <2>1. GoodFrame(wire[x][1])
    BY <1>3 DEF IInv, Frames
  <2> QED BY <1>2, <1>3, <2>1, FrameFields DEF GoodFrame
<1>5. peer' \in [Browser -> BOOLEAN] /\ peer'[x] /\ peer'[Other(x)] = peer[Other(x)]
  <2>1. peer \in [Browser -> BOOLEAN] /\ Other(x) \in Browser /\ Other(x) # x
    BY Before
  <2> QED BY <1>2, <2>1
<1>6. PICK v : /\ pc' = [pc EXCEPT ![x] = v] /\ v \in PC /\ WellMade(v)
               /\ made' \in [Browser -> 0 .. MaxPC] /\ made'[Other(x)] = made[Other(x)]
               /\ media' \in [Browser -> [Kind -> {"unknown", "on", "off"}]]
  <2>1. CASE pc[x] # NoPC /\ Fits(pc[x], d)
    <3>1. pc' = [pc EXCEPT ![x] = Remote(pc[x], d, "accept")] /\ UNCHANGED <<made, media>>
      BY <2>1 DEF TakeOffer
    <3>2. Remote(pc[x], d, "accept") \in PC /\ WellMade(Remote(pc[x], d, "accept"))
      BY <1>4, <2>1, Before, RemoteFacts
    <3> QED BY <3>1, <3>2, Before
  <2>2. CASE ~(pc[x] # NoPC /\ Fits(pc[x], d))
    <3>1. /\ made[x] < MaxPC /\ made' = [made EXCEPT ![x] = @ + 1]
          /\ pc' = [pc EXCEPT ![x] = Remote(NewPC(made'[x]), d, "accept new")]
          /\ media' = media \/ media' = [media EXCEPT ![x] = Unknown]
      BY <2>2 DEF TakeOffer
    <3>9. PICK m : m = made[x]
      OBVIOUS
    <3>10. PICK n : n = m + 1
      OBVIOUS
    <3>2. n \in 1..MaxPC /\ n \in 0..MaxPC
      <4>1. m \in 0..MaxPC /\ MaxPC \in Nat /\ m < MaxPC
        BY <3>1, <3>9, Before, CallAssumption
      <4> QED BY <4>1, <3>10
    <3>3. /\ made' \in [Browser -> 0 .. MaxPC] /\ made'[Other(x)] = made[Other(x)]
          /\ made'[x] = n
      <4>1. made' = [made EXCEPT ![x] = n]
        BY <3>1, <3>9, <3>10
      <4> QED BY <3>2, <4>1, Before
    <3> DEFINE p == NewPC(n)
    <3>4. p \in PC /\ WellMade(p) /\ p.lines = <<>>
      BY <3>2, NewPCFacts
    <3> HIDE DEF p
    <3>5. Fits(p, d)
      BY <1>4, <3>4, NothingFitsAll DEF Fits
    <3>6. Remote(p, d, "accept new") \in PC /\ WellMade(Remote(p, d, "accept new"))
      BY <1>4, <3>4, <3>5, RemoteFacts
    <3>7. pc' = [pc EXCEPT ![x] = Remote(p, d, "accept new")]
      BY <3>1, <3>3 DEF p
    <3>8. media' \in [Browser -> [Kind -> {"unknown", "on", "off"}]]
      <4>1. /\ media \in [Browser -> [Kind -> {"unknown", "on", "off"}]]
            /\ Unknown \in [Kind -> {"unknown", "on", "off"}]
        BY Before
      <4> QED BY <3>1, <4>1
    <3> QED BY <3>3, <3>6, <3>7, <3>8
  <2> QED BY <2>1, <2>2
<1>7. pc'[Other(x)] = pc[Other(x)]
  BY <1>6, Before
<1> HIDE DEF d
<1>8. Effect(x)
  <2>1. mishaps' \subseteq {"crossing", "cut"}
    BY Before DEF TakeOffer, Crossing
  <2> QED BY <1>1, <1>2, <1>3, <1>5, <1>6, <1>7, <2>1 DEF Effect, DevicesSame
<1> QED BY <1>2, <1>5, <1>6, <1>8, BrowserStep

LEMMA HandleAnswerStep ==
    ASSUME IInv, NEW x \in Browser, HandleAnswer(x)
    PROVE  Effect(x) /\ IInv'
<1> DEFINE d == Head(wire[x])
<1>1. x \in inRoom
  BY ActorsAreIn DEF Step
<1>2. /\ wire[x] # <<>> /\ d.type = "ANSWER" /\ wire' = Taken(x)
      /\ UNCHANGED <<inRoom, peer, media, made, mishaps>> /\ DevicesSame
  BY DEF HandleAnswer, Next1, DevicesSame
<1>3. /\ wire' \in [Browser -> Seq(Frame)] /\ wire'[x] = Tail(wire[x])
      /\ wire'[Other(x)] = wire[Other(x)]
      /\ d \in Frame /\ d = wire[x][1] /\ 1 \in 1..Len(wire[x])
  BY <1>2, Before, TakenFacts
<1>4. d \in Descr /\ d.sends \subseteq Among(d.lines)
  <2>1. GoodFrame(wire[x][1])
    BY <1>3 DEF IInv, Frames
  <2> QED BY <1>2, <1>3, <2>1, FrameFields DEF GoodFrame
<1>5. PICK v : /\ pc' = [pc EXCEPT ![x] = v] /\ (pc[x] = NoPC => v = NoPC)
               /\ v = NoPC \/ (v \in PC /\ WellMade(v) /\ peer[x])
  <2>1. CASE pc[x] # NoPC /\ pc[x].sig = "offered" /\ d.lines = pc[x].local
    <3>1. pc' = [pc EXCEPT ![x] = Accepted(pc[x], d)]
      BY <2>1 DEF HandleAnswer
    <3>2. Accepted(pc[x], d) \in PC /\ WellMade(Accepted(pc[x], d))
      BY <1>4, <2>1, Before, AcceptedFacts
    <3> QED BY <2>1, <3>1, <3>2, Before
  <2>2. CASE ~(pc[x] # NoPC /\ pc[x].sig = "offered" /\ d.lines = pc[x].local)
    <3>1. pc' = pc
      BY <2>2 DEF HandleAnswer
    <3> QED BY <3>1, Before
  <2> QED BY <2>1, <2>2
<1>6. pc'[Other(x)] = pc[Other(x)] /\ pc'[x] = v
  BY <1>5, Before
<1> HIDE DEF d
<1>7. Effect(x)
  BY <1>1, <1>2, <1>3, <1>6, Before DEF Effect, DevicesSame
<1>8. /\ peer' \in [Browser -> BOOLEAN] /\ made' \in [Browser -> 0 .. MaxPC]
      /\ media' \in [Browser -> [Kind -> {"unknown", "on", "off"}]]
      /\ peer' = peer
  BY <1>2, Before
<1> QED BY <1>2, <1>5, <1>7, <1>8, BrowserStep

\* A description of a connection is a frame that can be sent.
LEMMA DescriptionFacts ==
    ASSUME NEW p \in PC, NEW type \in {"OFFER", "ANSWER"}, NEW l \in Lines, NEW s \in SUBSET Track,
           s \subseteq Among(l)
    PROVE  /\ Description(p, type, l, s) \in Frame /\ Description(p, type, l, s).type = type
           /\ Description(p, type, l, s).from = p.id /\ Description(p, type, l, s).lines = l
           /\ Description(p, type, l, s).sends = s
           /\ Plain(<<Description(p, type, l, s)>>)
<1>1. p.id \in 1..MaxPC
  BY PCFields
<1>2. PICK f : f = Description(p, type, l, s)
  OBVIOUS
<1>3. /\ f.type = type /\ f.from = p.id /\ f.lines = l /\ f.sends = s
      /\ f \in Descr
  BY <1>1, <1>2 DEF Description, Descr
<1>4. f \in Frame
  BY <1>3 DEF Frame
<1>5. Plain(<<f>>)
  BY <1>3, <1>4 DEF Plain, GoodFrame
<1> QED BY <1>2, <1>3, <1>4, <1>5

\* What is sent after something that can be sent.
LEMMA PlainJoined ==
    ASSUME NEW e, NEW f, Plain(e), Plain(f)
    PROVE  Plain(e \o f)
<1>1. /\ e \o f \in Seq(Frame) /\ Len(e \o f) = Len(e) + Len(f)
      /\ Len(e) \in Nat /\ Len(f) \in Nat
      /\ \A i \in 1..Len(e) : (e \o f)[i] = e[i]
      /\ \A i \in 1..Len(f) : (e \o f)[Len(e) + i] = f[i]
  BY ConcatProperties, LenProperties DEF Plain
<1>2. ASSUME NEW i \in 1..Len(e \o f)
      PROVE  (e \o f)[i].type \in {"OFFER", "ANSWER", "MEDIA"} /\ GoodFrame((e \o f)[i])
  <2>1. CASE i \in 1..Len(e)
    BY <1>1, <2>1 DEF Plain
  <2>2. CASE i \notin 1..Len(e)
    <3>1. i - Len(e) \in 1..Len(f) /\ i = Len(e) + (i - Len(e))
      BY <1>1, <2>2
    <3>2. PICK j \in 1..Len(f) : i = Len(e) + j
      BY <3>1
    <3>3. (e \o f)[i] = f[j]
      BY <1>1, <3>2
    <3> QED BY <3>3 DEF Plain
  <2> QED BY <2>1, <2>2
<1> QED BY <1>1, <1>2 DEF Plain

\* A step that only sends and goes on with the connection.
LEMMA SendingStep ==
    ASSUME IInv, NEW x \in Browser, x \in inRoom, pc[x] # NoPC, DevicesSame,
           UNCHANGED <<inRoom, peer, media, made, mishaps>>,
           NEW v, pc' = [pc EXCEPT ![x] = v], v \in PC, WellMade(v),
           wire' = wire \/ \E fs : Plain(fs) /\ wire' = Sent(x, fs)
    PROVE  Effect(x) /\ IInv'
<1>1. /\ wire' \in [Browser -> Seq(Frame)] /\ wire'[x] = wire[x]
      /\ \/ wire'[Other(x)] = wire[Other(x)]
         \/ Other(x) \in inRoom /\ \E fs : Plain(fs) /\ wire'[Other(x)] = wire[Other(x)] \o fs
  <2>1. CASE wire' = wire
    BY <2>1, Before
  <2>2. CASE \E fs : Plain(fs) /\ wire' = Sent(x, fs)
    <3> PICK fs : Plain(fs) /\ wire' = Sent(x, fs)
      BY <2>2
    <3>1. fs \in Seq(Frame)
      BY DEF Plain
    <3>2. /\ wire' \in [Browser -> Seq(Frame)] /\ wire'[x] = wire[x]
          /\ wire'[Other(x)] = IF Other(x) \in inRoom THEN wire[Other(x)] \o fs
                               ELSE wire[Other(x)]
      BY <3>1, Before, SentFacts
    <3> QED BY <3>2
  <2> QED BY <2>1, <2>2
<1>2. pc'[Other(x)] = pc[Other(x)] /\ pc'[x] = v
  BY Before
<1>3. Effect(x)
  BY <1>1, <1>2, Before DEF Effect, DevicesSame
<1>4. /\ peer' \in [Browser -> BOOLEAN] /\ made' \in [Browser -> 0 .. MaxPC]
      /\ media' \in [Browser -> [Kind -> {"unknown", "on", "off"}]]
      /\ peer'[x]
  BY Before
<1> QED BY <1>3, <1>4, BrowserStep

LEMMA SendAnswerStep ==
    ASSUME IInv, NEW x \in Browser, SendAnswer(x)
    PROVE  Effect(x) /\ IInv'
<1> DEFINE p == Answered(pc[x])
           new == pc[x].run = "accept new"
           answer == Description(p, "ANSWER", p.lines, p.sent)
<1>1. x \in inRoom /\ pc[x] # NoPC /\ pc[x] \in PC /\ WellMade(pc[x]) /\ live[x] \in Lines
  <2>1. pc[x] # NoPC
    BY NoPCFields DEF SendAnswer
  <2> QED BY <2>1, ActorsAreIn, Before DEF Step
<1>2. p \in PC /\ WellMade(p)
  BY <1>1, AnsweredFacts
<1>3. Plain(<<answer>>)
  BY <1>2, PCFields, DescriptionFacts DEF WellMade
<1>4. Plain(MediaState(x))
  BY Before, MediaFrames
<1>5. Plain(<<answer>> \o MediaState(x))
  BY <1>3, <1>4, PlainJoined
<1>6. AddTracks(p, live[x]) \in PC /\ WellMade(AddTracks(p, live[x]))
  BY <1>1, <1>2, AddTracksFacts
<1>7. /\ pc' = [pc EXCEPT ![x] = IF new THEN AddTracks(p, live[x]) ELSE p]
      /\ wire' = Sent(x, IF new THEN <<answer>> \o MediaState(x) ELSE <<answer>>)
      /\ UNCHANGED <<inRoom, peer, media, made, mishaps>> /\ DevicesSame
  BY DEF SendAnswer, DevicesSame
<1> HIDE DEF p, answer
<1>8. CASE new
  <2>1. /\ pc' = [pc EXCEPT ![x] = AddTracks(p, live[x])]
        /\ wire' = Sent(x, <<answer>> \o MediaState(x))
    BY <1>7, <1>8
  <2> QED BY <1>1, <1>5, <1>6, <1>7, <2>1, SendingStep
<1>9. CASE ~new
  <2>1. pc' = [pc EXCEPT ![x] = p] /\ wire' = Sent(x, <<answer>>)
    BY <1>7, <1>9
  <2> QED BY <1>1, <1>2, <1>3, <1>7, <2>1, SendingStep
<1> QED BY <1>8, <1>9

LEMMA OfferingStep ==
    ASSUME IInv, NEW x \in Browser, Negotiate(x) \/ SendOffer(x)
    PROVE  Effect(x) /\ IInv'
<1>1. x \in inRoom /\ pc[x] # NoPC /\ pc[x] \in PC /\ WellMade(pc[x])
  <2>1. pc[x] # NoPC
    BY NoPCFields DEF Negotiate, SendOffer
  <2> QED BY <2>1, ActorsAreIn, Before DEF Step
<1>2. UNCHANGED <<inRoom, peer, media, made, mishaps>> /\ DevicesSame
  BY DEF Negotiate, SendOffer, DevicesSame
<1>3. CASE Negotiate(x)
  <2>1. pc' = [pc EXCEPT ![x] = CreateOffer(pc[x])] /\ wire' = wire
    BY <1>3 DEF Negotiate
  <2>2. CreateOffer(pc[x]) \in PC /\ WellMade(CreateOffer(pc[x]))
    BY <1>1, CreateOfferFacts
  <2> QED BY <1>1, <1>2, <2>1, <2>2, SendingStep
<1>4. CASE SendOffer(x)
  <2> DEFINE v == [pc[x] EXCEPT !.sig = "offered", !.run = "none"]
             f == Description(pc[x], "OFFER", pc[x].local, pc[x].offers)
  <2>1. pc' = [pc EXCEPT ![x] = v] /\ wire' = Sent(x, <<f>>)
    <3>1. pc' = [pc EXCEPT ![x].sig = "offered", ![x].run = "none"] /\ wire' = Sent(x, <<f>>)
      BY <1>4 DEF SendOffer
    <3>2. pc \in [Browser -> PC \cup {NoPC}]
      BY Before
    <3>3. [pc EXCEPT ![x].sig = "offered", ![x].run = "none"] = [pc EXCEPT ![x] = v]
      BY <3>2
    <3> QED BY <3>1, <3>3
  <2>2. v \in PC /\ WellMade(v)
    BY <1>1 DEF PC, WellMade
  <2>3. Plain(<<f>>)
    BY <1>1, PCFields, DescriptionFacts DEF WellMade
  <2> HIDE DEF v, f
  <2> QED BY <1>1, <1>2, <2>1, <2>2, <2>3, SendingStep
<1> QED BY <1>3, <1>4

\* The one who leaves keeps nothing; the other one is told, after all the rest.
LEMMA LeaveStep ==
    ASSUME IInv, NEW x \in Browser, Leave(x)
    PROVE  IInv'
<1> DEFINE o == Other(x)
           bye == <<[type |-> "LEAVE"]>>
<1>1. /\ o \in Browser /\ o # x /\ Other(o) = x /\ \A y \in Browser : y = x \/ y = o
      /\ x \in inRoom /\ (o \in inRoom \/ o \notin inRoom)
  BY OtherFacts DEF Leave
<1>2. /\ inRoom' = inRoom \ {x} /\ ClosePeer(x)
      /\ wire' = [Sent(x, bye) EXCEPT ![x] = <<>>]
      /\ live' = [live EXCEPT ![x] = <<>>]
      /\ on' = [on EXCEPT ![x] = [k \in Kind |-> FALSE]]
      /\ UNCHANGED <<made, opening, switched, mishaps>> /\ \A k \in Kind : opening[x][k] = 0
  BY DEF Leave
<1>3. /\ peer' \in [Browser -> BOOLEAN] /\ ~peer'[x] /\ peer'[o] = peer[o]
      /\ pc' = [pc EXCEPT ![x] = NoPC] /\ pc'[x] = NoPC /\ pc'[o] = pc[o]
      /\ media' \in [Browser -> [Kind -> {"unknown", "on", "off"}]]
  BY <1>2, ClosePeerFacts
<1>4. bye \in Seq(Frame) /\ Len(bye) = 1 /\ bye[1] = [type |-> "LEAVE"]
  <2>1. [type |-> "LEAVE"] \in Frame
    BY DEF Frame
  <2> QED BY <2>1
<1> HIDE DEF bye
<1>5. /\ wire' \in [Browser -> Seq(Frame)] /\ wire'[x] = <<>>
      /\ wire'[o] = IF o \in inRoom THEN wire[o] \o bye ELSE wire[o]
  <2>1. /\ Sent(x, bye) \in [Browser -> Seq(Frame)]
        /\ Sent(x, bye)[o] = IF o \in inRoom THEN wire[o] \o bye ELSE wire[o]
    BY <1>4, SentFacts DEF IInv
  <2>2. <<>> \in Seq(Frame)
    BY EmptySeq
  <2> QED BY <1>1, <1>2, <2>1, <2>2
<1>6. /\ live' \in [Browser -> Lines] /\ live'[o] = live[o]
      /\ on' \in [Browser -> [Kind -> BOOLEAN]] /\ on'[o] = on[o] /\ \A k \in Kind : ~on'[x][k]
      /\ live'[x] = <<>> /\ \A k \in Kind : opening'[x][k] = 0
      /\ opening'[o] = opening[o] /\ made'[o] = made[o]
  BY <1>1, <1>2, ShortLines DEF IInv, TypeOK
<1> HIDE DEF o
<1>7. \A y \in Browser : pc'[y] # NoPC => peer'[y] /\ WellMade(pc'[y])
  BY <1>1, <1>3 DEF IInv, TypeOK, Parts
<1>14. \A y \in Browser : Asked(opening'[y], live'[y])
  <2>1. Asked(opening'[x], live'[x])
    BY <1>6 DEF Asked, Kind
  <2>2. Asked(opening'[o], live'[o])
    BY <1>1, <1>6 DEF IInv, Parts
  <2> QED BY <1>1, <2>1, <2>2
<1>8. TypeOK'
  <2>1. /\ pc' \in [Browser -> PC \cup {NoPC}] /\ inRoom' \subseteq Browser
        /\ made' \in [Browser -> 0 .. MaxPC] /\ opening' \in [Browser -> [Kind -> 0 .. 2]]
        /\ switched' \in 0 .. MaxSwitch /\ mishaps' \subseteq {"crossing", "cut"}
    BY <1>2, <1>3 DEF IInv, TypeOK
  <2>2. \A y \in Browser : opening'[y]["audio"] = 1 => "mic" \notin Among(live'[y])
    BY <1>14 DEF Asked
  <2> QED BY <1>3, <1>5, <1>6, <1>7, <2>1, <2>2 DEF TypeOK, WellMade, Among
<1>9. Parts'
  BY <1>7, <1>14 DEF Parts, WellMade, Asked, Among
<1>10. /\ wire[o] \in Seq(Frame) /\ Len(wire[o]) \in Nat
       /\ o \in inRoom => /\ Len(wire'[o]) = Len(wire[o]) + 1
                          /\ \A i \in 1..Len(wire[o]) : wire'[o][i] = wire[o][i]
                          /\ wire'[o][Len(wire[o]) + 1] = [type |-> "LEAVE"]
  <2>1. wire[o] \in Seq(Frame) /\ Len(wire[o]) \in Nat
    BY <1>1, Before, LenProperties
  <2>2. /\ Len(wire[o] \o bye) = Len(wire[o]) + Len(bye)
        /\ \A i \in 1..Len(wire[o]) : (wire[o] \o bye)[i] = wire[o][i]
        /\ \A i \in 1..Len(bye) : (wire[o] \o bye)[Len(wire[o]) + i] = bye[i]
    <3>1. bye \in Seq(Frame)
      BY <1>4
    <3> QED BY <2>1, <3>1, ConcatProperties
  <2> QED BY <1>4, <1>5, <2>1, <2>2
<1>11. Frames'
  <2> SUFFICES ASSUME NEW y \in Browser, NEW i \in 1..Len(wire'[y])
               PROVE  /\ GoodFrame(wire'[y][i])
                      /\ wire'[y][i].type = "JOIN" => i = 1 /\ y = "a" /\ made'[y] = 0 /\ ~peer'[y]
                      /\ wire'[y][i].type = "LEAVE" => Other(y) \notin inRoom'
    BY DEF Frames, GoodFrame
  <2>1. y = o /\ x \notin inRoom'
    BY <1>1, <1>2, <1>5
  <2>2. CASE i \in 1..Len(wire[o]) /\ wire'[o][i] = wire[o][i]
    <3>1. /\ GoodFrame(wire[o][i])
          /\ wire[o][i].type = "JOIN" => i = 1 /\ o = "a" /\ made[o] = 0 /\ ~peer[o]
      BY <1>1, <2>2 DEF IInv, Frames
    <3> QED BY <1>1, <1>3, <1>6, <2>1, <2>2, <3>1
  <2>3. CASE wire'[o][i] = [type |-> "LEAVE"]
    BY <1>1, <2>1, <2>3 DEF GoodFrame
  <2>4. CASE o \in inRoom
    <3>1. i \in 1..(Len(wire[o]) + 1) /\ Len(wire[o]) \in Nat
      BY <1>10, <2>1, <2>4
    <3>2. i \in 1..Len(wire[o]) \/ i = Len(wire[o]) + 1
      BY <3>1
    <3> QED BY <1>10, <2>2, <2>3, <2>4, <3>2
  <2>5. CASE o \notin inRoom
    <3>1. wire'[o] = wire[o] /\ i \in 1..Len(wire[o])
      BY <1>5, <2>1, <2>5
    <3> QED BY <2>2, <3>1
  <2> QED BY <2>4, <2>5
<1>12. NothingKept'
  <2>1. /\ wire'[x] = <<>> /\ ~peer'[x] /\ pc'[x] = NoPC /\ live'[x] = <<>>
        /\ \A k \in Kind : opening'[x][k] = 0 /\ ~on'[x][k]
    BY <1>3, <1>5, <1>6
  <2>2. o \notin inRoom' => /\ wire'[o] = <<>> /\ ~peer'[o] /\ pc'[o] = NoPC /\ live'[o] = <<>>
                            /\ \A k \in Kind : opening'[o][k] = 0 /\ ~on'[o][k]
    BY <1>1, <1>2, <1>3, <1>5, <1>6 DEF IInv, NothingKept
  <2> QED BY <1>1, <2>1, <2>2 DEF NothingKept
<1>13. Goodbye'
  <2> SUFFICES ASSUME o \in inRoom
               PROVE  wire'[o] # <<>> /\ wire'[o][Len(wire'[o])].type = "LEAVE"
    BY <1>1, <1>2 DEF Goodbye
  <2> QED BY <1>1, <1>5, <1>10, EmptySeq
<1> QED BY <1>8, <1>9, <1>11, <1>12, <1>13 DEF IInv

LEMMA InitIInv == Init => IInv
<1> SUFFICES ASSUME Init PROVE IInv
  OBVIOUS
<1>1. /\ inRoom = Browser
      /\ wire = [x \in Browser |-> IF x = "a" THEN <<[type |-> "JOIN"]>> ELSE <<>>]
      /\ peer = [x \in Browser |-> FALSE] /\ media = [x \in Browser |-> Unknown]
      /\ pc = [x \in Browser |-> NoPC] /\ made = [x \in Browser |-> 0]
      /\ live = [x \in Browser |-> <<>>]
      /\ on = [x \in Browser |-> [k \in Kind |-> FALSE]]
      /\ opening = [x \in Browser |-> [k \in Kind |-> 0]] /\ switched = 0 /\ mishaps = {}
  BY DEF Init
<1>2. <<>> \in Lines /\ Among(<<>>) = {} /\ 0 \in 0..MaxPC /\ 0 \in 0..MaxSwitch
  BY ShortLines, CallAssumption
<1>3. Unknown \in [Kind -> {"unknown", "on", "off"}]
  BY DEF Unknown
<1>4. [type |-> "JOIN"] \in Frame
  BY DEF Frame
<1>5. wire \in [Browser -> Seq(Frame)]
  BY <1>1, <1>4
<1>6. \A x \in Browser : \A i \in 1..Len(wire[x]) :
         i = 1 /\ x = "a" /\ wire[x][i] = [type |-> "JOIN"]
  BY <1>1
<1>7. TypeOK
  BY <1>1, <1>2, <1>3, <1>5 DEF TypeOK
<1>8. Parts /\ NothingKept /\ Goodbye
  BY <1>1, <1>2, OtherFacts DEF Parts, Asked, Kind, NothingKept, Goodbye
<1>9. Frames
  BY <1>1, <1>6 DEF Frames, GoodFrame
<1> QED BY <1>7, <1>8, <1>9 DEF IInv

LEMMA NextIInv == IInv /\ [Next]_vars => IInv'
<1> SUFFICES ASSUME IInv, [Next]_vars PROVE IInv'
  OBVIOUS
<1>1. CASE UNCHANGED vars
  <2>1. TypeOK'
    <3>1. /\ inRoom' = inRoom /\ wire' = wire /\ peer' = peer /\ media' = media /\ pc' = pc
          /\ made' = made /\ live' = live /\ on' = on /\ opening' = opening
          /\ switched' = switched /\ mishaps' = mishaps
      BY <1>1 DEF vars
    <3>2. TypeOK
      BY DEF IInv
    <3>3. /\ inRoom' \subseteq Browser /\ wire' \in [Browser -> Seq(Frame)]
          /\ peer' \in [Browser -> BOOLEAN] /\ media' \in [Browser -> [Kind -> {"unknown", "on", "off"}]]
          /\ pc' \in [Browser -> PC \cup {NoPC}] /\ made' \in [Browser -> 0 .. MaxPC]
          /\ live' \in [Browser -> Lines] /\ on' \in [Browser -> [Kind -> BOOLEAN]]
          /\ opening' \in [Browser -> [Kind -> 0 .. 2]] /\ switched' \in 0 .. MaxSwitch
          /\ mishaps' \subseteq {"crossing", "cut"}
      BY <3>1, <3>2 DEF TypeOK
    <3>4. \A x \in Browser : opening'[x]["audio"] = 1 => "mic" \notin Among(live'[x])
      BY <3>1, <3>2 DEF TypeOK
    <3>5. \A x \in Browser : pc'[x] # NoPC => /\ peer'[x]
                                              /\ pc'[x].sent \subseteq Among(pc'[x].tracks)
                                              /\ pc'[x].recv \subseteq Among(pc'[x].lines)
      BY <3>1, <3>2 DEF TypeOK
    <3> QED BY <3>3, <3>4, <3>5 DEF TypeOK, Among
  <2>3. Parts'
    BY <1>1 DEF vars, IInv, Parts, WellMade, Asked, Among
  <2>2. Frames' /\ NothingKept' /\ Goodbye'
    BY <1>1 DEF vars, IInv, Frames, NothingKept, Goodbye, GoodFrame
  <2> QED BY <2>1, <2>2, <2>3 DEF IInv
<1>2. ASSUME NEW x \in Browser, Step(x) PROVE IInv'
  BY <1>2, TakeJoinStep, TakeMediaStep, ClosingStep, TakeOfferStep, HandleAnswerStep,
     SendAnswerStep, OfferingStep DEF Step
<1>3. ASSUME NEW x \in Browser, Leave(x) \/ ConnectionFails(x) PROVE IInv'
  BY <1>3, LeaveStep, ClosingStep
<1>4. ASSUME NEW x \in Browser, NEW k \in Kind,
             SwitchOn(x, k) \/ SwitchOff(x, k) \/ GotMedia(x, k) \/ NoMedia(x, k)
      PROVE  IInv'
  BY <1>4, DeviceStep
<1> QED BY <1>1, <1>2, <1>3, <1>4 DEF Next

LEMMA IInvAlways == Spec => []IInv
BY InitIInv, NextIInv, PTL DEF Spec

\* Everything keeps its type; what a connection sends it has a track for, what it
\* hears it has a line for (useWebRTC.js:78, 260, 311).
THEOREM TypeCorrect == Spec => []TypeOK
<1>1. IInv => TypeOK
  BY DEF IInv
<1> QED BY <1>1, IInvAlways, PTL

\* Of a member that has left nothing is kept once its frames are through, whatever
\* came before: LEAVE is the last of them, and closes (useWebRTC.js:47, 190, 353).
THEOREM NothingLeftBehind == Spec => []NoGhost
<1>1. IInv => NoGhost
  BY DEF IInv, NoGhost, NothingKept, Goodbye
<1> QED BY <1>1, IInvAlways, PTL

-------------------------------------------------------------------------------
(* The negotiation.  What follows is said of two connections p and q, of the    *)
(* frames w on the way to the one and v on the way to the other.                *)

IsDescr(f) == f.type \in {"OFFER", "ANSWER"}

\* The descriptions among the frames are ds, in this order.
Carries(w, ds) ==
    \E at \in [1..Len(ds) -> 1..Len(w)] :
        /\ \A i, j \in 1..Len(ds) : i < j => at[i] < at[j]
        /\ \A i \in 1..Len(ds) : w[at[i]] = ds[i] /\ IsDescr(ds[i])
        /\ \A n \in 1..Len(w) : IsDescr(w[n]) => \E i \in 1..Len(ds) : at[i] = n

Offer(p) == Description(p, "OFFER", p.local, p.offers)
Answer(p) == Description(p, "ANSWER", p.lines, p.sent)

Rest(p) == p.sig = "stable" /\ p.run = "none"
Making(p) == p.sig = "stable" /\ p.run = "offer"
Asking(p) == p.sig = "offered" /\ p.run = "none"

\* The offer of p goes on from the lines there are.
GoesOn(p) == Len(p.lines) <= Len(p.local) /\ SubSeq(p.local, 1, Len(p.lines)) = p.lines

\* p waits for nothing; it may be about to offer.
Free(p) == Rest(p) \/ (Making(p) /\ GoesOn(p))

\* Between negotiations: the two ends agree.
Agreed(p, q) == /\ p.remote = q.id /\ q.remote = p.id
                /\ p.lines = q.lines /\ p.sent = q.recv /\ q.sent = p.recv
                /\ IF p.lines = <<>> THEN p.role = "none" /\ q.role = "none"
                   ELSE {p.role, q.role} = {"active", "passive"}

\* q has taken the offer of p.
Heard(p, q) == /\ q.lines = p.local /\ q.recv = p.offers /\ q.remote = p.id
               /\ p.role # "none" => p.remote = q.id
               /\ IF p.local = <<>> THEN p.role = "none" /\ q.role = "none"
                  ELSE IF p.role = "none" THEN q.role = "active"
                  ELSE {p.role, q.role} = {"active", "passive"}

\* Nothing is under way.
Resting(p, q, w, v) ==
    Carries(w, <<>>) /\ Carries(v, <<>>) /\ Agreed(p, q) /\ Free(p) /\ Free(q)

\* p has sent an offer, and q has not taken it.
Offering(p, q, w, v) ==
    /\ Carries(w, <<>>) /\ Carries(v, <<Offer(p)>>)
    /\ Agreed(p, q) /\ Asking(p) /\ GoesOn(p) /\ Free(q)

\* Both have sent an offer: one of them will meet the other.
Crossed(p, q, w, v) ==
    /\ Carries(w, <<Offer(q)>>) /\ Carries(v, <<Offer(p)>>)
    /\ Agreed(p, q) /\ Asking(p) /\ Asking(q)

\* q has taken the offer of p and is about to answer.
Answering(p, q, w, v) ==
    /\ Carries(w, <<>>) /\ Carries(v, <<>>)
    /\ Heard(p, q) /\ Asking(p)
    /\ q.sig = "remote" /\ q.run \in {"accept", "accept new"}

\* q has answered, and may have an offer of its own, behind the answer.
Replied(p, q, w, v) ==
    /\ Carries(v, <<>>) /\ Heard(p, q) /\ Asking(p)
    /\ \/ Free(q) /\ Carries(w, <<Answer(q)>>)
       \/ Asking(q) /\ GoesOn(q) /\ Carries(w, <<Answer(q)>> \o <<Offer(q)>>)

InCall(p, q, w, v) ==
    \/ Resting(p, q, w, v) \/ Offering(p, q, w, v) \/ Crossed(p, q, w, v)
    \/ Answering(p, q, w, v) \/ Replied(p, q, w, v)

\* p is the first connection of a call, with the first offer; there is no q yet.
First(p, w, v) ==
    /\ Carries(w, <<>>)
    /\ \/ Making(p) /\ Carries(v, <<>>)
       \/ Asking(p) /\ Carries(v, <<Offer(p)>>)
    /\ p.lines = <<>> /\ p.role = "none"

Fresh == /\ pc["a"] = NoPC /\ pc["b"] = NoPC /\ wire["b"] = <<>> /\ ~peer["b"]
         /\ wire["a"] # <<>> /\ wire["a"][1].type = "JOIN" /\ Carries(wire["a"], <<>>)

Called == /\ pc["a"] # NoPC /\ pc["b"] = NoPC
          /\ First(pc["a"], wire["a"], wire["b"])

Talking(x) == LET o == Other(x)
              IN  /\ pc[x] # NoPC /\ pc[o] # NoPC
                  /\ InCall(pc[x], pc[o], wire[x], wire[o])

-------------------------------------------------------------------------------
(* Descriptions among the frames *)

LEMMA CarriesMore ==
    ASSUME NEW w \in Seq(Frame), NEW ds \in Seq(Frame), Carries(w, ds), NEW fs \in Seq(Frame),
           \A i \in 1..Len(fs) : ~IsDescr(fs[i])
    PROVE  Carries(w \o fs, ds)
<1> DEFINE c == w \o fs
<1>1. PICK at \in [1..Len(ds) -> 1..Len(w)] :
           /\ \A i, j \in 1..Len(ds) : i < j => at[i] < at[j]
           /\ \A i \in 1..Len(ds) : w[at[i]] = ds[i] /\ IsDescr(ds[i])
           /\ \A n \in 1..Len(w) : IsDescr(w[n]) => \E i \in 1..Len(ds) : at[i] = n
  BY DEF Carries
<1>2. /\ Len(c) = Len(w) + Len(fs) /\ Len(w) \in Nat /\ Len(fs) \in Nat
      /\ \A i \in 1..Len(w) : c[i] = w[i]
      /\ \A i \in 1..Len(fs) : c[Len(w) + i] = fs[i]
  BY ConcatProperties, LenProperties
<1> HIDE DEF c
<1>3. 1..Len(w) \subseteq 1..Len(c)
  BY <1>2
<1>4. at \in [1..Len(ds) -> 1..Len(c)]
  BY <1>1, <1>3
<1>5. \A i \in 1..Len(ds) : c[at[i]] = ds[i] /\ IsDescr(ds[i])
  BY <1>1, <1>2
<1>6. ASSUME NEW n \in 1..Len(c), IsDescr(c[n]) PROVE \E i \in 1..Len(ds) : at[i] = n
  <2>1. CASE n \in 1..Len(w)
    <3>1. IsDescr(w[n])
      BY <1>2, <1>6, <2>1
    <3> QED BY <1>1, <2>1, <3>1
  <2>2. CASE n \notin 1..Len(w)
    <3>1. n - Len(w) \in 1..Len(fs) /\ n = Len(w) + (n - Len(w))
      BY <1>2, <2>2
    <3>2. PICK i \in 1..Len(fs) : n = Len(w) + i
      BY <3>1
    <3>3. c[n] = fs[i]
      BY <1>2, <3>2
    <3> QED BY <1>6, <3>3
  <2> QED BY <2>1, <2>2
<1>7. Carries(c, ds)
  BY <1>1, <1>4, <1>5, <1>6 DEF Carries
<1> QED BY <1>7 DEF c

LEMMA CarriesSent ==
    ASSUME NEW w \in Seq(Frame), NEW ds \in Seq(Frame), Carries(w, ds), NEW d \in Frame, IsDescr(d)
    PROVE  Carries(w \o <<d>>, ds \o <<d>>)
<1> DEFINE c == w \o <<d>>
           es == ds \o <<d>>
<1>1. PICK at \in [1..Len(ds) -> 1..Len(w)] :
           /\ \A i, j \in 1..Len(ds) : i < j => at[i] < at[j]
           /\ \A i \in 1..Len(ds) : w[at[i]] = ds[i] /\ IsDescr(ds[i])
           /\ \A n \in 1..Len(w) : IsDescr(w[n]) => \E i \in 1..Len(ds) : at[i] = n
  BY DEF Carries
<1>2. /\ Len(c) = Len(w) + 1 /\ Len(w) \in Nat /\ Len(es) = Len(ds) + 1 /\ Len(ds) \in Nat
      /\ \A i \in 1..Len(w) : c[i] = w[i]
      /\ \A i \in 1..Len(ds) : es[i] = ds[i]
      /\ c[Len(w) + 1] = d /\ es[Len(ds) + 1] = d
  <2>1. <<d>> \in Seq(Frame) /\ Len(<<d>>) = 1 /\ <<d>>[1] = d
    OBVIOUS
  <2>2. /\ Len(c) = Len(w) + Len(<<d>>) /\ Len(w) \in Nat
        /\ \A i \in 1..Len(w) : c[i] = w[i]
        /\ \A i \in 1..Len(<<d>>) : c[Len(w) + i] = <<d>>[i]
    BY <2>1, ConcatProperties, LenProperties
  <2>3. /\ Len(es) = Len(ds) + Len(<<d>>) /\ Len(ds) \in Nat
        /\ \A i \in 1..Len(ds) : es[i] = ds[i]
        /\ \A i \in 1..Len(<<d>>) : es[Len(ds) + i] = <<d>>[i]
    BY <2>1, ConcatProperties, LenProperties
  <2> HIDE DEF c, es
  <2> QED BY <2>1, <2>2, <2>3
<1> HIDE DEF c, es
<1> DEFINE to == [i \in 1..Len(es) |-> IF i \in 1..Len(ds) THEN at[i] ELSE Len(w) + 1]
<1>3. /\ \A i \in 1..Len(ds) : i \in 1..Len(es) /\ to[i] = at[i]
      /\ Len(es) \in 1..Len(es) /\ to[Len(es)] = Len(w) + 1
      /\ \A i \in 1..Len(es) : i \in 1..Len(ds) \/ i = Len(es)
  BY <1>2
<1>4. to \in [1..Len(es) -> 1..Len(c)]
  BY <1>1, <1>2
<1> HIDE DEF to
<1>5. ASSUME NEW i \in 1..Len(es), NEW j \in 1..Len(es), i < j PROVE to[i] < to[j]
  <2>1. i \in 1..Len(ds) /\ to[i] = at[i] /\ at[i] \in 1..Len(w)
    BY <1>1, <1>2, <1>3, <1>5
  <2>2. CASE j \in 1..Len(ds)
    BY <1>1, <1>3, <1>5, <2>1, <2>2
  <2>3. CASE j = Len(es)
    BY <1>2, <1>3, <2>1, <2>3
  <2> QED BY <1>3, <2>2, <2>3
<1>6. \A i \in 1..Len(es) : c[to[i]] = es[i] /\ IsDescr(es[i])
  <2>1. \A i \in 1..Len(ds) : c[to[i]] = es[i] /\ IsDescr(es[i])
    BY <1>1, <1>2, <1>3
  <2>2. c[to[Len(es)]] = es[Len(es)] /\ IsDescr(es[Len(es)])
    BY <1>2, <1>3
  <2> QED BY <1>3, <2>1, <2>2
<1>7. ASSUME NEW n \in 1..Len(c), IsDescr(c[n]) PROVE \E i \in 1..Len(es) : to[i] = n
  <2>1. CASE n \in 1..Len(w)
    <3>1. IsDescr(w[n])
      BY <1>2, <1>7, <2>1
    <3> QED BY <1>1, <1>3, <2>1, <3>1
  <2>2. CASE n = Len(w) + 1
    BY <1>3, <2>2
  <2> QED BY <1>2, <2>1, <2>2
<1>8. Carries(c, es)
  BY <1>4, <1>5, <1>6, <1>7 DEF Carries
<1> QED BY <1>8 DEF c, es

LEMMA CarriesPassed ==
    ASSUME NEW w \in Seq(Frame), w # <<>>, NEW ds \in Seq(Frame), Carries(w, ds), ~IsDescr(w[1])
    PROVE  Carries(Tail(w), ds)
<1> DEFINE t == Tail(w)
<1>1. PICK at \in [1..Len(ds) -> 1..Len(w)] :
           /\ \A i, j \in 1..Len(ds) : i < j => at[i] < at[j]
           /\ \A i \in 1..Len(ds) : w[at[i]] = ds[i] /\ IsDescr(ds[i])
           /\ \A n \in 1..Len(w) : IsDescr(w[n]) => \E i \in 1..Len(ds) : at[i] = n
  BY DEF Carries
<1>2. Len(w) \in Nat \ {0} /\ Len(t) = Len(w) - 1 /\ \A i \in 1..(Len(w) - 1) : t[i] = w[i + 1]
  BY TailFacts
<1> HIDE DEF t
<1>3. \A i \in 1..Len(ds) : at[i] \in 2..Len(w)
  <2> TAKE i \in 1..Len(ds)
  <2>1. at[i] \in 1..Len(w) /\ at[i] # 1
    BY <1>1
  <2> QED BY <2>1
<1> DEFINE to == [i \in 1..Len(ds) |-> at[i] - 1]
<1>4. \A i \in 1..Len(ds) : to[i] = at[i] - 1 /\ to[i] \in 1..Len(t) /\ t[to[i]] = w[at[i]]
  BY <1>2, <1>3
<1>5. to \in [1..Len(ds) -> 1..Len(t)]
  BY <1>4
<1> HIDE DEF to
<1>6. \A i, j \in 1..Len(ds) : i < j => to[i] < to[j]
  BY <1>1, <1>3, <1>4
<1>7. \A i \in 1..Len(ds) : t[to[i]] = ds[i] /\ IsDescr(ds[i])
  BY <1>1, <1>4
<1>8. ASSUME NEW n \in 1..Len(t), IsDescr(t[n]) PROVE \E i \in 1..Len(ds) : to[i] = n
  <2>1. n + 1 \in 1..Len(w) /\ IsDescr(w[n + 1]) /\ (n + 1) - 1 = n
    BY <1>2, <1>8
  <2>2. PICK i \in 1..Len(ds) : at[i] = n + 1
    BY <1>1, <2>1
  <2> QED BY <1>4, <2>1, <2>2
<1>9. Carries(t, ds)
  BY <1>5, <1>6, <1>7, <1>8 DEF Carries
<1> QED BY <1>9 DEF t

LEMMA CarriesTaken ==
    ASSUME NEW w \in Seq(Frame), w # <<>>, NEW ds \in Seq(Frame), Carries(w, ds), IsDescr(w[1])
    PROVE  ds # <<>> /\ w[1] = ds[1] /\ Carries(Tail(w), Tail(ds))
<1> DEFINE t == Tail(w)
           es == Tail(ds)
<1>1. PICK at \in [1..Len(ds) -> 1..Len(w)] :
           /\ \A i, j \in 1..Len(ds) : i < j => at[i] < at[j]
           /\ \A i \in 1..Len(ds) : w[at[i]] = ds[i] /\ IsDescr(ds[i])
           /\ \A n \in 1..Len(w) : IsDescr(w[n]) => \E i \in 1..Len(ds) : at[i] = n
  BY DEF Carries
<1>2. Len(w) \in Nat \ {0} /\ Len(t) = Len(w) - 1 /\ \A i \in 1..(Len(w) - 1) : t[i] = w[i + 1]
  BY TailFacts
<1>3. Len(ds) \in Nat
  BY LenProperties
<1>4. PICK k \in 1..Len(ds) : at[k] = 1
  BY <1>1, <1>2
<1>5. 1 \in 1..Len(ds) /\ at[1] = 1
  <2>1. 1 \in 1..Len(ds) /\ (k = 1 \/ 1 < k)
    BY <1>3
  <2>2. at[1] \in 1..Len(w)
    BY <1>1, <2>1
  <2> QED BY <1>1, <1>2, <1>4, <2>1, <2>2
<1>6. ds # <<>> /\ w[1] = ds[1]
  BY <1>1, <1>5, EmptySeq
<1>7. Len(ds) \in Nat \ {0} /\ Len(es) = Len(ds) - 1 /\ \A i \in 1..(Len(ds) - 1) : es[i] = ds[i + 1]
  BY <1>6, TailFacts
<1> HIDE DEF t, es
<1>8. \A i \in 1..Len(es) : i + 1 \in 1..Len(ds) /\ 1 < i + 1
  BY <1>7
<1>9. \A i \in 1..Len(es) : at[i + 1] \in 2..Len(w)
  <2> TAKE i \in 1..Len(es)
  <2>1. i + 1 \in 1..Len(ds) /\ 1 < i + 1
    BY <1>8
  <2>2. at[i + 1] \in 1..Len(w) /\ at[1] < at[i + 1]
    BY <1>1, <1>5, <2>1
  <2> QED BY <1>2, <1>5, <2>2
<1> DEFINE to == [i \in 1..Len(es) |-> at[i + 1] - 1]
<1>10. \A i \in 1..Len(es) : to[i] = at[i + 1] - 1 /\ to[i] \in 1..Len(t) /\ t[to[i]] = w[at[i + 1]]
  BY <1>2, <1>9
<1>11. to \in [1..Len(es) -> 1..Len(t)]
  BY <1>10
<1> HIDE DEF to
<1>12. ASSUME NEW i \in 1..Len(es), NEW j \in 1..Len(es), i < j PROVE to[i] < to[j]
  <2>1. i + 1 \in 1..Len(ds) /\ j + 1 \in 1..Len(ds) /\ i + 1 < j + 1
    BY <1>7, <1>8, <1>12
  <2>2. PICK m, n : m = at[i + 1] /\ n = at[j + 1]
    OBVIOUS
  <2>3. m < n /\ m \in 2..Len(w) /\ n \in 2..Len(w)
    BY <1>1, <1>9, <2>1, <2>2
  <2>4. to[i] = m - 1 /\ to[j] = n - 1
    BY <1>10, <2>2
  <2> QED BY <1>2, <2>3, <2>4
<1>13. \A i \in 1..Len(es) : t[to[i]] = es[i] /\ IsDescr(es[i])
  <2> TAKE i \in 1..Len(es)
  <2>1. PICK j \in 1..Len(ds) : j = i + 1
    BY <1>8
  <2>2. w[at[j]] = ds[j] /\ IsDescr(ds[j])
    BY <1>1
  <2>3. t[to[i]] = w[at[j]] /\ es[i] = ds[j]
    BY <1>7, <1>10, <2>1
  <2> QED BY <2>2, <2>3
<1>14. ASSUME NEW n \in 1..Len(t), IsDescr(t[n]) PROVE \E i \in 1..Len(es) : to[i] = n
  <2>1. n + 1 \in 1..Len(w) /\ IsDescr(w[n + 1]) /\ (n + 1) - 1 = n /\ n + 1 # 1
    BY <1>2, <1>14
  <2>2. PICK i \in 1..Len(ds) : at[i] = n + 1
    BY <1>1, <2>1
  <2>3. i # 1
    BY <1>5, <2>1, <2>2
  <2>4. i - 1 \in 1..Len(es) /\ (i - 1) + 1 = i
    BY <1>7, <2>3
  <2> QED BY <1>10, <2>1, <2>2, <2>4
<1>15. Carries(t, es)
  BY <1>11, <1>12, <1>13, <1>14 DEF Carries
<1> QED BY <1>6, <1>15 DEF t, es

\* Nothing carries nothing, and whoever carries something has a frame.
LEMMA CarriesNothing ==
    /\ Carries(<<>>, <<>>)
    /\ \A d \in Frame : ~Carries(<<>>, <<d>>)
<1>1. Len(<<>>) = 0 /\ 1..0 = {} /\ \A d : Len(<<d>>) = 1
  OBVIOUS
<1>2. Carries(<<>>, <<>>)
  <2> DEFINE at == [i \in {} |-> i]
  <2>1. at \in [1..Len(<<>>) -> 1..Len(<<>>)]
    BY <1>1
  <2> QED BY <1>1, <2>1 DEF Carries
<1>3. ASSUME NEW d \in Frame, Carries(<<>>, <<d>>) PROVE FALSE
  <2>1. PICK at : at \in [1..Len(<<d>>) -> 1..Len(<<>>)]
    BY <1>3 DEF Carries
  <2>2. 1 \in 1..Len(<<d>>)
    BY <1>1
  <2>3. at[1] \in 1..Len(<<>>)
    BY <2>1, <2>2
  <2> QED BY <1>1, <2>3
<1> QED BY <1>2, <1>3

-------------------------------------------------------------------------------
(* The steps of a negotiation *)

LEMMA OfferFacts ==
    ASSUME NEW p \in PC, WellMade(p)
    PROVE  /\ Offer(p) \in Frame /\ Offer(p) \in Descr /\ Offer(p).type = "OFFER" /\ IsDescr(Offer(p))
           /\ Offer(p).from = p.id /\ Offer(p).lines = p.local /\ Offer(p).sends = p.offers
           /\ Offer(p).sends \subseteq Among(Offer(p).lines)
<1>1. p.local \in Lines /\ p.offers \in SUBSET Track /\ p.offers \subseteq Among(p.local)
  BY PCFields DEF WellMade
<1>2. PICK l \in Lines, s \in SUBSET Track : l = p.local /\ s = p.offers /\ s \subseteq Among(l)
  BY <1>1
<1>3. Offer(p) = Description(p, "OFFER", l, s)
  BY <1>2 DEF Offer
<1>4. PICK f : f = Description(p, "OFFER", l, s) /\ f = Offer(p)
  BY <1>3
<1>5. /\ f \in Frame /\ f.type = "OFFER" /\ f.from = p.id /\ f.lines = l /\ f.sends = s
  <2>1. p.id \in 1..MaxPC
    BY PCFields
  <2>2. f = [type |-> "OFFER", from |-> p.id, lines |-> l, sends |-> s]
    BY <1>4 DEF Description
  <2>3. f \in Descr
    BY <2>1, <2>2 DEF Descr
  <2>4. f.type = "OFFER" /\ f.from = p.id /\ f.lines = l /\ f.sends = s
    BY <2>2
  <2> QED BY <2>3, <2>4 DEF Frame
<1> QED BY <1>1, <1>2, <1>4, <1>5, FrameFields DEF IsDescr

LEMMA AnswerFacts ==
    ASSUME NEW p \in PC, WellMade(p)
    PROVE  /\ Answer(p) \in Frame /\ Answer(p) \in Descr /\ Answer(p).type = "ANSWER" /\ IsDescr(Answer(p))
           /\ Answer(p).from = p.id /\ Answer(p).lines = p.lines /\ Answer(p).sends = p.sent
           /\ Answer(p).sends \subseteq Among(Answer(p).lines)
<1>1. p.lines \in Lines /\ p.sent \in SUBSET Track /\ p.sent \subseteq Among(p.lines)
  BY PCFields DEF WellMade
<1>2. PICK l \in Lines, s \in SUBSET Track : l = p.lines /\ s = p.sent /\ s \subseteq Among(l)
  BY <1>1
<1>3. Answer(p) = Description(p, "ANSWER", l, s)
  BY <1>2 DEF Answer
<1>4. PICK f : f = Description(p, "ANSWER", l, s) /\ f = Answer(p)
  BY <1>3
<1>5. /\ f \in Frame /\ f.type = "ANSWER" /\ f.from = p.id /\ f.lines = l /\ f.sends = s
  <2>1. p.id \in 1..MaxPC
    BY PCFields
  <2>2. f = [type |-> "ANSWER", from |-> p.id, lines |-> l, sends |-> s]
    BY <1>4 DEF Description
  <2>3. f \in Descr
    BY <2>1, <2>2 DEF Descr
  <2>4. f.type = "ANSWER" /\ f.from = p.id /\ f.lines = l /\ f.sends = s
    BY <2>2
  <2> QED BY <2>3, <2>4 DEF Frame
<1> QED BY <1>1, <1>2, <1>4, <1>5, FrameFields DEF IsDescr

\* Sequences of no, one and two descriptions.
LEMMA ShortOnes ==
    /\ <<>> \in Seq(Frame)
    /\ \A d \in Frame : /\ <<d>> \in Seq(Frame) /\ <<>> \o <<d>> = <<d>> /\ <<d>>[1] = d
                        /\ Tail(<<d>>) = <<>> /\ <<d>> # <<>>
    /\ \A d, e \in Frame : /\ <<d>> \o <<e>> \in Seq(Frame) /\ (<<d>> \o <<e>>)[1] = d
                           /\ Tail(<<d>> \o <<e>>) = <<e>>
<1>1. <<>> \in Seq(Frame)
  BY EmptySeq
<1>2. ASSUME NEW d \in Frame
      PROVE  /\ <<d>> \in Seq(Frame) /\ <<>> \o <<d>> = <<d>> /\ <<d>>[1] = d
             /\ Tail(<<d>>) = <<>> /\ <<d>> # <<>>
  <2>1. <<d>> \in Seq(Frame) /\ <<d>>[1] = d /\ Tail(<<d>>) = <<>> /\ <<d>> # <<>>
    OBVIOUS
  <2>2. <<>> \o <<d>> = <<d>>
    BY <2>1, ConcatEmptySeq
  <2> QED BY <2>1, <2>2
<1>3. ASSUME NEW d \in Frame, NEW e \in Frame
      PROVE  /\ <<d>> \o <<e>> \in Seq(Frame) /\ (<<d>> \o <<e>>)[1] = d
             /\ Tail(<<d>> \o <<e>>) = <<e>>
  <2> DEFINE c == <<d>> \o <<e>>
  <2>1. /\ <<d>> \in Seq(Frame) /\ <<e>> \in Seq(Frame) /\ Len(<<d>>) = 1 /\ Len(<<e>>) = 1
        /\ <<d>>[1] = d /\ <<e>>[1] = e
    OBVIOUS
  <2>2. /\ c \in Seq(Frame) /\ Len(c) = 2 /\ c[1] = d /\ c[2] = e
    BY <2>1, ConcatProperties
  <2> HIDE DEF c
  <2>3. c # <<>> /\ Tail(c) \in Seq(Frame) /\ Len(Tail(c)) = 1 /\ Tail(c)[1] = e
    <3>1. c # <<>>
      BY <2>2, EmptySeq
    <3>2. /\ Tail(c) \in Seq(Frame) /\ Len(Tail(c)) = Len(c) - 1
          /\ \A i \in 1..(Len(c) - 1) : Tail(c)[i] = c[i + 1]
      BY <2>2, <3>1, TailFacts
    <3>3. Len(Tail(c)) = 1 /\ 1 \in 1..(Len(c) - 1) /\ 1 + 1 = 2
      BY <2>2, <3>2
    <3> QED BY <2>2, <3>1, <3>2, <3>3
  <2>4. Tail(c) = <<e>>
    <3> DEFINE t == Tail(c)
               u == <<e>>
    <3>1. t \in Seq(Frame) /\ u \in Seq(Frame) /\ Len(t) = 1 /\ Len(u) = 1 /\ t[1] = e /\ u[1] = e
      BY <2>1, <2>3
    <3> HIDE DEF t, u
    <3>2. \A i \in 1..Len(t) : t[i] = u[i]
      BY <3>1
    <3>3. t = u
      BY <3>1, <3>2, SeqEqual
    <3> QED BY <3>3 DEF t, u
  <2> QED BY <2>2, <2>4 DEF c
<1> QED BY <1>1, <1>2, <1>3

\* What is on the way when a frame is taken.
LEMMA Heads ==
    ASSUME NEW w \in Seq(Frame), w # <<>>
    PROVE  /\ Carries(w, <<>>) => ~IsDescr(w[1])
           /\ \A d \in Frame : Carries(w, <<d>>) /\ IsDescr(w[1]) => w[1] = d /\ Carries(Tail(w), <<>>)
           /\ \A d, e \in Frame : Carries(w, <<d>> \o <<e>>) /\ IsDescr(w[1]) =>
                 w[1] = d /\ Carries(Tail(w), <<e>>)
<1>1. Carries(w, <<>>) => ~IsDescr(w[1])
  BY ShortOnes, CarriesTaken
<1>2. ASSUME NEW d \in Frame, Carries(w, <<d>>), IsDescr(w[1])
      PROVE  w[1] = d /\ Carries(Tail(w), <<>>)
  <2>1. w[1] = <<d>>[1] /\ Carries(Tail(w), Tail(<<d>>))
    BY <1>2, ShortOnes, CarriesTaken
  <2> QED BY <2>1, ShortOnes
<1>3. ASSUME NEW d \in Frame, NEW e \in Frame, Carries(w, <<d>> \o <<e>>), IsDescr(w[1])
      PROVE  w[1] = d /\ Carries(Tail(w), <<e>>)
  <2>1. <<d>> \o <<e>> \in Seq(Frame)
    BY ShortOnes
  <2>2. w[1] = (<<d>> \o <<e>>)[1] /\ Carries(Tail(w), Tail(<<d>> \o <<e>>))
    BY <1>3, <2>1, CarriesTaken
  <2> QED BY <2>2, ShortOnes
<1> QED BY <1>1, <1>2, <1>3

\* The descriptions on the way are the same afterwards.
Alike(w, u) == \A ds \in Seq(Frame) : Carries(w, ds) => Carries(u, ds)

LEMMA AlikeFacts ==
    ASSUME NEW w \in Seq(Frame)
    PROVE  /\ Alike(w, w)
           /\ \A fs \in Seq(Frame) : (\A i \in 1..Len(fs) : ~IsDescr(fs[i])) => Alike(w, w \o fs)
           /\ w # <<>> /\ ~IsDescr(w[1]) => Alike(w, Tail(w))
BY CarriesMore, CarriesPassed DEF Alike

\* A call stays where it is as long as no description is sent or taken.
LEMMA AlikeKeeps ==
    ASSUME NEW p \in PC, WellMade(p), NEW q \in PC, WellMade(q),
           NEW w \in Seq(Frame), NEW v \in Seq(Frame), InCall(p, q, w, v),
           NEW w2 \in Seq(Frame), NEW v2 \in Seq(Frame), Alike(w, w2), Alike(v, v2)
    PROVE  InCall(p, q, w2, v2)
<1>1. PICK d \in Frame, e \in Frame, f \in Frame : d = Answer(q) /\ e = Offer(q) /\ f = Offer(p)
  BY AnswerFacts, OfferFacts
<1>2. /\ <<>> \in Seq(Frame) /\ <<d>> \in Seq(Frame) /\ <<e>> \in Seq(Frame) /\ <<f>> \in Seq(Frame)
      /\ <<d>> \o <<e>> \in Seq(Frame)
  BY ShortOnes
<1>3. /\ Carries(w, <<>>) => Carries(w2, <<>>)
      /\ Carries(v, <<>>) => Carries(v2, <<>>)
      /\ Carries(w, <<d>>) => Carries(w2, <<d>>)
      /\ Carries(w, <<e>>) => Carries(w2, <<e>>)
      /\ Carries(v, <<f>>) => Carries(v2, <<f>>)
      /\ Carries(w, <<d>> \o <<e>>) => Carries(w2, <<d>> \o <<e>>)
  BY <1>2 DEF Alike
<1> QED BY <1>1, <1>3 DEF InCall, Resting, Offering, Crossed, Answering, Replied

LEMMA Turned ==
    ASSUME NEW p \in PC, NEW q \in PC, NEW w, NEW v
    PROVE  /\ Agreed(p, q) => Agreed(q, p)
           /\ Resting(p, q, w, v) => Resting(q, p, v, w)
           /\ Crossed(p, q, w, v) => Crossed(q, p, v, w)
<1>1. Agreed(p, q) => Agreed(q, p)
  <2>1. {p.role, q.role} = {q.role, p.role}
    OBVIOUS
  <2> QED BY <2>1 DEF Agreed
<1> QED BY <1>1 DEF Resting, Crossed

\* The fields a negotiation looks at.
LikeButTracks(p, r) == /\ SameNegotiated(p, r) /\ p.run = r.run /\ p.local = r.local
                       /\ p.offers = r.offers

LEMMA LikeFacts ==
    ASSUME NEW r \in PC, NEW s \in PC, LikeButTracks(r, s)
    PROVE  /\ Offer(r) = Offer(s) /\ Answer(r) = Answer(s)
           /\ Rest(r) <=> Rest(s)
           /\ Making(r) <=> Making(s)
           /\ Asking(r) <=> Asking(s)
           /\ GoesOn(r) <=> GoesOn(s)
           /\ Free(r) <=> Free(s)
           /\ r.run = s.run /\ r.sig = s.sig
           /\ \A q \in PC : /\ Agreed(r, q) <=> Agreed(s, q)
                            /\ Agreed(q, r) <=> Agreed(q, s)
                            /\ Heard(r, q) <=> Heard(s, q)
                            /\ Heard(q, r) <=> Heard(q, s)
<1>1. Offer(r) = Offer(s) /\ Answer(r) = Answer(s)
  BY DEF LikeButTracks, SameNegotiated, Offer, Answer, Description
<1>2. /\ Rest(r) <=> Rest(s)
      /\ Making(r) <=> Making(s)
      /\ Asking(r) <=> Asking(s)
      /\ GoesOn(r) <=> GoesOn(s)
      /\ r.run = s.run /\ r.sig = s.sig
  BY DEF LikeButTracks, SameNegotiated, Rest, Making, Asking, GoesOn
<1>3. ASSUME NEW q \in PC
      PROVE  /\ Agreed(r, q) <=> Agreed(s, q)
             /\ Agreed(q, r) <=> Agreed(q, s)
             /\ Heard(r, q) <=> Heard(s, q)
             /\ Heard(q, r) <=> Heard(q, s)
  BY DEF LikeButTracks, SameNegotiated, Agreed, Heard
<1> QED BY <1>1, <1>2, <1>3 DEF Free

\* A new track of one side.
LEMMA TrackAdded ==
    ASSUME NEW p \in PC, NEW q \in PC, NEW w, NEW v, InCall(p, q, w, v)
    PROVE  /\ \A r \in PC : LikeButTracks(r, p) => InCall(r, q, w, v)
           /\ \A r \in PC : LikeButTracks(r, q) => InCall(p, r, w, v)
<1>1. ASSUME NEW r \in PC, LikeButTracks(r, p) PROVE InCall(r, q, w, v)
  BY <1>1, LikeFacts DEF InCall, Resting, Offering, Crossed, Answering, Replied
<1>2. ASSUME NEW r \in PC, LikeButTracks(r, q) PROVE InCall(p, r, w, v)
  BY <1>2, LikeFacts DEF InCall, Resting, Offering, Crossed, Answering, Replied
<1> QED BY <1>1, <1>2

\* Taking an offer, which meets none of one's own.
LEMMA OfferTaken ==
    ASSUME NEW p \in PC, WellMade(p), NEW q \in PC, WellMade(q),
           NEW w \in Seq(Frame), NEW v \in Seq(Frame),
           Offering(p, q, w, v), v # <<>>, v[1].type = "OFFER"
    PROVE  /\ v[1] = Offer(p) /\ Fits(q, Offer(p))
           /\ InCall(p, Remote(q, Offer(p), "accept"), w, Tail(v))
<1>1. IsDescr(v[1])
  BY DEF IsDescr
<1>2. /\ Asking(p) /\ Carries(v, <<Offer(p)>>)
      /\ Agreed(p, q) /\ GoesOn(p) /\ Carries(w, <<>>)
  BY DEF Offering
<1>3. v[1] = Offer(p) /\ Carries(Tail(v), <<>>)
  BY <1>1, <1>2, OfferFacts, Heads
<1>5. PICK d \in Descr : d = Offer(p)
  BY OfferFacts
<1>6. d.from = p.id /\ d.lines = p.local /\ d.sends = p.offers /\ d.sends \subseteq Among(d.lines)
  BY <1>5, OfferFacts
<1>7. Fits(q, d)
  BY <1>2, <1>6 DEF Fits, GoesOn, Agreed
<1>8. PICK r : r = Remote(q, d, "accept")
  OBVIOUS
<1>9. /\ r.id = q.id /\ r.sig = "remote" /\ r.run = "accept"
      /\ r.lines = d.lines /\ r.recv = d.sends /\ r.remote = d.from
      /\ r.role = Part(q, d, "active")
  <2>1. "accept" \in {"accept", "accept new"}
    OBVIOUS
  <2> QED BY <1>6, <1>7, <1>8, <2>1, RemoteFacts, ZenonT(30)
<1>10. p.local = <<>> => p.lines = <<>>
  BY <1>2, PCFields, FitsKeepsLines DEF GoesOn
<1>11. Heard(p, r)
  <2>1. r.lines = p.local /\ r.recv = p.offers /\ r.remote = p.id
    BY <1>6, <1>9
  <2>2. p.role # "none" => p.remote = r.id
    BY <1>2, <1>9 DEF Agreed
  <2>3. r.role = IF p.local = <<>> THEN q.role ELSE IF q.role = "none" THEN "active" ELSE q.role
    BY <1>2, <1>6, <1>9 DEF Part, Agreed
  <2>4. IF p.lines = <<>> THEN p.role = "none" /\ q.role = "none"
        ELSE {p.role, q.role} = {"active", "passive"}
    BY <1>2 DEF Agreed
  <2>5. p.lines # <<>> => p.role # "none" /\ q.role # "none"
    BY <2>4
  <2> QED BY <1>10, <2>1, <2>2, <2>3, <2>4, <2>5 DEF Heard
<1>12. Answering(p, r, w, Tail(v))
  BY <1>2, <1>3, <1>9, <1>11 DEF Answering
<1> QED BY <1>3, <1>5, <1>7, <1>8, <1>12 DEF InCall

\* p waits for an answer or nothing, q for an offer or nothing, unless offers cross.
LEMMA HeadIs ==
    ASSUME NEW p \in PC, WellMade(p), NEW q \in PC, WellMade(q),
           NEW w \in Seq(Frame), NEW v \in Seq(Frame), InCall(p, q, w, v)
    PROVE  /\ w # <<>> /\ w[1].type = "OFFER" => Asking(p)
           /\ v # <<>> => v[1].type # "ANSWER"
           /\ v # <<>> /\ v[1].type = "OFFER" => Offering(p, q, w, v) \/ Asking(q)
           /\ w # <<>> /\ w[1].type = "ANSWER" =>
                 /\ Replied(p, q, w, v) /\ w[1] = Answer(q)
                 /\ \/ Free(q) /\ Carries(Tail(w), <<>>)
                    \/ Asking(q) /\ GoesOn(q) /\ Carries(Tail(w), <<Offer(q)>>)
<1>1. PICK d \in Frame, e \in Frame, f \in Frame : d = Answer(q) /\ e = Offer(q) /\ f = Offer(p)
  BY AnswerFacts, OfferFacts
<1>2. d.type = "ANSWER" /\ e.type = "OFFER" /\ f.type = "OFFER"
  BY <1>1, AnswerFacts, OfferFacts
<1>3. ASSUME w # <<>>, w[1].type = "ANSWER"
      PROVE  /\ Replied(p, q, w, v) /\ w[1] = Answer(q)
             /\ \/ Free(q) /\ Carries(Tail(w), <<>>)
                \/ Asking(q) /\ GoesOn(q) /\ Carries(Tail(w), <<Offer(q)>>)
  <2>1. /\ IsDescr(w[1]) /\ ~Carries(w, <<>>)
        /\ Carries(w, <<e>>) => w[1] = e
        /\ Carries(w, <<d>>) => w[1] = d /\ Carries(Tail(w), <<>>)
        /\ Carries(w, <<d>> \o <<e>>) => w[1] = d /\ Carries(Tail(w), <<e>>)
    <3>1. IsDescr(w[1])
      BY <1>3 DEF IsDescr
    <3> QED BY <1>3, <3>1, Heads
  <2>2. ~Carries(w, <<e>>)
    BY <1>2, <1>3, <2>1
  <2>3. Replied(p, q, w, v)
    BY <1>1, <2>1, <2>2 DEF InCall, Resting, Offering, Crossed, Answering
  <2> QED BY <1>1, <2>1, <2>3 DEF Replied
<1>4. ASSUME w # <<>>, w[1].type = "OFFER" PROVE Asking(p)
  <2>1. ~Carries(w, <<>>)
    BY <1>4, Heads DEF IsDescr
  <2> QED BY <2>1 DEF InCall, Resting, Offering, Crossed, Answering, Replied
<1>5. ASSUME v # <<>>, IsDescr(v[1])
      PROVE  v[1].type = "OFFER" /\ (Offering(p, q, w, v) \/ Asking(q))
  <2>1. ~Carries(v, <<>>)
    BY <1>5, Heads
  <2>2. Carries(v, <<f>>) /\ (Offering(p, q, w, v) \/ Asking(q))
    BY <1>1, <2>1 DEF InCall, Resting, Offering, Crossed, Answering, Replied
  <2>3. v[1] = f
    BY <1>5, <2>2, Heads
  <2> QED BY <1>2, <2>2, <2>3
<1> QED BY <1>3, <1>4, <1>5 DEF IsDescr

\* Taking an answer.
LEMMA AnswerTaken ==
    ASSUME NEW p \in PC, WellMade(p), NEW q \in PC, WellMade(q),
           NEW w \in Seq(Frame), NEW v \in Seq(Frame),
           InCall(p, q, w, v), w # <<>>, w[1].type = "ANSWER"
    PROVE  /\ p.sig = "offered" /\ w[1] = Answer(q) /\ Answer(q).lines = p.local
           /\ \/ InCall(Accepted(p, Answer(q)), q, Tail(w), v)
              \/ InCall(q, Accepted(p, Answer(q)), v, Tail(w))
<1>1. /\ Replied(p, q, w, v) /\ w[1] = Answer(q)
      /\ \/ Free(q) /\ Carries(Tail(w), <<>>)
         \/ Asking(q) /\ GoesOn(q) /\ Carries(Tail(w), <<Offer(q)>>)
  BY HeadIs
<1>2. Carries(v, <<>>) /\ Heard(p, q) /\ Asking(p)
  BY <1>1 DEF Replied
<1>3. PICK d \in Descr : d = Answer(q)
  BY AnswerFacts
<1>4. d.from = q.id /\ d.lines = q.lines /\ d.sends = q.sent /\ d.sends \subseteq Among(d.lines)
  BY <1>3, AnswerFacts
<1>5. d.lines = p.local
  BY <1>2, <1>4 DEF Heard
<1>6. PICK r : r = Accepted(p, d)
  OBVIOUS
<1>7. /\ r \in PC /\ r.id = p.id /\ r.sig = "stable" /\ r.run = p.run /\ r.lines = p.local
      /\ r.sent = p.offers /\ r.recv = d.sends /\ r.remote = d.from
      /\ r.role = Part(p, d, "passive")
  BY <1>4, <1>5, <1>6, AcceptedFacts
<1>8. Free(r)
  BY <1>2, <1>7 DEF Free, Rest, Asking
<1>9. Agreed(r, q)
  <2>1. r.remote = q.id /\ q.remote = r.id /\ r.lines = q.lines /\ r.sent = q.recv /\ q.sent = r.recv
    BY <1>2, <1>4, <1>7 DEF Heard
  <2>2. IF p.local = <<>> THEN p.role = "none" /\ q.role = "none"
        ELSE IF p.role = "none" THEN q.role = "active"
        ELSE {p.role, q.role} = {"active", "passive"}
    BY <1>2 DEF Heard
  <2>3. p.role # "none" => p.remote = q.id
    BY <1>2 DEF Heard
  <2>4. r.role = IF p.local = <<>> THEN p.role ELSE IF p.role = "none" THEN "passive" ELSE p.role
    BY <1>4, <1>5, <1>7, <2>3 DEF Part
  <2>5. IF r.lines = <<>> THEN r.role = "none" /\ q.role = "none"
        ELSE {r.role, q.role} = {"active", "passive"}
    BY <1>7, <2>2, <2>4
  <2> QED BY <2>1, <2>5 DEF Agreed
<1>10. Agreed(q, r)
  BY <1>7, <1>9, Turned
<1>11. CASE Free(q) /\ Carries(Tail(w), <<>>)
  <2>1. Resting(r, q, Tail(w), v)
    BY <1>2, <1>8, <1>9, <1>11 DEF Resting
  <2> QED BY <1>1, <1>2, <1>3, <1>5, <1>6, <2>1 DEF InCall, Asking
<1>12. CASE Asking(q) /\ GoesOn(q) /\ Carries(Tail(w), <<Offer(q)>>)
  <2>1. Offering(q, r, v, Tail(w))
    BY <1>2, <1>8, <1>10, <1>12 DEF Offering
  <2> QED BY <1>1, <1>2, <1>3, <1>5, <1>6, <2>1 DEF InCall, Asking
<1> QED BY <1>1, <1>11, <1>12

\* Answering.  Only q can be about to.
LEMMA AnswerSent ==
    ASSUME NEW p \in PC, NEW q \in PC, WellMade(q), NEW w, NEW v, InCall(p, q, w, v)
    PROVE  /\ p.run \notin {"accept", "accept new"}
           /\ q.run \in {"accept", "accept new"} =>
                 /\ Carries(w, <<>>)
                 /\ \A r \in PC, u \in Seq(Frame) :
                       LikeButTracks(r, Answered(q)) /\ Carries(u, <<Answer(r)>>)
                          => InCall(p, r, u, v)
<1>1. p.run \notin {"accept", "accept new"}
  BY DEF InCall, Resting, Offering, Crossed, Answering, Replied, Free, Rest, Making, Asking
<1>2. ASSUME q.run \in {"accept", "accept new"} PROVE Answering(p, q, w, v)
  BY <1>2 DEF InCall, Resting, Offering, Crossed, Replied, Free, Rest, Making, Asking
<1>3. ASSUME q.run \in {"accept", "accept new"},
             NEW r \in PC, NEW u \in Seq(Frame),
             LikeButTracks(r, Answered(q)), Carries(u, <<Answer(r)>>)
      PROVE  InCall(p, r, u, v)
  <2>1. Carries(v, <<>>) /\ Heard(p, q) /\ Asking(p)
    BY <1>2, <1>3 DEF Answering
  <2>2. /\ r.id = q.id /\ r.lines = q.lines /\ r.recv = q.recv /\ r.remote = q.remote
        /\ r.role = q.role /\ r.sig = "stable" /\ r.run = "none"
    BY <1>3, AnsweredFacts DEF LikeButTracks, SameNegotiated
  <2>3. Heard(p, r) /\ Free(r)
    BY <2>1, <2>2 DEF Heard, Free, Rest
  <2> QED BY <1>3, <2>1, <2>3 DEF InCall, Replied
<1>4. ASSUME q.run \in {"accept", "accept new"} PROVE Carries(w, <<>>)
  BY <1>2, <1>4 DEF Answering
<1> QED BY <1>1, <1>3, <1>4

\* Beginning an offer.
LEMMA OfferBegun ==
    ASSUME NEW p \in PC, WellMade(p), NEW q \in PC, WellMade(q), NEW w, NEW v,
           InCall(p, q, w, v)
    PROVE  /\ Rest(p) => InCall(CreateOffer(p), q, w, v)
           /\ Rest(q) => InCall(p, CreateOffer(q), w, v)
<1>1. ASSUME NEW r \in PC, WellMade(r), Rest(r)
      PROVE  /\ CreateOffer(r) \in PC /\ Free(CreateOffer(r)) /\ Answer(CreateOffer(r)) = Answer(r)
             /\ SameNegotiated(CreateOffer(r), r)
  <2>1. /\ CreateOffer(r) \in PC
        /\ SameNegotiated(CreateOffer(r), r) /\ CreateOffer(r).run = "offer"
        /\ Len(r.lines) <= Len(CreateOffer(r).local)
        /\ SubSeq(CreateOffer(r).local, 1, Len(r.lines)) = r.lines
    BY <1>1, CreateOfferFacts
  <2>2. Making(CreateOffer(r)) /\ GoesOn(CreateOffer(r))
    BY <1>1, <2>1 DEF Rest, Making, SameNegotiated, GoesOn
  <2>3. Answer(CreateOffer(r)) = Answer(r)
    BY <2>1 DEF SameNegotiated, Answer, Description
  <2> QED BY <2>1, <2>2, <2>3 DEF Free
<1>2. ASSUME Rest(p) PROVE InCall(CreateOffer(p), q, w, v)
  <2>1. Resting(p, q, w, v)
    BY <1>2 DEF InCall, Offering, Crossed, Answering, Replied, Rest, Asking
  <2>2. PICK r : r = CreateOffer(p)
    OBVIOUS
  <2>3. r \in PC /\ Free(r) /\ SameNegotiated(r, p)
    BY <1>1, <1>2, <2>2
  <2>4. Agreed(r, q)
    BY <2>1, <2>3 DEF Resting, Agreed, SameNegotiated
  <2>5. Resting(r, q, w, v)
    BY <2>1, <2>3, <2>4 DEF Resting
  <2> QED BY <2>2, <2>5 DEF InCall
<1>3. ASSUME Rest(q) PROVE InCall(p, CreateOffer(q), w, v)
  <2>1. PICK r : r = CreateOffer(q)
    OBVIOUS
  <2>2. r \in PC /\ Free(r) /\ Answer(r) = Answer(q) /\ SameNegotiated(r, q)
    BY <1>1, <1>3, <2>1
  <2>3. Agreed(p, q) => Agreed(p, r)
    BY <2>2 DEF Agreed, SameNegotiated
  <2>4. Heard(p, q) => Heard(p, r)
    BY <2>2 DEF Heard, SameNegotiated
  <2>5. \/ Resting(p, q, w, v) \/ Offering(p, q, w, v)
        \/ Replied(p, q, w, v) /\ Carries(w, <<Answer(q)>>)
    BY <1>3 DEF InCall, Crossed, Answering, Replied, Rest, Asking
  <2>6. Resting(p, q, w, v) => Resting(p, r, w, v)
    BY <2>2, <2>3 DEF Resting
  <2>7. Offering(p, q, w, v) => Offering(p, r, w, v)
    BY <2>2, <2>3 DEF Offering
  <2>8. Replied(p, q, w, v) /\ Carries(w, <<Answer(q)>>) => Replied(p, r, w, v)
    BY <2>2, <2>4 DEF Replied
  <2> QED BY <2>1, <2>5, <2>6, <2>7, <2>8 DEF InCall
<1> QED BY <1>2, <1>3

\* The connection whose offer has been sent.
OfferOut(p) == [p EXCEPT !.sig = "offered", !.run = "none"]

\* d goes behind the descriptions on the way.
Extended(w, u, d) == \A ds \in Seq(Frame) : Carries(w, ds) => Carries(u, ds \o <<d>>)

LEMMA OfferOutFacts ==
    ASSUME NEW p \in PC, Making(p)
    PROVE  /\ OfferOut(p) \in PC /\ Asking(OfferOut(p)) /\ Offer(OfferOut(p)) = Offer(p)
           /\ Answer(OfferOut(p)) = Answer(p)
           /\ OfferOut(p).id = p.id /\ OfferOut(p).lines = p.lines /\ OfferOut(p).sent = p.sent
           /\ OfferOut(p).recv = p.recv /\ OfferOut(p).remote = p.remote
           /\ OfferOut(p).role = p.role /\ OfferOut(p).local = p.local
           /\ OfferOut(p).offers = p.offers /\ OfferOut(p).tracks = p.tracks
           /\ OfferOut(p).run = "none"
<1>1. /\ OfferOut(p) \in PC /\ OfferOut(p).sig = "offered" /\ OfferOut(p).run = "none"
      /\ OfferOut(p).id = p.id /\ OfferOut(p).lines = p.lines /\ OfferOut(p).sent = p.sent
      /\ OfferOut(p).recv = p.recv /\ OfferOut(p).remote = p.remote
      /\ OfferOut(p).role = p.role /\ OfferOut(p).local = p.local
      /\ OfferOut(p).offers = p.offers /\ OfferOut(p).tracks = p.tracks
  BY DEF OfferOut, PC
<1> QED BY <1>1 DEF Asking, Offer, Answer, Description

LEMMA OfferSent ==
    ASSUME NEW p \in PC, WellMade(p), NEW q \in PC, WellMade(q), NEW w, NEW v,
           InCall(p, q, w, v)
    PROVE  /\ \A u : Making(p) /\ Extended(v, u, Offer(p)) => InCall(OfferOut(p), q, w, u)
           /\ \A u : Making(q) /\ Extended(w, u, Offer(q)) =>
                        InCall(p, OfferOut(q), u, v) \/ InCall(OfferOut(q), p, v, u)
<1>1. ASSUME NEW s \in PC, WellMade(s), NEW o \in PC, NEW e, NEW f, NEW u,
             Resting(s, o, e, f), Making(s), Extended(f, u, Offer(s))
      PROVE  Offering(OfferOut(s), o, e, u)
  <2>1. PICK r : r = OfferOut(s)
    OBVIOUS
  <2>2. /\ Asking(r) /\ Offer(r) = Offer(s)
        /\ r.id = s.id /\ r.lines = s.lines /\ r.sent = s.sent
        /\ r.recv = s.recv /\ r.remote = s.remote
        /\ r.role = s.role /\ r.local = s.local /\ r.offers = s.offers
    BY <1>1, <2>1, OfferOutFacts
  <2>3. GoesOn(s)
    BY <1>1 DEF Resting, Free, Rest, Making
  <2>4. Agreed(r, o) /\ GoesOn(r)
    BY <1>1, <2>2, <2>3 DEF Resting, Agreed, GoesOn
  <2>5. Carries(u, <<Offer(r)>>)
    <3>1. Carries(u, <<>> \o <<Offer(s)>>)
      BY <1>1, ShortOnes DEF Resting, Extended
    <3> QED BY <1>1, <2>2, <3>1, OfferFacts, ShortOnes
  <2> QED BY <1>1, <2>1, <2>2, <2>4, <2>5 DEF Resting, Offering
<1>2. ASSUME NEW u, Making(p), Extended(v, u, Offer(p)) PROVE InCall(OfferOut(p), q, w, u)
  <2>1. Resting(p, q, w, v)
    BY <1>2 DEF InCall, Offering, Crossed, Answering, Replied, Making, Asking
  <2> QED BY <1>1, <1>2, <2>1 DEF InCall
<1>3. ASSUME NEW u, Making(q), Extended(w, u, Offer(q))
      PROVE  InCall(p, OfferOut(q), u, v) \/ InCall(OfferOut(q), p, v, u)
  <2>1. PICK r : r = OfferOut(q)
    OBVIOUS
  <2>2. /\ Asking(r) /\ Offer(r) = Offer(q) /\ Answer(r) = Answer(q)
        /\ r.id = q.id /\ r.lines = q.lines /\ r.sent = q.sent
        /\ r.recv = q.recv /\ r.remote = q.remote
        /\ r.role = q.role /\ r.local = q.local /\ r.offers = q.offers
    BY <1>3, <2>1, OfferOutFacts
  <2>3. \/ Resting(p, q, w, v) \/ Offering(p, q, w, v)
        \/ Replied(p, q, w, v) /\ Carries(w, <<Answer(q)>>) /\ GoesOn(q)
    BY <1>3 DEF InCall, Crossed, Answering, Replied, Free, Rest, Making, Asking
  <2>4. CASE Resting(p, q, w, v)
    <3>1. Resting(q, p, v, w)
      BY <2>4, Turned
    <3> QED BY <1>1, <1>3, <3>1 DEF InCall
  <2>5. CASE Offering(p, q, w, v)
    <3>1. Agreed(p, r)
      BY <2>2, <2>5 DEF Offering, Agreed
    <3>2. Carries(u, <<Offer(r)>>)
      <4>1. Carries(u, <<>> \o <<Offer(q)>>)
        BY <1>3, <2>5, ShortOnes DEF Offering, Extended
      <4> QED BY <2>2, <4>1, OfferFacts, ShortOnes
    <3>3. Crossed(p, r, u, v)
      BY <2>2, <2>5, <3>1, <3>2 DEF Offering, Crossed
    <3> QED BY <2>1, <3>3 DEF InCall
  <2>6. CASE Replied(p, q, w, v) /\ Carries(w, <<Answer(q)>>) /\ GoesOn(q)
    <3>1. Heard(p, r) /\ GoesOn(r)
      BY <2>2, <2>6 DEF Replied, Heard, GoesOn
    <3>2. Carries(u, <<Answer(r)>> \o <<Offer(r)>>)
      <4>1. <<Answer(q)>> \in Seq(Frame)
        BY AnswerFacts, ShortOnes
      <4>2. Carries(u, <<Answer(q)>> \o <<Offer(q)>>)
        BY <1>3, <2>6, <4>1 DEF Extended
      <4> QED BY <2>2, <4>2
    <3>3. Replied(p, r, u, v)
      BY <2>2, <2>6, <3>1, <3>2 DEF Replied
    <3> QED BY <2>1, <3>3 DEF InCall
  <2> QED BY <2>3, <2>4, <2>5, <2>6
<1> QED BY <1>2, <1>3

\* Neither end finds the other one gone, and two at rest agree.
LEMMA NotLost ==
    ASSUME NEW p \in PC, NEW q \in PC, NEW w, NEW v, InCall(p, q, w, v)
    PROVE  /\ p.role # "none" => p.remote = q.id
           /\ q.role # "none" => q.remote = p.id
           /\ p.sig = "stable" /\ q.sig = "stable" => Agreed(p, q)
<1>1. Agreed(p, q) => p.remote = q.id /\ q.remote = p.id
  BY DEF Agreed
<1>2. Heard(p, q) => (p.role # "none" => p.remote = q.id) /\ q.remote = p.id
  BY DEF Heard
<1>3. Asking(p) => p.sig # "stable"
  BY DEF Asking
<1>4. Agreed(p, q) \/ (Heard(p, q) /\ Asking(p))
  BY DEF InCall, Resting, Offering, Crossed, Answering, Replied
<1> QED BY <1>1, <1>2, <1>3, <1>4

-------------------------------------------------------------------------------
(* The steps of a first offer *)

\* Taking the first offer.
LEMMA FirstTaken ==
    ASSUME NEW p \in PC, WellMade(p), NEW w \in Seq(Frame), NEW v \in Seq(Frame),
           First(p, w, v), v # <<>>, v[1].type = "OFFER", NEW n \in 1..MaxPC
    PROVE  /\ v[1] = Offer(p)
           /\ InCall(p, Remote(NewPC(n), Offer(p), "accept new"), w, Tail(v))
<1>1. IsDescr(v[1]) /\ ~Carries(v, <<>>)
  BY Heads DEF IsDescr
<1>2. Asking(p) /\ Carries(v, <<Offer(p)>>) /\ p.role = "none" /\ Carries(w, <<>>)
  BY <1>1 DEF First
<1>3. v[1] = Offer(p) /\ Carries(Tail(v), <<>>)
  BY <1>1, <1>2, OfferFacts, Heads
<1>4. PICK d \in Descr : d = Offer(p)
  BY OfferFacts
<1>5. d.from = p.id /\ d.lines = p.local /\ d.sends = p.offers /\ d.sends \subseteq Among(d.lines)
  BY <1>4, OfferFacts
<1>6. PICK q \in PC : q = NewPC(n) /\ WellMade(q) /\ q.lines = <<>> /\ q.role = "none"
  BY NewPCFacts
<1>7. Fits(q, d)
  BY <1>5, <1>6, PCFields, NothingFitsAll DEF Fits
<1>8. PICK r : r = Remote(q, d, "accept new")
  OBVIOUS
<1>9. /\ r.id = q.id /\ r.sig = "remote" /\ r.run = "accept new"
      /\ r.lines = d.lines /\ r.recv = d.sends /\ r.remote = d.from
      /\ r.role = Part(q, d, "active")
  <2>1. "accept new" \in {"accept", "accept new"} /\ WellMade(q) /\ d.sends \subseteq Among(d.lines)
    BY <1>5, <1>6
  <2> QED BY <1>7, <1>8, <2>1, RemoteFacts, ZenonT(30)
<1>10. Heard(p, r)
  BY <1>2, <1>5, <1>6, <1>9 DEF Heard, Part
<1>11. Answering(p, r, w, Tail(v))
  BY <1>2, <1>3, <1>9, <1>10 DEF Answering
<1> QED BY <1>3, <1>4, <1>6, <1>8, <1>11 DEF InCall

\* What else a first offer goes on with.
LEMMA FirstFacts ==
    ASSUME NEW p \in PC, WellMade(p), NEW w \in Seq(Frame), NEW v \in Seq(Frame), First(p, w, v)
    PROVE  /\ w # <<>> => ~IsDescr(w[1])
           /\ v # <<>> => v[1].type # "ANSWER"
           /\ p.role = "none" /\ ~Rest(p) /\ p.run \in {"none", "offer"}
           /\ \A w2, v2 \in Seq(Frame) : Alike(w, w2) /\ Alike(v, v2) => First(p, w2, v2)
           /\ \A r \in PC : LikeButTracks(r, p) => First(r, w, v)
           /\ \A u : Making(p) /\ Extended(v, u, Offer(p)) => First(OfferOut(p), w, u)
<1>1. w # <<>> => ~IsDescr(w[1])
  BY Heads DEF First
<1>2. ASSUME v # <<>>, v[1].type = "ANSWER" PROVE FALSE
  <2>1. IsDescr(v[1]) /\ ~Carries(v, <<>>)
    BY <1>2, Heads DEF IsDescr
  <2>2. Carries(v, <<Offer(p)>>)
    BY <2>1 DEF First
  <2>3. v[1] = Offer(p)
    BY <1>2, <2>1, <2>2, OfferFacts, Heads
  <2> QED BY <1>2, <2>3, OfferFacts
<1>3. p.role = "none" /\ ~Rest(p) /\ p.run \in {"none", "offer"}
  BY DEF First, Rest, Making, Asking
<1>4. ASSUME NEW w2 \in Seq(Frame), NEW v2 \in Seq(Frame), Alike(w, w2), Alike(v, v2)
      PROVE  First(p, w2, v2)
  <2>1. <<>> \in Seq(Frame) /\ <<Offer(p)>> \in Seq(Frame)
    BY OfferFacts, ShortOnes
  <2> QED BY <1>4, <2>1 DEF First, Alike
<1>5. ASSUME NEW r \in PC, LikeButTracks(r, p) PROVE First(r, w, v)
  BY <1>5, LikeFacts DEF First, LikeButTracks, SameNegotiated
<1>6. ASSUME NEW u, Making(p), Extended(v, u, Offer(p)) PROVE First(OfferOut(p), w, u)
  <2>1. Carries(v, <<>>)
    BY <1>6 DEF First, Making, Asking
  <2>2. PICK r : r = OfferOut(p)
    OBVIOUS
  <2>3. Asking(r) /\ Offer(r) = Offer(p) /\ r.lines = p.lines /\ r.role = p.role
    BY <1>6, <2>2, OfferOutFacts
  <2>4. Carries(u, <<Offer(r)>>)
    <3>1. Carries(u, <<>> \o <<Offer(p)>>)
      BY <1>6, <2>1, ShortOnes DEF Extended
    <3> QED BY <2>3, <3>1, OfferFacts, ShortOnes
  <2> QED BY <2>2, <2>3, <2>4 DEF First
<1> QED BY <1>1, <1>2, <1>3, <1>4, <1>5, <1>6

-------------------------------------------------------------------------------
(* The steps of a call, seen from the one that acts: its connection is p *)

Talk(p, q, w, v) == p \in PC /\ q \in PC /\ (InCall(p, q, w, v) \/ InCall(q, p, v, w))

LEMMA TalkAlike ==
    ASSUME NEW p, WellMade(p), NEW q, WellMade(q), NEW w \in Seq(Frame), NEW v \in Seq(Frame),
           Talk(p, q, w, v),
           NEW w2 \in Seq(Frame), NEW v2 \in Seq(Frame), Alike(w, w2), Alike(v, v2)
    PROVE  Talk(p, q, w2, v2)
<1>1. p \in PC /\ q \in PC
  BY DEF Talk
<1>2. InCall(p, q, w, v) => InCall(p, q, w2, v2)
  BY <1>1, AlikeKeeps
<1>3. InCall(q, p, v, w) => InCall(q, p, v2, w2)
  BY <1>1, AlikeKeeps
<1> QED BY <1>2, <1>3 DEF Talk

LEMMA TalkTrack ==
    ASSUME NEW p, NEW q, NEW w, NEW v, Talk(p, q, w, v), NEW r \in PC, LikeButTracks(r, p)
    PROVE  Talk(r, q, w, v)
<1>1. p \in PC /\ q \in PC
  BY DEF Talk
<1>2. InCall(p, q, w, v) => InCall(r, q, w, v)
  BY <1>1, TrackAdded
<1>3. InCall(q, p, v, w) => InCall(q, r, v, w)
  BY <1>1, TrackAdded
<1> QED BY <1>2, <1>3 DEF Talk

LEMMA TalkTakesOffer ==
    ASSUME NEW p, WellMade(p), NEW q, WellMade(q), NEW w \in Seq(Frame), NEW v \in Seq(Frame),
           Talk(p, q, w, v), w # <<>>, w[1].type = "OFFER", p.sig # "offered"
    PROVE  Fits(p, w[1]) /\ Talk(Remote(p, w[1], "accept"), q, Tail(w), v)
<1>1. p \in PC /\ q \in PC
  BY DEF Talk
<1>2. Offering(q, p, v, w)
  <2>1. ~Asking(p)
    BY DEF Asking
  <2>2. ~InCall(p, q, w, v)
    BY <1>1, <2>1, HeadIs
  <2> QED BY <1>1, <2>1, <2>2, HeadIs DEF Talk
<1>3. /\ w[1] = Offer(q) /\ Fits(p, Offer(q))
      /\ InCall(q, Remote(p, Offer(q), "accept"), v, Tail(w))
  BY <1>1, <1>2, OfferTaken
<1>4. PICK r : r = Remote(p, Offer(q), "accept")
  OBVIOUS
<1>5. r \in PC
  <2>1. PICK d \in Descr : d = Offer(q) /\ d.sends \subseteq Among(d.lines)
    BY <1>1, OfferFacts
  <2>2. "accept" \in {"accept", "accept new"} /\ Fits(p, d) /\ r = Remote(p, d, "accept")
    BY <1>3, <1>4, <2>1
  <2> QED BY <1>1, <2>1, <2>2, RemoteFacts, ZenonT(30)
<1> QED BY <1>1, <1>3, <1>4, <1>5 DEF Talk

LEMMA TalkTakesAnswer ==
    ASSUME NEW p, WellMade(p), NEW q, WellMade(q), NEW w \in Seq(Frame), NEW v \in Seq(Frame),
           Talk(p, q, w, v), w # <<>>, w[1].type = "ANSWER"
    PROVE  /\ p.sig = "offered" /\ w[1].lines = p.local
           /\ Talk(Accepted(p, w[1]), q, Tail(w), v)
<1>1. p \in PC /\ q \in PC
  BY DEF Talk
<1>2. InCall(p, q, w, v)
  BY <1>1, HeadIs DEF Talk
<1>3. PICK r : r = Accepted(p, Answer(q))
  OBVIOUS
<1>4. /\ p.sig = "offered" /\ w[1] = Answer(q) /\ Answer(q).lines = p.local
      /\ InCall(r, q, Tail(w), v) \/ InCall(q, r, v, Tail(w))
  BY <1>1, <1>2, <1>3, AnswerTaken
<1>5. r \in PC
  <2>1. PICK d \in Descr : d = Answer(q) /\ d.sends \subseteq Among(d.lines)
    BY <1>1, AnswerFacts
  <2>2. d.lines = p.local /\ r = Accepted(p, d)
    BY <1>3, <1>4, <2>1
  <2> QED BY <1>1, <2>1, <2>2, AcceptedFacts
<1> QED BY <1>1, <1>3, <1>4, <1>5 DEF Talk

LEMMA TalkSendsAnswer ==
    ASSUME NEW p, WellMade(p), NEW q, WellMade(q), NEW w, NEW v, Talk(p, q, w, v),
           p.run \in {"accept", "accept new"}
    PROVE  /\ Carries(v, <<>>)
           /\ \A r \in PC, u \in Seq(Frame) :
                 LikeButTracks(r, Answered(p)) /\ Carries(u, <<Answer(r)>>) => Talk(r, q, w, u)
<1>1. p \in PC /\ q \in PC
  BY DEF Talk
<1>2. InCall(q, p, v, w)
  BY <1>1, AnswerSent DEF Talk
<1>3. Carries(v, <<>>)
  BY <1>1, <1>2, AnswerSent
<1>4. ASSUME NEW r \in PC, NEW u \in Seq(Frame),
             LikeButTracks(r, Answered(p)), Carries(u, <<Answer(r)>>)
      PROVE  Talk(r, q, w, u)
  <2>1. InCall(q, r, u, w)
    BY <1>1, <1>2, <1>4, AnswerSent
  <2> QED BY <1>1, <1>4, <2>1 DEF Talk
<1> QED BY <1>3, <1>4

LEMMA TalkBegins ==
    ASSUME NEW p, WellMade(p), NEW q, WellMade(q), NEW w, NEW v, Talk(p, q, w, v), Rest(p)
    PROVE  Talk(CreateOffer(p), q, w, v)
<1>1. p \in PC /\ q \in PC /\ CreateOffer(p) \in PC
  BY CreateOfferFacts DEF Talk
<1>2. InCall(p, q, w, v) => InCall(CreateOffer(p), q, w, v)
  BY <1>1, OfferBegun
<1>3. InCall(q, p, v, w) => InCall(q, CreateOffer(p), v, w)
  BY <1>1, OfferBegun
<1> QED BY <1>1, <1>2, <1>3 DEF Talk

LEMMA TalkSendsOffer ==
    ASSUME NEW p, WellMade(p), NEW q, WellMade(q), NEW w, NEW v, Talk(p, q, w, v),
           Making(p), NEW u, Extended(v, u, Offer(p))
    PROVE  Talk(OfferOut(p), q, w, u)
<1>1. p \in PC /\ q \in PC
  BY DEF Talk
<1>2. InCall(p, q, w, v) => InCall(OfferOut(p), q, w, u)
  BY <1>1, OfferSent
<1>3. InCall(q, p, v, w) => InCall(q, OfferOut(p), u, w) \/ InCall(OfferOut(p), q, w, u)
  BY <1>1, OfferSent
<1>4. OfferOut(p) \in PC
  BY <1>1, OfferOutFacts
<1> QED BY <1>1, <1>2, <1>3, <1>4 DEF Talk

LEMMA TalkGoesOn ==
    ASSUME NEW p, NEW q, NEW w, NEW v, Talk(p, q, w, v)
    PROVE  /\ p.role # "none" => p.remote = q.id
           /\ p.sig = "stable" /\ q.sig = "stable" => Agreed(p, q)
<1>1. p \in PC /\ q \in PC
  BY DEF Talk
<1>2. Agreed(q, p) => Agreed(p, q)
  BY <1>1, Turned
<1>3. InCall(p, q, w, v) => /\ p.role # "none" => p.remote = q.id
                            /\ p.sig = "stable" /\ q.sig = "stable" => Agreed(p, q)
  BY <1>1, NotLost
<1>4. InCall(q, p, v, w) => /\ p.role # "none" => p.remote = q.id
                            /\ p.sig = "stable" /\ q.sig = "stable" => Agreed(q, p)
  BY <1>1, NotLost
<1> QED BY <1>2, <1>3, <1>4 DEF Talk

-------------------------------------------------------------------------------
(* Every step keeps a call going, as long as both are there and nothing has gone wrong *)

Going == Fresh \/ Called \/ \E x \in Browser : Talking(x)

\* The call as z sees it.
Seen(z) == LET o == Other(z) IN Talk(pc[z], pc[o], wire[z], wire[o])

LEMMA GoingSeen ==
    ASSUME TypeOK, NEW z \in Browser
    PROVE  /\ Seen(z) => \E x \in Browser : Talking(x)
           /\ (\E x \in Browser : Talking(x)) => Seen(z)
<1>1. /\ Other(z) \in Browser /\ Other(Other(z)) = z /\ \A x \in Browser : x = z \/ x = Other(z)
      /\ \A x \in Browser : pc[x] # NoPC <=> pc[x] \in PC
  BY OtherFacts, NoPCFields, Types
<1>2. ASSUME Seen(z) PROVE Talking(z) \/ Talking(Other(z))
  BY <1>1, <1>2 DEF Seen, Talk, Talking
<1>3. ASSUME NEW x \in Browser, Talking(x) PROVE Seen(z)
  BY <1>1, <1>3 DEF Seen, Talk, Talking
<1> QED BY <1>1, <1>2, <1>3

\* How it goes on is known when the one that acts sees it.
LEMMA GoesOnSeen ==
    ASSUME TypeOK', NEW z \in Browser, Seen(z)'
    PROVE  Going'
<1>1. /\ Other(z) \in Browser /\ Other(Other(z)) = z
      /\ \A x \in Browser : pc'[x] # NoPC <=> pc'[x] \in PC
  BY OtherFacts, NoPCFields DEF TypeOK
<1>2. Talking(z)' \/ Talking(Other(z))'
  BY <1>1 DEF Seen, Talk, Talking
<1> QED BY <1>1, <1>2 DEF Going

\* Nobody has an entry before "b" is known.
LEMMA FreshFacts ==
    ASSUME IInv, Fresh
    PROVE  /\ \A x \in Browser : ~peer[x] /\ pc[x] = NoPC
           /\ \A x \in Browser : wire[x] # <<>> => x = "a" /\ wire[x][1].type = "JOIN"
<1>1. Len(wire["a"]) \in Nat /\ 1 \in 1..Len(wire["a"])
  BY TailFacts, Types DEF IInv, Fresh, Browser
<1>2. ~peer["a"]
  BY <1>1 DEF IInv, Frames, Fresh, Browser
<1> QED BY <1>2 DEF Fresh, Browser

\* Frames about media leave the descriptions on the way alone.
LEMMA DeviceWires ==
    ASSUME IInv, NEW x \in Browser, NEW k \in Kind,
           SwitchOn(x, k) \/ SwitchOff(x, k) \/ GotMedia(x, k) \/ NoMedia(x, k)
    PROVE  /\ \A y \in Browser : Alike(wire[y], wire'[y])
           /\ wire' \in [Browser -> Seq(Frame)] /\ peer' = peer
           /\ ~peer[x] => wire' = wire
<1>1. \A y \in Browser : wire[y] \in Seq(Frame) /\ Alike(wire[y], wire[y])
  BY Types, AlikeFacts DEF IInv
<1>2. wire \in [Browser -> Seq(Frame)] /\ \A y \in Browser : y = x \/ y = Other(x)
  BY OtherFacts DEF IInv, TypeOK
<1>3. ASSUME NEW v \in BOOLEAN, SetTrackEnabled(x, k, v)
      PROVE  /\ \A y \in Browser : Alike(wire[y], wire'[y])
             /\ wire' \in [Browser -> Seq(Frame)]
             /\ ~peer[x] => wire' = wire
  <2>1. /\ wire' \in [Browser -> Seq(Frame)] /\ wire'[x] = wire[x]
        /\ \/ wire'[Other(x)] = wire[Other(x)]
           \/ wire'[Other(x)] = wire[Other(x)] \o <<Media(k, v)>>
    BY <1>3, SetTrackFacts
  <2>2. PICK f \in Frame : f = Media(k, v) /\ f.type = "MEDIA"
    BY MediaFrames
  <2>3. <<f>> \in Seq(Frame) /\ \A i \in 1..Len(<<f>>) : ~IsDescr(<<f>>[i])
    BY <2>2 DEF IsDescr
  <2>4. Alike(wire[Other(x)], wire[Other(x)] \o <<f>>)
    BY <1>1, <2>3, OtherFacts, AlikeFacts
  <2>5. ~peer[x] => wire' = wire
    BY <1>3 DEF SetTrackEnabled
  <2> QED BY <1>1, <1>2, <2>1, <2>2, <2>4, <2>5
<1>4. CASE UNCHANGED <<on, wire>>
  BY <1>1, <1>2, <1>4 DEF SwitchOn, SwitchOff, GotMedia, NoMedia
<1>5. CASE SetTrackEnabled(x, k, TRUE) \/ SetTrackEnabled(x, k, FALSE)
  BY <1>3, <1>5 DEF SwitchOn, SwitchOff, GotMedia, NoMedia
<1> QED BY <1>4, <1>5 DEF SwitchOn, SwitchOff, GotMedia, NoMedia

\* Switching what is there, and a new track, change nothing of a call.
LEMMA DeviceGoes ==
    ASSUME IInv, IInv', Going, NEW x \in Browser, NEW k \in Kind,
           SwitchOn(x, k) \/ SwitchOff(x, k) \/ GotMedia(x, k) \/ NoMedia(x, k)
    PROVE  Going'
<1> DEFINE o == Other(x)
<1>1. /\ \A y \in Browser : Alike(wire[y], wire'[y])
      /\ wire' \in [Browser -> Seq(Frame)] /\ peer' = peer
      /\ ~peer[x] => wire' = wire
  BY DeviceWires
<1>2. /\ o \in Browser /\ o # x /\ x \in {"a", "b"} /\ (x = "a" => o = "b") /\ (x = "b" => o = "a")
      /\ \A y \in Browser : wire[y] \in Seq(Frame) /\ wire'[y] \in Seq(Frame)
      /\ \A y \in Browser : pc[y] # NoPC => pc[y] \in PC /\ WellMade(pc[y])
      /\ \A y \in Browser : pc[y] \in PC => WellMade(pc[y]) /\ pc[y] # NoPC
      /\ "a" \in Browser /\ "b" \in Browser
  BY <1>1, OtherFacts, NoPCFields, Types DEF Browser, Other, IInv, Parts
<1>3. /\ pc'[o] = pc[o] /\ (pc[x] = NoPC => pc'[x] = NoPC)
      /\ pc[x] # NoPC => pc'[x] \in PC /\ LikeButTracks(pc'[x], pc[x])
  <2>1. pc \in [Browser -> PC \cup {NoPC}]
    BY DEF IInv, TypeOK
  <2>2. CASE pc' = pc
    BY <1>2, <2>2 DEF LikeButTracks, SameNegotiated
  <2>3. CASE pc[x] # NoPC /\ pc' = [pc EXCEPT ![x] = AddTracks(@, <<FirstTrack(k)>>)]
    <3>1. PICK t \in Track : t = FirstTrack(k)
      BY DEF FirstTrack, Track
    <3>2. pc'[x] = AddTracks(pc[x], <<t>>) /\ pc'[o] = pc[o]
      BY <1>2, <2>1, <2>3, <3>1
    <3>3. <<t>> \in Lines
      BY ShortLines
    <3>4. PICK p \in PC : p = pc[x] /\ WellMade(p)
      BY <1>2, <2>3
    <3>5. PICK r : r = AddTracks(p, <<t>>)
      OBVIOUS
    <3>6. r \in PC /\ SameNegotiated(r, p) /\ r.run = p.run /\ r.local = p.local /\ r.offers = p.offers
      BY <3>3, <3>4, <3>5, AddTracksFacts
    <3> QED BY <2>3, <3>2, <3>4, <3>5, <3>6 DEF LikeButTracks
  <2> QED BY <2>2, <2>3 DEF SwitchOn, SwitchOff, GotMedia, NoMedia
<1> HIDE DEF o
<1>4. CASE Fresh
  <2>1. wire' = wire /\ pc[x] = NoPC /\ pc[o] = NoPC
    BY <1>1, <1>2, <1>4, FreshFacts
  <2> QED BY <1>1, <1>2, <1>3, <1>4, <2>1 DEF Going, Fresh
<1>5. CASE Called
  <2>1. /\ pc["a"] \in PC /\ WellMade(pc["a"]) /\ pc["b"] = NoPC
        /\ First(pc["a"], wire["a"], wire["b"])
    BY <1>2, <1>5 DEF Called
  <2>2. First(pc["a"], wire'["a"], wire'["b"])
    BY <1>1, <1>2, <2>1, FirstFacts
  <2>3. CASE x = "a"
    <3>1. First(pc'["a"], wire'["a"], wire'["b"])
      BY <1>2, <1>3, <2>1, <2>2, <2>3, FirstFacts
    <3> QED BY <1>2, <1>3, <2>1, <2>3, <3>1, NoPCFields DEF Going, Called
  <2>4. CASE x = "b"
    BY <1>2, <1>3, <2>1, <2>2, <2>4, NoPCFields DEF Going, Called
  <2> QED BY <1>2, <2>3, <2>4
<1>6. CASE \E y \in Browser : Talking(y)
  <2>1. Talk(pc[x], pc[o], wire[x], wire[o])
    BY <1>6, GoingSeen DEF IInv, Seen, o
  <2>2. pc[x] \in PC /\ pc[o] \in PC
    BY <2>1 DEF Talk
  <2>3. Talk(pc[x], pc[o], wire'[x], wire'[o])
    BY <1>1, <1>2, <2>1, <2>2, TalkAlike
  <2>4. Talk(pc'[x], pc[o], wire'[x], wire'[o])
    BY <1>2, <1>3, <2>2, <2>3, TalkTrack
  <2>5. Seen(x)'
    BY <1>3, <2>4 DEF Seen, o
  <2> QED BY <2>5, GoesOnSeen DEF IInv
<1> QED BY <1>4, <1>5, <1>6 DEF Going

\* What is known of both sides.
LEMMA BothSides ==
    ASSUME IInv, NEW x \in Browser
    PROVE  /\ Other(x) \in Browser /\ Other(x) # x
           /\ (x = "a" /\ Other(x) = "b") \/ (x = "b" /\ Other(x) = "a")
           /\ \A y \in Browser : wire[y] \in Seq(Frame) /\ Alike(wire[y], wire[y])
           /\ \A y \in Browser : pc[y] # NoPC => pc[y] \in PC /\ WellMade(pc[y])
           /\ \A y \in Browser : pc[y] \in PC => WellMade(pc[y]) /\ pc[y] # NoPC
           /\ "a" \in Browser /\ "b" \in Browser
BY OtherFacts, NoPCFields, Types, AlikeFacts DEF Browser, Other, IInv, Parts

LEMMA TakeMediaGoes ==
    ASSUME IInv, IInv', Going, NEW x \in Browser, TakeMedia(x)
    PROVE  Going'
<1> DEFINE o == Other(x)
<1>1. /\ wire[x] # <<>> /\ Head(wire[x]).type = "MEDIA" /\ wire' = Taken(x)
      /\ pc' = pc
  BY DEF TakeMedia, Next1
<1>2. /\ wire' \in [Browser -> Seq(Frame)] /\ wire'[x] = Tail(wire[x]) /\ wire'[o] = wire[o]
      /\ wire[x][1].type = "MEDIA"
  BY <1>1, TakenFacts DEF IInv
<1>3. \A y \in Browser : Alike(wire[y], wire'[y]) /\ wire'[y] \in Seq(Frame)
  <2>1. Alike(wire[x], Tail(wire[x]))
    BY <1>1, <1>2, BothSides, AlikeFacts DEF IsDescr
  <2>2. Alike(wire[o], wire[o]) /\ \A y \in Browser : y = x \/ y = o
    BY BothSides, OtherFacts
  <2> QED BY <1>2, <2>1, <2>2
<1>4. CASE Fresh
  BY <1>1, <1>2, <1>4, FreshFacts
<1>5. CASE Called
  <2>1. First(pc["a"], wire'["a"], wire'["b"])
    BY <1>3, <1>5, BothSides, FirstFacts DEF Called
  <2> QED BY <1>1, <1>5, <2>1 DEF Going, Called
<1>6. CASE \E y \in Browser : Talking(y)
  <2>1. Talk(pc[x], pc[o], wire[x], wire[o])
    BY <1>6, GoingSeen DEF IInv, Seen
  <2>2. pc[x] \in PC /\ pc[o] \in PC
    BY <2>1 DEF Talk
  <2>3. Talk(pc[x], pc[o], wire'[x], wire'[o])
    BY <1>3, <2>1, <2>2, BothSides, TalkAlike
  <2>4. Seen(x)'
    BY <1>1, <2>3 DEF Seen
  <2> QED BY <2>4, GoesOnSeen DEF IInv
<1> QED BY <1>4, <1>5, <1>6 DEF Going

LEMMA TakeJoinGoes ==
    ASSUME IInv, IInv', Going, inRoom = Browser, NEW x \in Browser, TakeJoin(x)
    PROVE  Going'
<1>1. /\ wire[x] # <<>> /\ Head(wire[x]).type = "JOIN"
      /\ wire' = [Taken(x) EXCEPT ![Other(x)] =
                     IF Other(x) \in inRoom /\ ~peer[x] THEN @ \o MediaState(x) ELSE @]
  BY DEF TakeJoin, Next1
<1>2. /\ Taken(x) \in [Browser -> Seq(Frame)] /\ Taken(x)[x] = Tail(wire[x])
      /\ Taken(x)[Other(x)] = wire[Other(x)]
      /\ Head(wire[x]) = wire[x][1] /\ 1 \in 1..Len(wire[x])
  BY <1>1, Before, TakenFacts
<1>3. x = "a" /\ Other(x) = "b" /\ made[x] = 0 /\ ~peer[x] /\ pc[x] = NoPC
  <2>1. wire[x][1].type = "JOIN"
    BY <1>1, <1>2
  <2>2. x = "a" /\ made[x] = 0 /\ ~peer[x]
    BY <1>2, <2>1 DEF IInv, Frames
  <2>3. pc[x] = NoPC
    BY <2>2 DEF IInv, TypeOK
  <2> QED BY <2>2, <2>3 DEF Other
<1>4. Fresh
  <2>1. ~Called
    BY <1>3 DEF Called
  <2>2. ~Seen(x)
    BY <1>3, NoPCFields DEF Seen, Talk
  <2> QED BY <2>1, <2>2, GoingSeen DEF Going, IInv
<1>5. /\ wire["b"] = <<>> /\ pc["b"] = NoPC /\ Carries(wire["a"], <<>>)
  BY <1>4 DEF Fresh
<1>6. MediaState(x) \in Seq(Frame) /\ \A i \in 1..Len(MediaState(x)) : ~IsDescr(MediaState(x)[i])
  BY MediaFrames DEF IInv, IsDescr
<1>7. wire'["a"] = Tail(wire["a"]) /\ wire'["b"] = <<>> \o MediaState(x)
  BY <1>1, <1>2, <1>3, <1>5, OtherFacts
<1>8. Carries(wire'["a"], <<>>)
  <2>1. ~IsDescr(wire["a"][1])
    BY <1>1, <1>2, <1>3 DEF IsDescr
  <2> QED BY <1>1, <1>3, <1>5, <1>7, <2>1, BothSides, ShortOnes, CarriesPassed
<1>9. Carries(wire'["b"], <<>>)
  <2>1. PICK fs \in Seq(Frame) : fs = MediaState(x) /\ \A i \in 1..Len(fs) : ~IsDescr(fs[i])
    BY <1>6
  <2>2. <<>> \in Seq(Frame) /\ Carries(<<>>, <<>>)
    BY ShortOnes, CarriesNothing
  <2>3. Carries(<<>> \o fs, <<>>)
    BY <2>1, <2>2, CarriesMore
  <2> QED BY <1>7, <2>1, <2>3
<1>10. pc' = [pc EXCEPT ![x] = CreateOffer(AddTracks(NewPC(1), live[x]))]
  <2>1. /\ made' = [made EXCEPT ![x] = @ + 1]
        /\ pc' = [pc EXCEPT ![x] = CreateOffer(AddTracks(NewPC(made'[x]), live[x]))]
    BY <1>3 DEF TakeJoin
  <2>2. made'[x] = 1
    BY <1>3, <2>1, Before
  <2> QED BY <2>1, <2>2
<1>11. PICK t : t = AddTracks(NewPC(1), live[x])
  OBVIOUS
<1>12. t \in PC /\ WellMade(t) /\ t.lines = <<>> /\ t.role = "none" /\ t.sig = "stable"
  <2>1. 1 \in 1..MaxPC
    BY CallAssumption
  <2>2. PICK n \in PC : /\ n = NewPC(1) /\ WellMade(n) /\ n.lines = <<>>
                        /\ n.role = "none" /\ n.sig = "stable"
    BY <2>1, NewPCFacts
  <2>3. live[x] \in Lines
    BY Before
  <2>4. t \in PC /\ WellMade(t) /\ SameNegotiated(t, n)
    BY <1>11, <2>2, <2>3, AddTracksFacts
  <2> QED BY <2>2, <2>4 DEF SameNegotiated
<1>13. PICK r : r = CreateOffer(t)
  OBVIOUS
<1>14. r \in PC /\ r.lines = <<>> /\ r.role = "none" /\ Making(r) /\ r # NoPC
  <2>1. r \in PC /\ SameNegotiated(r, t) /\ r.run = "offer"
    BY <1>12, <1>13, CreateOfferFacts
  <2> QED BY <1>12, <2>1, NoPCFields DEF SameNegotiated, Making
<1>15. pc'["a"] = r /\ pc'["b"] = NoPC
  BY <1>3, <1>5, <1>10, <1>11, <1>13, Before
<1>16. First(r, wire'["a"], wire'["b"])
  BY <1>8, <1>9, <1>14 DEF First
<1> QED BY <1>1, <1>14, <1>15, <1>16 DEF Going, Called

LEMMA TakeOfferGoes ==
    ASSUME IInv, IInv', Going, NEW x \in Browser, TakeOffer(x), mishaps' = {}
    PROVE  Going'
<1> DEFINE o == Other(x)
           d == Head(wire[x])
<1>1. /\ wire[x] # <<>> /\ d.type = "OFFER" /\ wire' = Taken(x)
      /\ IF pc[x] # NoPC /\ Fits(pc[x], d)
         THEN pc' = [pc EXCEPT ![x] = Remote(@, d, "accept")]
         ELSE /\ made[x] < MaxPC /\ made' = [made EXCEPT ![x] = @ + 1]
              /\ pc' = [pc EXCEPT ![x] = Remote(NewPC(made'[x]), d, "accept new")]
  BY DEF TakeOffer, Next1
<1>2. /\ wire'[x] = Tail(wire[x]) /\ wire'[o] = wire[o] /\ d = wire[x][1]
  BY <1>1, TakenFacts DEF IInv
<1>3. wire[x][1].type = "OFFER"
  BY <1>1, <1>2
<1>4. CASE Fresh
  BY <1>1, <1>3, <1>4, FreshFacts
<1>5. CASE Called
  <2>1. /\ pc["a"] \in PC /\ WellMade(pc["a"]) /\ pc["b"] = NoPC
        /\ First(pc["a"], wire["a"], wire["b"])
    BY <1>5, BothSides DEF Called
  <2>2. x = "b" /\ o = "a"
    BY <1>1, <1>3, <2>1, BothSides, FirstFacts DEF IsDescr
  <2>3. PICK n \in 1..MaxPC : pc' = [pc EXCEPT ![x] = Remote(NewPC(n), d, "accept new")]
    <3>1. PICK m : m = made[x]
      OBVIOUS
    <3>2. /\ m < MaxPC /\ made' = [made EXCEPT ![x] = m + 1]
          /\ pc' = [pc EXCEPT ![x] = Remote(NewPC(made'[x]), d, "accept new")]
      BY <1>1, <2>1, <2>2, <3>1
    <3>3. m \in 0..MaxPC /\ MaxPC \in Nat
      BY <3>1, Before, CallAssumption
    <3>4. m + 1 \in 1..MaxPC
      <4>1. m < MaxPC
        BY <3>2
      <4> QED BY <3>3, <4>1
    <3>5. made'[x] = m + 1
      BY <3>2, Before
    <3> QED BY <3>2, <3>4, <3>5
  <2> HIDE DEF d
  <2>4. PICK r : r = Remote(NewPC(n), d, "accept new")
    OBVIOUS
  <2>5. /\ d = Offer(pc["a"])
        /\ InCall(pc["a"], r, wire["a"], Tail(wire["b"]))
    <3>1. /\ wire["a"] \in Seq(Frame) /\ wire["b"] \in Seq(Frame) /\ wire["b"] # <<>>
          /\ wire["b"][1].type = "OFFER" /\ d = wire["b"][1]
      BY <1>1, <1>2, <1>3, <2>2, BothSides
    <3>2. /\ wire["b"][1] = Offer(pc["a"])
          /\ InCall(pc["a"], Remote(NewPC(n), Offer(pc["a"]), "accept new"), wire["a"], Tail(wire["b"]))
      BY <2>1, <3>1, FirstTaken
    <3> QED BY <2>4, <3>1, <3>2
  <2>6. r \in PC
    <3>1. PICK f \in Descr : f = d /\ f.sends \subseteq Among(f.lines)
      BY <2>1, <2>5, OfferFacts
    <3>2. PICK m \in PC : m = NewPC(n) /\ WellMade(m) /\ m.lines = <<>>
      BY NewPCFacts
    <3>3. Fits(m, f)
      <4>1. f.lines \in Lines
        BY DEF Descr
      <4> QED BY <3>2, <4>1, NothingFitsAll DEF Fits
    <3>4. "accept new" \in {"accept", "accept new"} /\ r = Remote(m, f, "accept new") /\ WellMade(m)
          /\ f.sends \subseteq Among(f.lines)
      BY <2>4, <3>1, <3>2
    <3> QED BY <3>2, <3>3, <3>4, RemoteFacts, ZenonT(30)
  <2>8. pc'["b"] = r /\ pc'["a"] = pc["a"]
    <3>1. pc' = [pc EXCEPT !["b"] = r] /\ pc \in [Browser -> PC \cup {NoPC}]
      BY <2>2, <2>3, <2>4, Before
    <3> QED BY <3>1, BothSides
  <2>9. Talk(r, pc["a"], Tail(wire["b"]), wire["a"])
    BY <2>1, <2>5, <2>6 DEF Talk
  <2>10. Seen(x)'
    BY <1>1, <1>2, <2>2, <2>8, <2>9 DEF Seen
  <2> QED BY <2>10, GoesOnSeen DEF IInv
<1>6. CASE \E y \in Browser : Talking(y)
  <2>1. Talk(pc[x], pc[o], wire[x], wire[o])
    BY <1>6, GoingSeen DEF IInv, Seen
  <2>2. pc[x] \in PC /\ pc[o] \in PC
    BY <2>1 DEF Talk
  <2>6. pc[x].sig # "offered"
    <3>1. Crossing(x) = {}
      BY DEF TakeOffer
    <3> QED BY <2>2, <3>1, NoPCFields DEF Crossing
  <2>3. /\ Fits(pc[x], wire[x][1])
        /\ Talk(Remote(pc[x], wire[x][1], "accept"), pc[o], Tail(wire[x]), wire[o])
    BY <1>1, <1>3, <2>1, <2>2, <2>6, BothSides, TalkTakesOffer
  <2>4. pc'[x] = Remote(pc[x], wire[x][1], "accept") /\ pc'[o] = pc[o]
    <3>1. pc[x] # NoPC /\ Fits(pc[x], d)
      BY <1>2, <2>2, <2>3, NoPCFields
    <3>2. pc' = [pc EXCEPT ![x] = Remote(pc[x], d, "accept")]
      BY <1>1, <3>1
    <3>3. pc \in [Browser -> PC \cup {NoPC}] /\ o # x /\ o \in Browser
      BY Before, BothSides
    <3> QED BY <1>2, <3>2, <3>3
  <2>5. Seen(x)'
    BY <1>1, <1>2, <2>3, <2>4 DEF Seen
  <2> QED BY <2>5, GoesOnSeen DEF IInv
<1> QED BY <1>4, <1>5, <1>6 DEF Going

LEMMA HandleAnswerGoes ==
    ASSUME IInv, IInv', Going, NEW x \in Browser, HandleAnswer(x)
    PROVE  Going'
<1> DEFINE o == Other(x)
           d == Head(wire[x])
<1>1. /\ wire[x] # <<>> /\ d.type = "ANSWER" /\ wire' = Taken(x)
      /\ pc' = IF pc[x] # NoPC /\ pc[x].sig = "offered" /\ d.lines = pc[x].local
               THEN [pc EXCEPT ![x] = Accepted(@, d)] ELSE pc
  BY DEF HandleAnswer, Next1
<1>2. /\ wire'[x] = Tail(wire[x]) /\ wire'[o] = wire[o] /\ d = wire[x][1]
  BY <1>1, TakenFacts DEF IInv
<1>3. wire[x][1].type = "ANSWER"
  BY <1>1, <1>2
<1>4. CASE Fresh
  BY <1>1, <1>3, <1>4, FreshFacts
<1>5. CASE Called
  <2>1. /\ pc["a"] \in PC /\ WellMade(pc["a"])
        /\ First(pc["a"], wire["a"], wire["b"])
    BY <1>5, BothSides DEF Called
  <2>2. wire["a"] \in Seq(Frame) /\ wire["b"] \in Seq(Frame)
    BY BothSides
  <2>3. /\ wire["a"] # <<>> => ~IsDescr(wire["a"][1])
        /\ wire["b"] # <<>> => wire["b"][1].type # "ANSWER"
    BY <2>1, <2>2, FirstFacts
  <2>4. wire["a"] # <<>> => wire["a"][1].type # "ANSWER"
    BY <2>3 DEF IsDescr
  <2> QED BY <1>1, <1>3, <2>3, <2>4, BothSides
<1>6. CASE \E y \in Browser : Talking(y)
  <2>1. Talk(pc[x], pc[o], wire[x], wire[o])
    BY <1>6, GoingSeen DEF IInv, Seen
  <2>2. pc[x] \in PC /\ pc[o] \in PC
    BY <2>1 DEF Talk
  <2>3. /\ pc[x].sig = "offered" /\ wire[x][1].lines = pc[x].local
        /\ Talk(Accepted(pc[x], wire[x][1]), pc[o], Tail(wire[x]), wire[o])
    BY <1>1, <1>3, <2>1, <2>2, BothSides, TalkTakesAnswer
  <2>4. pc'[x] = Accepted(pc[x], wire[x][1]) /\ pc'[o] = pc[o]
    <3>1. pc[x] # NoPC /\ pc[x].sig = "offered" /\ d.lines = pc[x].local
      BY <1>2, <2>2, <2>3, NoPCFields
    <3>2. pc' = [pc EXCEPT ![x] = Accepted(pc[x], d)]
      BY <1>1, <3>1
    <3>3. pc \in [Browser -> PC \cup {NoPC}] /\ o # x /\ o \in Browser
      BY Before, BothSides
    <3> QED BY <1>2, <3>2, <3>3
  <2>5. Seen(x)'
    BY <1>1, <1>2, <2>3, <2>4 DEF Seen
  <2> QED BY <2>5, GoesOnSeen DEF IInv
<1> QED BY <1>4, <1>5, <1>6 DEF Going

\* Whoever does something with its connection has called, or is in a call.
LEMMA WhoActs ==
    ASSUME IInv, Going, NEW x \in Browser, pc[x] # NoPC
    PROVE  \/ /\ x = "a" /\ pc["b"] = NoPC /\ Called
              /\ pc["a"] \in PC /\ WellMade(pc["a"])
              /\ First(pc["a"], wire["a"], wire["b"])
           \/ /\ Seen(x) /\ pc[x] \in PC /\ WellMade(pc[x])
              /\ pc[Other(x)] \in PC /\ WellMade(pc[Other(x)])
<1>1. ~Fresh
  BY FreshFacts
<1>2. CASE Called
  BY <1>2, BothSides DEF Called
<1>3. CASE \E y \in Browser : Talking(y)
  <2>1. Seen(x)
    BY <1>3, GoingSeen DEF IInv
  <2>2. pc[x] \in PC /\ pc[Other(x)] \in PC
    BY <2>1 DEF Seen, Talk
  <2> QED BY <2>1, <2>2, BothSides
<1> QED BY <1>1, <1>2, <1>3 DEF Going

LEMMA SendAnswerGoes ==
    ASSUME IInv, IInv', Going, inRoom = Browser, NEW x \in Browser, SendAnswer(x)
    PROVE  Going'
<1> DEFINE o == Other(x)
<1>1. /\ pc[x].run \in {"accept", "accept new"}
      /\ pc[x] # NoPC
  BY NoPCFields DEF SendAnswer
<1>2. /\ pc[x] \in PC /\ WellMade(pc[x]) /\ pc[o] \in PC /\ WellMade(pc[o])
      /\ Talk(pc[x], pc[o], wire[x], wire[o])
  <2>1. ~(pc["a"].run \in {"none", "offer"} /\ x = "a")
    BY <1>1
  <2> QED BY <1>1, <2>1, WhoActs, BothSides, FirstFacts DEF Seen
<1>3. PICK p \in PC : p = Answered(pc[x]) /\ WellMade(p)
  BY <1>2, AnsweredFacts
<1>4. live[x] \in Lines
  BY Before
<1>5. PICK r : r = IF pc[x].run = "accept new" THEN AddTracks(p, live[x]) ELSE p
  OBVIOUS
<1>6. r \in PC /\ WellMade(r) /\ LikeButTracks(r, p)
  <2>2. CASE pc[x].run = "accept new"
    <3>1. r = AddTracks(p, live[x])
      BY <1>5, <2>2
    <3>2. /\ r \in PC /\ WellMade(r) /\ SameNegotiated(r, p)
          /\ r.run = p.run /\ r.local = p.local /\ r.offers = p.offers
      BY <1>3, <1>4, <3>1, AddTracksFacts
    <3> QED BY <3>2 DEF LikeButTracks
  <2>3. CASE pc[x].run # "accept new"
    BY <1>3, <1>5, <2>3 DEF LikeButTracks, SameNegotiated
  <2> QED BY <2>2, <2>3
<1>7. /\ pc' = [pc EXCEPT ![x] = r]
      /\ wire' = Sent(x, IF pc[x].run = "accept new" THEN <<Answer(p)>> \o MediaState(x)
                         ELSE <<Answer(p)>>)
  BY <1>3, <1>5 DEF SendAnswer, Answer
<1>8. PICK f \in Frame : f = Answer(p) /\ f = Answer(r) /\ IsDescr(f)
  <2>1. Answer(r) = Answer(p)
    BY <1>6 DEF LikeButTracks, SameNegotiated, Answer, Description
  <2> QED BY <1>3, <2>1, AnswerFacts
<1>9. Carries(wire[o], <<>>)
  BY <1>1, <1>2, TalkSendsAnswer
<1>10. wire[o] \in Seq(Frame) /\ wire[o] \o <<f>> \in Seq(Frame) /\ Carries(wire[o] \o <<f>>, <<f>>)
  <2>1. wire[o] \in Seq(Frame) /\ <<f>> \in Seq(Frame) /\ <<>> \in Seq(Frame) /\ <<>> \o <<f>> = <<f>>
    BY BothSides, ShortOnes
  <2>2. Carries(wire[o] \o <<f>>, <<>> \o <<f>>)
    BY <1>8, <1>9, <2>1, CarriesSent
  <2> QED BY <2>1, <2>2, ConcatProperties
<1>11. wire'[x] = wire[x] /\ wire'[o] \in Seq(Frame) /\ Carries(wire'[o], <<f>>)
  <2>1. PICK m \in Seq(Frame) : m = MediaState(x) /\ \A i \in 1..Len(m) : ~IsDescr(m[i])
    BY MediaFrames DEF IInv, IsDescr
  <2>2. <<f>> \in Seq(Frame) /\ <<f>> \o m \in Seq(Frame)
    BY <2>1, ShortOnes, ConcatProperties
  <2>3. CASE pc[x].run = "accept new"
    <3>1. wire' = Sent(x, <<f>> \o m)
      BY <1>7, <1>8, <2>1, <2>3
    <3>2. wire'[x] = wire[x] /\ wire'[o] = wire[o] \o (<<f>> \o m)
      BY <2>2, <3>1, SentFacts, BothSides DEF IInv
    <3>3. wire[o] \o (<<f>> \o m) = (wire[o] \o <<f>>) \o m
      <4>1. wire[o] \in Seq(Frame) /\ <<f>> \in Seq(Frame) /\ m \in Seq(Frame)
        BY <1>10, <2>1, <2>2
      <4>2. \A s, u, v \in Seq(Frame) : (s \o u) \o v = s \o (u \o v)
        BY ConcatAssociative
      <4> QED BY <4>1, <4>2
    <3>4. Carries((wire[o] \o <<f>>) \o m, <<f>>)
      BY <1>10, <2>1, <2>2, CarriesMore
    <3>5. (wire[o] \o <<f>>) \o m \in Seq(Frame)
      BY <1>10, <2>1, ConcatProperties
    <3> QED BY <3>2, <3>3, <3>4, <3>5
  <2>4. CASE pc[x].run # "accept new"
    <3>1. wire' = Sent(x, <<f>>)
      BY <1>7, <1>8, <2>4
    <3>2. wire'[x] = wire[x] /\ wire'[o] = wire[o] \o <<f>>
      BY <2>2, <3>1, SentFacts, BothSides DEF IInv
    <3> QED BY <1>10, <3>2
  <2> QED BY <2>3, <2>4
<1>12. pc'[x] = r /\ pc'[o] = pc[o]
  <2>1. pc \in [Browser -> PC \cup {NoPC}] /\ o # x /\ o \in Browser
    BY Before, BothSides
  <2> QED BY <1>7, <2>1
<1> HIDE DEF o
<1>13. Talk(r, pc[o], wire[x], wire'[o])
  <2>1. PICK u \in Seq(Frame) : u = wire'[o] /\ Carries(u, <<Answer(r)>>)
    BY <1>8, <1>11
  <2>2. LikeButTracks(r, Answered(pc[x]))
    BY <1>3, <1>6
  <2>3. Talk(r, pc[o], wire[x], u)
    BY <1>1, <1>2, <1>6, <2>1, <2>2, TalkSendsAnswer
  <2> QED BY <2>1, <2>3
<1>14. Seen(x)'
  BY <1>1, <1>11, <1>12, <1>13 DEF Seen, o
<1> QED BY <1>14, GoesOnSeen DEF IInv

LEMMA NegotiateGoes ==
    ASSUME IInv, IInv', Going, NEW x \in Browser, Negotiate(x)
    PROVE  Going'
<1> DEFINE o == Other(x)
<1>1. /\ pc[x] # NoPC /\ Rest(pc[x]) /\ wire' = wire
      /\ pc' = [pc EXCEPT ![x] = CreateOffer(pc[x])]
  BY DEF Negotiate, Rest
<1>2. /\ pc[x] \in PC /\ WellMade(pc[x]) /\ pc[o] \in PC /\ WellMade(pc[o])
      /\ Talk(pc[x], pc[o], wire[x], wire[o])
  BY <1>1, WhoActs, BothSides, FirstFacts DEF Seen
<1>3. Talk(CreateOffer(pc[x]), pc[o], wire[x], wire[o])
  BY <1>1, <1>2, TalkBegins
<1>4. pc'[x] = CreateOffer(pc[x]) /\ pc'[o] = pc[o]
  <2>1. pc \in [Browser -> PC \cup {NoPC}] /\ o # x /\ o \in Browser
    BY Before, BothSides
  <2> QED BY <1>1, <2>1
<1>5. Seen(x)'
  BY <1>1, <1>3, <1>4 DEF Seen
<1> QED BY <1>5, GoesOnSeen DEF IInv

LEMMA SendOfferGoes ==
    ASSUME IInv, IInv', Going, inRoom = Browser, NEW x \in Browser, SendOffer(x)
    PROVE  Going'
<1> DEFINE o == Other(x)
<1>1. /\ pc[x] # NoPC /\ Making(pc[x])
      /\ wire' = Sent(x, <<Offer(pc[x])>>)
      /\ pc' = [pc EXCEPT ![x].sig = "offered", ![x].run = "none"]
  BY NoPCFields DEF SendOffer, Making, Offer
<1>2. pc[x] \in PC /\ WellMade(pc[x]) /\ pc \in [Browser -> PC \cup {NoPC}] /\ o # x /\ o \in Browser
  BY <1>1, Before, BothSides
<1>3. pc' = [pc EXCEPT ![x] = OfferOut(pc[x])]
  BY <1>1, <1>2 DEF OfferOut
<1>4. pc'[x] = OfferOut(pc[x]) /\ pc'[o] = pc[o]
  BY <1>2, <1>3
<1>5. PICK f \in Frame : f = Offer(pc[x]) /\ IsDescr(f)
  BY <1>2, OfferFacts
<1>6. <<f>> \in Seq(Frame) /\ wire[o] \in Seq(Frame)
  BY ShortOnes, BothSides
<1>7. wire'[x] = wire[x] /\ wire'[o] = wire[o] \o <<f>>
  BY <1>1, <1>5, <1>6, SentFacts, BothSides DEF IInv
<1>8. Extended(wire[o], wire'[o], Offer(pc[x]))
  BY <1>5, <1>6, <1>7, CarriesSent DEF Extended
<1> HIDE DEF o
<1>9. CASE /\ x = "a" /\ pc["b"] = NoPC
           /\ pc["a"] \in PC /\ WellMade(pc["a"])
           /\ First(pc["a"], wire["a"], wire["b"])
  <2>1. x = "a" /\ o = "b"
    BY <1>9 DEF Other, o
  <2>2. First(OfferOut(pc["a"]), wire["a"], wire'["b"])
    BY <1>1, <1>8, <1>9, <2>1, BothSides, FirstFacts
  <2>3. OfferOut(pc["a"]) \in PC
    BY <1>1, <1>9, <2>1, OfferOutFacts
  <2> QED BY <1>4, <1>7, <1>9, <2>1, <2>2, <2>3, NoPCFields DEF Going, Called
<1>10. CASE Seen(x) /\ pc[o] \in PC /\ WellMade(pc[o])
  <2>1. Talk(OfferOut(pc[x]), pc[o], wire[x], wire'[o])
    BY <1>1, <1>2, <1>8, <1>10, TalkSendsOffer DEF Seen, o
  <2>2. Seen(x)'
    BY <1>1, <1>4, <1>7, <2>1 DEF Seen, o
  <2> QED BY <2>2, GoesOnSeen DEF IInv
<1> QED BY <1>1, <1>9, <1>10, WhoActs DEF o

\* No connection is found to have failed while both are there.
LEMMA NothingFails ==
    ASSUME IInv, Going, NEW x \in Browser
    PROVE  ~Lost(x)
<1> DEFINE o == Other(x)
<1> SUFFICES ASSUME Lost(x) PROVE FALSE
  OBVIOUS
<1>1. /\ pc[x] # NoPC /\ pc[x].role # "none"
      /\ \/ pc[o].id # pc[x].remote
         \/ pc[o] # NoPC /\ pc[x].sig = "stable" /\ pc[o].sig = "stable" /\ ~Linked
  BY DEF Lost
<1>2. /\ pc[x] \in PC /\ pc[o] \in PC
      /\ Talk(pc[x], pc[o], wire[x], wire[o])
  BY <1>1, WhoActs, BothSides, FirstFacts DEF Seen
<1>3. Agreed(pc[x], pc[o]) /\ ~Linked
  BY <1>1, <1>2, TalkGoesOn
<1>4. /\ pc[x].remote = pc[o].id /\ pc[o].remote = pc[x].id
      /\ {pc[x].role, pc[o].role} = {"active", "passive"}
  BY <1>1, <1>3 DEF Agreed
<1>5. {pc[x].role, pc[o].role} = {pc[o].role, pc[x].role}
  OBVIOUS
<1> QED BY <1>2, <1>3, <1>4, <1>5, BothSides DEF Linked


-------------------------------------------------------------------------------
\* How far a call has come, as long as both are there and nothing has gone wrong.
Phase == inRoom = Browser /\ mishaps = {} => Going

LEMMA InitPhase == Init => Phase
<1> SUFFICES ASSUME Init PROVE Fresh
  BY DEF Phase, Going
<1>1. /\ wire["a"] = <<[type |-> "JOIN"]>> /\ wire["b"] = <<>> /\ ~peer["b"]
      /\ pc["a"] = NoPC /\ pc["b"] = NoPC
  BY DEF Init, Browser
<1>2. [type |-> "JOIN"] \in Frame /\ ~IsDescr([type |-> "JOIN"])
  BY DEF Frame, IsDescr
<1>3. PICK f \in Frame : f = [type |-> "JOIN"] /\ ~IsDescr(f)
  BY <1>2
<1>4. /\ <<f>> \in Seq(Frame) /\ <<>> \o <<f>> = <<f>> /\ <<>> \in Seq(Frame)
      /\ Len(<<f>>) = 1 /\ <<f>>[1] = f /\ <<f>> # <<>>
  BY ShortOnes
<1>5. Carries(<<>> \o <<f>>, <<>>)
  <2>1. \A i \in 1..Len(<<f>>) : ~IsDescr(<<f>>[i])
    BY <1>3, <1>4
  <2> QED BY <1>4, <2>1, CarriesNothing, CarriesMore
<1>6. wire["a"] = <<f>> /\ f.type = "JOIN"
  BY <1>1, <1>3
<1> QED BY <1>1, <1>4, <1>5, <1>6 DEF Fresh

\* Nobody comes in again, and what has gone wrong has.
LEMMA NothingUndone ==
    ASSUME [Next]_vars
    PROVE  inRoom' \subseteq inRoom /\ mishaps \subseteq mishaps'
<1>1. ASSUME NEW x \in Browser, Step(x) PROVE inRoom' = inRoom /\ mishaps \subseteq mishaps'
  <2>1. TakeJoin(x) \/ TakeMedia(x) \/ TakeLeave(x) => UNCHANGED <<inRoom, mishaps>>
    BY DEF TakeJoin, TakeMedia, TakeLeave
  <2>2. TakeOffer(x) => inRoom' = inRoom /\ mishaps \subseteq mishaps'
    BY DEF TakeOffer
  <2>3. HandleAnswer(x) \/ SendAnswer(x) => UNCHANGED <<inRoom, mishaps>>
    BY DEF HandleAnswer, SendAnswer
  <2>4. Negotiate(x) \/ SendOffer(x) => UNCHANGED <<inRoom, mishaps>>
    BY DEF Negotiate, SendOffer
  <2>5. ConnectionFails(x) => inRoom' = inRoom /\ mishaps \subseteq mishaps'
    BY DEF ConnectionFails
  <2> QED BY <1>1, <2>1, <2>2, <2>3, <2>4, <2>5 DEF Step
<1>2. ASSUME NEW x \in Browser, ConnectionFails(x)
      PROVE  inRoom' = inRoom /\ mishaps \subseteq mishaps'
  BY <1>2 DEF ConnectionFails
<1>3. ASSUME NEW x \in Browser, NEW k \in Kind,
             SwitchOn(x, k) \/ SwitchOff(x, k) \/ GotMedia(x, k) \/ NoMedia(x, k)
      PROVE  UNCHANGED <<inRoom, mishaps>>
  BY <1>3 DEF SwitchOn, SwitchOff, GotMedia, NoMedia
<1>4. ASSUME NEW x \in Browser, Leave(x) PROVE inRoom' \subseteq inRoom /\ mishaps' = mishaps
  BY <1>4 DEF Leave
<1> QED BY <1>1, <1>2, <1>3, <1>4 DEF Next, vars

LEMMA NextPhase == IInv /\ IInv' /\ Phase /\ [Next]_vars => Phase'
<1> SUFFICES ASSUME IInv, IInv', Phase, [Next]_vars, inRoom' = Browser, mishaps' = {}
             PROVE  Going'
  BY DEF Phase
<1>1. inRoom = Browser /\ Going
  <2>1. inRoom \subseteq Browser
    BY DEF IInv, TypeOK
  <2>2. inRoom = Browser /\ mishaps = {}
    BY <2>1, NothingUndone
  <2> QED BY <2>2 DEF Phase
<1>2. CASE UNCHANGED vars
  BY <1>1, <1>2 DEF vars, Going, Fresh, Called, Talking
<1>3. ASSUME NEW x \in Browser, Leave(x) PROVE FALSE
  BY <1>1, <1>3 DEF Leave
<1>4. ASSUME NEW x \in Browser, NEW k \in Kind,
             SwitchOn(x, k) \/ SwitchOff(x, k) \/ GotMedia(x, k) \/ NoMedia(x, k)
      PROVE  Going'
  BY <1>1, <1>4, DeviceGoes
<1>5. ASSUME NEW x \in Browser, TakeLeave(x) PROVE FALSE
  <2>1. wire[x] # <<>> /\ Head(wire[x]).type = "LEAVE"
    BY <1>5 DEF TakeLeave
  <2>2. Head(wire[x]) = wire[x][1] /\ 1 \in 1..Len(wire[x])
    BY <2>1, Before, TakenFacts
  <2>3. Other(x) \notin inRoom
    <3>1. wire[x][1].type = "LEAVE"
      BY <2>1, <2>2
    <3> QED BY <2>2, <3>1 DEF IInv, Frames
  <2> QED BY <1>1, <2>3, BothSides
<1>6. ASSUME NEW x \in Browser, ConnectionFails(x) PROVE FALSE
  <2>1. ~Lost(x)
    BY <1>1, NothingFails
  <2> QED BY <1>6, <2>1 DEF ConnectionFails
<1>7. ASSUME NEW x \in Browser, Step(x) PROVE Going'
  BY <1>1, <1>5, <1>6, <1>7, TakeJoinGoes, TakeMediaGoes, TakeOfferGoes, HandleAnswerGoes,
     SendAnswerGoes, NegotiateGoes, SendOfferGoes DEF Step
<1> QED BY <1>2, <1>3, <1>4, <1>6, <1>7 DEF Next

\* Once two members have nothing left to say, their connections mean each other, have
\* the same lines, and one sends what the other receives, unless offers have crossed or
\* a working connection was cut (useWebRTC.js:190, 311, 331).
THEOREM ConnectionsAgree == Spec => []CallAgrees
<1>1. Init => IInv /\ Phase
  BY InitIInv, InitPhase
<1>2. IInv /\ Phase /\ [Next]_vars => (IInv /\ Phase)'
  BY NextIInv, NextPhase
<1>3. IInv /\ Phase => CallAgrees
  <2> SUFFICES ASSUME IInv, Phase, inRoom = Browser, Quiet("a"), Quiet("b"), mishaps = {}
               PROVE  Agree(pc["a"], pc["b"])
    BY DEF CallAgrees
  <2>1. /\ Going /\ wire["a"] = <<>>
        /\ \A x \in Browser : pc[x] # NoPC => Rest(pc[x])
    BY DEF Phase, Quiet, Rest, Browser
  <2>2. pc["a"] # NoPC
    <3>1. ~Fresh
      BY <2>1 DEF Fresh
    <3>2. (\E x \in Browser : Talking(x)) => pc["a"] # NoPC
      BY DEF Talking, Browser, Other
    <3> QED BY <2>1, <3>1, <3>2 DEF Going, Called
  <2>3. /\ pc["a"] \in PC /\ pc["b"] \in PC
        /\ Talk(pc["a"], pc["b"], wire["a"], wire["b"])
    <3>1. "a" \in Browser /\ Other("a") = "b"
      BY DEF Browser, Other
    <3>2. pc["a"] \in PC /\ WellMade(pc["a"]) /\ wire["a"] \in Seq(Frame) /\ wire["b"] \in Seq(Frame)
      BY <2>2, <3>1, BothSides
    <3>3. ~First(pc["a"], wire["a"], wire["b"])
      BY <2>1, <2>2, <3>1, <3>2, FirstFacts
    <3> QED BY <2>2, <3>1, <3>3, <2>1, WhoActs DEF Seen
  <2>4. Agreed(pc["a"], pc["b"])
    <3>1. Rest(pc["a"]) /\ Rest(pc["b"])
      BY <2>1, <2>3, NoPCFields DEF Browser
    <3> QED BY <2>3, <3>1, TalkGoesOn DEF Rest
  <2> QED BY <2>3, <2>4, NoPCFields DEF Agreed, Agree, Linked
<1> QED BY <1>1, <1>2, <1>3, PTL DEF Spec
===============================================================================
