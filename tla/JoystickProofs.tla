--------------------------- MODULE JoystickProofs ---------------------------
(***************************************************************************)
(* Theorems about JoystickReports, for any positions: what a joystick put  *)
(* into a report comes out of both decoders.                               *)
(***************************************************************************)
EXTENDS JoystickReports, Loops

(* Bits.                                                                   *)

LEMMA ShiftedIs ==
    ASSUME NEW value \in Nat, NEW width \in Nat
    PROVE  /\ Shifted(value, width) \in [0..width -> Nat]
           /\ Shifted(value, width)[0] = value
           /\ \A j \in 1..width : Shifted(value, width)[j] = Shifted(value, width)[j - 1] \div 2
<1> DEFINE halve == [n \in 1..width |-> [x \in Nat |-> x \div 2]]
           Is(b) == b = [j \in 0..width |-> IF j = 0 THEN value ELSE b[j - 1] \div 2]
<1>1. PICK v : Runs(v, width, Nat, value, halve)
  <2>1. halve \in [1..width -> [Nat -> Nat]]
    OBVIOUS
  <2> HIDE DEF halve
  <2> QED
    BY <2>1, LoopExists
<1>2. v \in [0..width -> Nat] /\ v[0] = value /\ \A j \in 1..width : v[j] = v[j - 1] \div 2
  <2>1. v \in [0..width -> Nat] /\ v[0] = value /\ \A j \in 1..width : v[j] = halve[j][v[j - 1]]
    BY <1>1 DEF Runs
  <2>2. ASSUME NEW j \in 1..width PROVE v[j] = v[j - 1] \div 2
    <3>1. v[j - 1] \in Nat
      BY <2>1
    <3> QED
      BY <2>1, <3>1
  <2> QED
    BY <2>1, <2>2
<1>3. Is(v)
  <2>1. v = [j \in 0..width |-> v[j]]
    BY <1>2
  <2>2. ASSUME NEW j \in 0..width PROVE v[j] = IF j = 0 THEN value ELSE v[j - 1] \div 2
    BY <1>2
  <2> QED
    BY <2>1, <2>2
<1>4. PICK b : b = (CHOOSE x : Is(x)) /\ Is(b)
  <2> HIDE DEF Is
  <2> QED
    BY <1>3
<1>5. Shifted(value, width) = b
  BY <1>4 DEF Shifted
<1>6. b \in [0..width -> Nat] /\ b[0] = value /\ \A j \in 1..width : b[j] = b[j - 1] \div 2
  <2>1. DOMAIN b = 0..width /\ b[0] = value /\ \A j \in 1..width : b[j] = b[j - 1] \div 2
    <3>1. DOMAIN b = 0..width
      BY <1>4
    <3>2. \A j \in 0..width : b[j] = IF j = 0 THEN value ELSE b[j - 1] \div 2
      BY <1>4
    <3> QED
      BY <3>1, <3>2
  <2> DEFINE S == {j \in 0..width : b[j] \in Nat}
  <2>2. \A j \in 0..width : j \in S
    <3>1. 0 \in S
      BY <2>1
    <3>2. \A j \in 0..(width - 1) : j \in S => j + 1 \in S
      BY <2>1
    <3> HIDE DEF S
    <3> QED
      BY <3>1, <3>2, EachRound
  <2>3. b = [j \in 0..width |-> b[j]]
    BY <1>4
  <2> QED
    BY <2>1, <2>2, <2>3
<1> QED
  BY <1>5, <1>6

\* f is how Field reads the field, bit for bit.
Reads(f, bits, first, width) ==
    /\ f \in [0..width -> Nat] /\ f[0] = 0
    /\ \A j \in 1..width : f[j] = 2 * f[j - 1] + (IF first + width - j \in bits THEN 1 ELSE 0)

LEMMA FieldIs ==
    ASSUME NEW bits, NEW first \in Nat, NEW width \in Nat
    PROVE  \E f : Reads(f, bits, first, width) /\ Field(bits, first, width) = f[width]
<1> DEFINE bit(j) == IF first + width - j \in bits THEN 1 ELSE 0
           round == [n \in 1..width |-> [x \in Nat |-> 2 * x + bit(n)]]
           Is(b) == b = [j \in 0..width |-> IF j = 0 THEN 0 ELSE 2 * b[j - 1] + bit(j)]
<1>1. PICK v : Runs(v, width, Nat, 0, round)
  <2>1. round \in [1..width -> [Nat -> Nat]]
    OBVIOUS
  <2> HIDE DEF round
  <2> QED
    BY <2>1, LoopExists
<1>2. v \in [0..width -> Nat] /\ v[0] = 0 /\ \A j \in 1..width : v[j] = 2 * v[j - 1] + bit(j)
  <2>1. v \in [0..width -> Nat] /\ v[0] = 0 /\ \A j \in 1..width : v[j] = round[j][v[j - 1]]
    BY <1>1 DEF Runs
  <2>2. ASSUME NEW j \in 1..width PROVE v[j] = 2 * v[j - 1] + bit(j)
    <3>1. v[j - 1] \in Nat
      BY <2>1
    <3> HIDE DEF bit
    <3> QED
      BY <2>1, <3>1
  <2> HIDE DEF bit
  <2> QED
    BY <2>1, <2>2
<1>3. Is(v)
  <2>1. v = [j \in 0..width |-> v[j]]
    BY <1>2
  <2>2. ASSUME NEW j \in 0..width PROVE v[j] = IF j = 0 THEN 0 ELSE 2 * v[j - 1] + bit(j)
    BY <1>2
  <2> HIDE DEF bit
  <2> QED
    BY <2>1, <2>2
<1>4. PICK b : b = (CHOOSE x : Is(x)) /\ Is(b)
  <2> HIDE DEF Is
  <2> QED
    BY <1>3
<1>5. Field(bits, first, width) = b[width]
  BY <1>4 DEF Field
<1>6. b \in [0..width -> Nat] /\ b[0] = 0 /\ \A j \in 1..width : b[j] = 2 * b[j - 1] + bit(j)
  <2>0. \A j \in Nat : bit(j) \in Nat
    OBVIOUS
  <2>1. DOMAIN b = 0..width /\ b[0] = 0 /\ \A j \in 1..width : b[j] = 2 * b[j - 1] + bit(j)
    <3> HIDE DEF bit
    <3> QED
      BY <1>4
  <2> HIDE DEF bit
  <2> DEFINE S == {j \in 0..width : b[j] \in Nat}
  <2>2. \A j \in 0..width : j \in S
    <3>1. 0 \in S
      BY <2>1
    <3>2. ASSUME NEW j \in 0..(width - 1), j \in S PROVE j + 1 \in S
      <4>1. b[j + 1] = 2 * b[j] + bit(j + 1) /\ bit(j + 1) \in Nat /\ b[j] \in Nat
        BY <2>0, <2>1, <3>2
      <4> QED
        BY <4>1
    <3> HIDE DEF S
    <3> QED
      BY <3>1, <3>2, EachRound
  <2>3. b = [j \in 0..width |-> b[j]]
    BY <1>4
  <2> QED
    BY <2>1, <2>2, <2>3
<1>7. Reads(b, bits, first, width)
  BY <1>6 DEF Reads
<1> QED
  BY <1>5, <1>7

\* A field that holds the bits of a value, and of nothing else, is that value.
LEMMA FieldOfOnes ==
    ASSUME NEW bits, NEW first \in Nat, NEW width \in Nat, NEW value \in Nat,
           Shifted(value, width)[width] = 0,
           \A j \in 0..(width - 1) : first + j \in bits <=> first + j \in Ones(value, first, width)
    PROVE  Field(bits, first, width) = value
<1> DEFINE s == Shifted(value, width)
<1>1. s \in [0..width -> Nat] /\ s[0] = value /\ \A j \in 1..width : s[j] = s[j - 1] \div 2
  BY ShiftedIs
<1>0. PICK f : Reads(f, bits, first, width) /\ Field(bits, first, width) = f[width]
  BY FieldIs
<1>2. /\ f \in [0..width -> Nat] /\ Field(bits, first, width) = f[width]
      /\ f[0] = 0
      /\ \A j \in 1..width : f[j] = 2 * f[j - 1] + (IF first + width - j \in bits THEN 1 ELSE 0)
  BY <1>0 DEF Reads
<1>3. \A j \in 0..(width - 1) : first + j \in bits <=> s[j] % 2 = 1
  BY DEF Ones
<1> DEFINE S == {j \in 0..width : f[j] = s[width - j]}
<1>4. 0 \in S
  BY <1>2
<1>5. ASSUME NEW j \in 0..(width - 1), j \in S PROVE j + 1 \in S
  <2> DEFINE k == width - j - 1
  <2>1. k \in 0..(width - 1) /\ k + 1 = width - j /\ first + width - (j + 1) = first + k
    OBVIOUS
  <2>2. f[j] = s[k + 1] /\ s[k + 1] = s[k] \div 2 /\ s[k] \in Nat
    BY <1>1, <1>5, <2>1
  <2>3. f[j + 1] = 2 * f[j] + (IF first + k \in bits THEN 1 ELSE 0)
    BY <1>2, <2>1
  <2>4. f[j + 1] = 2 * (s[k] \div 2) + (IF s[k] % 2 = 1 THEN 1 ELSE 0)
    BY <1>3, <2>1, <2>2, <2>3
  <2>5. \A n \in Nat : 2 * (n \div 2) + (IF n % 2 = 1 THEN 1 ELSE 0) = n
    OBVIOUS
  <2>6. f[j + 1] = s[k]
    BY <2>2, <2>4, <2>5
  <2> QED
    BY <2>1, <2>6
<1>6. \A j \in 0..width : j \in S
  <2> HIDE DEF S
  <2> QED
    BY <1>4, <1>5, EachRound
<1> QED
  BY <1>1, <1>2, <1>6

\* A number of width bits is shifted out of them; the widths are those of the layouts.
LEMMA ShiftedOut ==
    ASSUME NEW width \in {4, 8, 9, 10, 11, 12}, NEW value \in 0..(2^width - 1)
    PROVE  value \in Nat /\ Shifted(value, width)[width] = 0
<1>1. value \in Nat /\ width \in Nat
  <2>1. 2^4 = 16 /\ 2^8 = 256 /\ 2^9 = 512 /\ 2^10 = 1024 /\ 2^11 = 2048 /\ 2^12 = 4096
    OBVIOUS
  <2>2. 2^width \in Nat
    BY <2>1
  <2> QED
    BY <2>2
<1> DEFINE s == Shifted(value, width)
<1>2. s \in [0..width -> Nat] /\ s[0] = value /\ \A j \in 1..width : s[j] = s[j - 1] \div 2
  BY <1>1, ShiftedIs
<1>3. ASSUME NEW j \in 1..width, NEW m \in Nat, s[j - 1] < 2 * m PROVE s[j] < m
  BY <1>1, <1>2, <1>3
<1> HIDE DEF s
\* Shifted by j it is below m.
<1> DEFINE Below(j, m) == s[j] < m
<1>4. /\ width >= 4 /\ Below(width - 4, 16) => Below(width, 1)
  <2> SUFFICES ASSUME width >= 4, s[width - 4] < 16 PROVE s[width] < 1
    OBVIOUS
  <2>1. s[width - 3] < 8
    BY <1>1, <1>3
  <2>2. s[width - 2] < 4
    BY <1>1, <2>1, <1>3
  <2>3. s[width - 1] < 2
    BY <1>1, <2>2, <1>3
  <2> QED
    BY <1>1, <2>3, <1>3
<1>5. width >= 8 /\ Below(width - 8, 256) => Below(width - 4, 16)
  <2> SUFFICES ASSUME width >= 8, s[width - 8] < 256 PROVE s[width - 4] < 16
    OBVIOUS
  <2>1. s[width - 7] < 128
    BY <1>1, <1>3
  <2>2. s[width - 6] < 64
    BY <1>1, <2>1, <1>3
  <2>3. s[width - 5] < 32
    BY <1>1, <2>2, <1>3
  <2> QED
    BY <1>1, <2>3, <1>3
<1>6. width >= 9 /\ Below(width - 9, 512) => Below(width - 8, 256)
  BY <1>1, <1>3
<1>7. width >= 10 /\ Below(width - 10, 1024) => Below(width - 9, 512)
  BY <1>1, <1>3
<1>8. width >= 11 /\ Below(width - 11, 2048) => Below(width - 10, 1024)
  BY <1>1, <1>3
<1>9. width >= 12 /\ Below(width - 12, 4096) => Below(width - 11, 2048)
  BY <1>1, <1>3
<1>10. Below(width, 1) => s[width] = 0
  BY <1>1, <1>2
<1>11. ASSUME width = 4 PROVE s[width] = 0
  <2>1. Below(width - 4, 16)
    BY <1>2, <1>11
  <2> HIDE DEF Below
  <2> QED
    BY <1>11, <2>1, <1>10, <1>4
<1>12. ASSUME width = 8 PROVE s[width] = 0
  <2>1. Below(width - 8, 256)
    BY <1>2, <1>12
  <2> HIDE DEF Below
  <2> QED
    BY <1>12, <2>1, <1>10, <1>5, <1>4
<1>13. ASSUME width = 9 PROVE s[width] = 0
  <2>1. Below(width - 9, 512)
    BY <1>2, <1>13
  <2> HIDE DEF Below
  <2> QED
    BY <1>13, <2>1, <1>10, <1>6, <1>5, <1>4
<1>14. ASSUME width = 10 PROVE s[width] = 0
  <2>1. Below(width - 10, 1024)
    BY <1>2, <1>14
  <2> HIDE DEF Below
  <2> QED
    BY <1>14, <2>1, <1>10, <1>7, <1>6, <1>5, <1>4
<1>15. ASSUME width = 11 PROVE s[width] = 0
  <2>1. Below(width - 11, 2048)
    BY <1>2, <1>15
  <2> HIDE DEF Below
  <2> QED
    BY <1>15, <2>1, <1>10, <1>8, <1>7, <1>6, <1>5, <1>4
<1>16. ASSUME width = 12 PROVE s[width] = 0
  <2>1. Below(width - 12, 4096)
    BY <1>2, <1>16
  <2> HIDE DEF Below
  <2> QED
    BY <1>16, <2>1, <1>10, <1>9, <1>8, <1>7, <1>6, <1>5, <1>4
<1> QED
  BY <1>1, <1>11, <1>12, <1>13, <1>14, <1>15, <1>16 DEF s
-----------------------------------------------------------------------------
(* What is where in a report.                                              *)

Placed == {"X", "Y", "RZ", "Z", "RX", "RY", "SLIDER", "HAT", "THUMBX", "THUMBY"}

LEMMA Layouts ==
    /\ DOMAIN Layout = Models
    /\ \A m \in Models : DOMAIN Layout[m] = Placed
<1>1. DOMAIN Layout = Models
  BY DEF Layout, Models, X52, Pro, X65
<1>2. DOMAIN Layout[X52] = Placed
  BY DEF Layout, Placed, X52, LayoutX52
<1>3. DOMAIN Layout[Pro] = Placed
  BY DEF Layout, Placed, Pro, LayoutX52
<1>4. DOMAIN Layout[X65] = Placed
  BY DEF Layout, Placed, X65
<1> QED
  BY <1>1, <1>2, <1>3, <1>4 DEF Models

LEMMA Widths ==
    ASSUME NEW m \in Models, NEW a \in Placed
    PROVE  Layout[m][a].first \in Nat /\ Layout[m][a].width \in {4, 8, 9, 10, 11, 12}
<1>1. CASE m = X52
  BY <1>1 DEF Layout, LayoutX52, At, Placed, X52
<1>2. CASE m = Pro
  BY <1>2 DEF Layout, LayoutX52, At, Placed, Pro
<1>3. CASE m = X65
  BY <1>3 DEF Layout, At, Placed, X65
<1> QED
  BY <1>1, <1>2, <1>3 DEF Models

\* The bits of an axis are no other's.
Before(m, a, b) == Layout[m][a].first + Layout[m][a].width <= Layout[m][b].first

LEMMA Apart ==
    ASSUME NEW m \in Models, NEW a \in Placed
    PROVE  /\ \A b \in Placed \ {a} : Before(m, a, b) \/ Before(m, b, a)
           /\ \/ Layout[m][a].first + Layout[m][a].width <= FirstButton[m]
              \/ FirstButton[m] + ButtonCount[m] <= Layout[m][a].first
<1>1. CASE m = X52
  BY <1>1 DEF Layout, LayoutX52, At, Placed, X52, Before, FirstButton, ButtonCount
<1>2. CASE m = Pro
  BY <1>2 DEF Layout, LayoutX52, At, Placed, Pro, Before, FirstButton, ButtonCount
<1>3. CASE m = X65
  BY <1>3 DEF Layout, At, Placed, X65, Before, FirstButton, ButtonCount
<1> QED
  BY <1>1, <1>2, <1>3 DEF Models

\* The bits of a report are those of its axes and of its buttons.
LEMMA BitsOf ==
    ASSUME NEW m \in Models, NEW p, NEW bit
    PROVE  bit \in Encode(m, p).bits <=>
              \/ \E a \in Placed : bit \in Ones(p.axis[a], Layout[m][a].first, Layout[m][a].width)
              \/ \E i \in p.pressed : bit = FirstButton[m] + i
<1> DEFINE ones(a) == Ones(p.axis[a], Layout[m][a].first, Layout[m][a].width)
<1>1. DOMAIN Layout[m] = Placed
  BY Layouts
<1> SUFFICES bit \in Encode(m, p).bits <=>
                \/ \E a \in Placed : bit \in ones(a)
                \/ \E i \in p.pressed : bit = FirstButton[m] + i
  OBVIOUS
<1> DEFINE axes == UNION {ones(a) : a \in DOMAIN Layout[m]}
           buttons == {FirstButton[m] + i : i \in p.pressed}
<1>2. Encode(m, p).bits = axes \cup buttons
  BY DEF Encode
<1>3. bit \in axes <=> \E a \in DOMAIN Layout[m] : bit \in ones(a)
  <2> HIDE DEF ones
  <2> QED
    BY Zenon
<1>4. bit \in buttons <=> \E i \in p.pressed : bit = FirstButton[m] + i
  BY Zenon
<1> HIDE DEF ones, axes, buttons
<1> QED
  BY <1>1, <1>2, <1>3, <1>4

\* Each axis is read as it was written.
LEMMA AxisDecoded ==
    ASSUME NEW m \in Models, NEW p, IsPosition(m, p), NEW a \in Placed
    PROVE  Field(Encode(m, p).bits, Layout[m][a].first, Layout[m][a].width) = p.axis[a]
<1> DEFINE first == Layout[m][a].first
           width == Layout[m][a].width
           bits == Encode(m, p).bits
<1>1. first \in Nat /\ width \in Nat
  BY Widths
<1>2. p.axis[a] \in Nat /\ Shifted(p.axis[a], width)[width] = 0
  <2>1. p.axis[a] \in 0..(2^width - 1)
    BY Layouts DEF IsPosition
  <2>2. width \in {4, 8, 9, 10, 11, 12}
    BY Widths
  <2> HIDE DEF width
  <2> QED
    BY <2>1, <2>2, ShiftedOut
<1>3. ASSUME NEW j \in 0..(width - 1)
      PROVE  first + j \in bits <=> first + j \in Ones(p.axis[a], first, width)
  <2>1. first + j \in bits <=>
          \/ \E b \in Placed : first + j \in Ones(p.axis[b], Layout[m][b].first, Layout[m][b].width)
          \/ \E i \in p.pressed : first + j = FirstButton[m] + i
    BY BitsOf
  <2>2. ASSUME NEW i \in p.pressed PROVE FirstButton[m] + i # first + j
    <3>1. i \in 0..(ButtonCount[m] - 1) /\ ButtonCount[m] \in Nat /\ FirstButton[m] \in Nat
      BY DEF IsPosition, ButtonCount, FirstButton, Models, X52, Pro, X65
    <3>2. first + width <= FirstButton[m] \/ FirstButton[m] + ButtonCount[m] <= first
      BY Apart
    <3> HIDE DEF first, width
    <3> QED
      BY <1>1, <3>1, <3>2
  <2>3. ASSUME NEW b \in Placed \ {a}
        PROVE  first + j \notin Ones(p.axis[b], Layout[m][b].first, Layout[m][b].width)
    <3>1. Layout[m][b].first \in Nat /\ Layout[m][b].width \in Nat
      BY Widths
    <3>2. first + width <= Layout[m][b].first \/ Layout[m][b].first + Layout[m][b].width <= first
      BY Apart DEF Before
    <3> HIDE DEF first, width
    <3> QED
      BY <1>1, <3>1, <3>2 DEF Ones
  <2> HIDE DEF bits, first, width
  <2> QED
    BY <2>1, <2>2, <2>3 DEF first, width
<1> HIDE DEF bits, first, width
<1>4. Field(bits, first, width) = p.axis[a]
  BY <1>1, <1>2, <1>3, FieldOfOnes
<1> QED
  BY <1>4 DEF bits, first, width

\* So is each button.
LEMMA ButtonDecoded ==
    ASSUME NEW m \in Models, NEW p, IsPosition(m, p), NEW i \in 0..(ButtonCount[m] - 1)
    PROVE  FirstButton[m] + i \in Encode(m, p).bits <=> i \in p.pressed
<1> DEFINE at == FirstButton[m] + i
<1>1. ButtonCount[m] \in Nat /\ FirstButton[m] \in Nat
  BY DEF ButtonCount, FirstButton, Models, X52, Pro, X65
<1>2. ASSUME NEW a \in Placed PROVE at \notin Ones(p.axis[a], Layout[m][a].first, Layout[m][a].width)
  <2>1. Layout[m][a].first \in Nat /\ Layout[m][a].width \in Nat
    BY Widths
  <2>2. \/ Layout[m][a].first + Layout[m][a].width <= FirstButton[m]
        \/ FirstButton[m] + ButtonCount[m] <= Layout[m][a].first
    BY Apart
  <2> QED
    BY <1>1, <2>1, <2>2 DEF Ones
<1>3. p.pressed \subseteq Int
  BY <1>1 DEF IsPosition
<1> HIDE DEF at
<1>4. at \in Encode(m, p).bits <=> \E k \in p.pressed : at = FirstButton[m] + k
  BY <1>2, BitsOf
<1> QED
  BY <1>1, <1>3, <1>4 DEF at
-----------------------------------------------------------------------------
(* The two decoders.                                                       *)

\* What the axes of a report should be for a position.
AxesOf(axis) ==
    [X |-> axis.X, Y |-> axis.Y, RZ |-> axis.RZ, Z |-> axis.Z, RX |-> axis.RX, RY |-> axis.RY,
     SLIDER |-> axis.SLIDER, THUMBX |-> axis.THUMBX, THUMBY |-> axis.THUMBY,
     HATX |-> Compass(axis.HAT)[1], HATY |-> Compass(axis.HAT)[2]]

LEMMA HatRight ==
    ASSUME NEW hat \in 0..15
    PROVE  HatToAxis[hat + 1] = Compass(hat)
  BY DEF HatToAxis, Compass

LEMMA HatInRange ==
    ASSUME NEW hat \in 0..15
    PROVE  Compass(hat)[1] \in -1..1 /\ Compass(hat)[2] \in -1..1
  BY DEF Compass

\* The three places of X, Y, the hat and the thumb stick.
LEMMA Places ==
    /\ Layout[X52].X = At(0, 11) /\ Layout[X52].Y = At(11, 11) /\ Layout[X52].HAT = At(100, 4)
    /\ Layout[X52].THUMBX = At(104, 4) /\ Layout[X52].THUMBY = At(108, 4)
    /\ Layout[Pro].X = At(0, 10) /\ Layout[Pro].Y = At(10, 10) /\ Layout[Pro].HAT = At(108, 4)
    /\ Layout[Pro].THUMBX = At(112, 4) /\ Layout[Pro].THUMBY = At(116, 4)
    /\ \A m \in {X52, Pro} :
          /\ Layout[m].RZ = At(22, 10) /\ Layout[m].Z = At(32, 8) /\ Layout[m].RX = At(40, 8)
          /\ Layout[m].RY = At(48, 8) /\ Layout[m].SLIDER = At(56, 8)
  BY DEF Layout, LayoutX52, At, X52, Pro

LEMMA MapAxisRight ==
    ASSUME NEW m \in {X52, Pro}, NEW p, IsPosition(m, p)
    PROVE  LET bits == Encode(m, p).bits
               w == IF m = X52 THEN 11 ELSE 10
               thumb == IF m = X52 THEN 13 ELSE 14
           IN MapAxis(bits, Field(bits, 0, w), Field(bits, w, w), thumb) = AxesOf(p.axis)
<1> DEFINE bits == Encode(m, p).bits
           w == IF m = X52 THEN 11 ELSE 10
           thumb == IF m = X52 THEN 13 ELSE 14
<1>1. \A a \in Placed : Field(bits, Layout[m][a].first, Layout[m][a].width) = p.axis[a]
  BY AxisDecoded DEF Models
<1> HIDE DEF bits
<1>2. Field(bits, 0, w) = p.axis.X /\ Field(bits, w, w) = p.axis.Y
  BY <1>1, Places DEF At, Placed, X52, Pro
<1>3. /\ Field(bits, 22, 10) = p.axis.RZ /\ Field(bits, 32, 8) = p.axis.Z
      /\ Field(bits, 40, 8) = p.axis.RX /\ Field(bits, 48, 8) = p.axis.RY
      /\ Field(bits, 56, 8) = p.axis.SLIDER
  BY <1>1, Places DEF At, Placed
<1>4. /\ Field(bits, 8 * (thumb - 1) + 4, 4) = p.axis.HAT
      /\ Field(bits, 8 * thumb, 4) = p.axis.THUMBX
      /\ Field(bits, 8 * thumb + 4, 4) = p.axis.THUMBY
  BY <1>1, Places DEF At, Placed, X52, Pro
<1>5. HatToAxis[p.axis.HAT + 1] = Compass(p.axis.HAT)
  <2>1. p.axis.HAT \in 0..15
    <3>1. Layout[m].HAT.width = 4 /\ 2^4 = 16
      BY Places DEF At
    <3>2. "HAT" \in DOMAIN Layout[m]
      BY Layouts DEF Placed, Models
    <3>3. p.axis.HAT \in 0..(2^Layout[m].HAT.width - 1)
      BY <3>2 DEF IsPosition
    <3>4. p.axis.HAT \in 0..(2^4 - 1)
      BY <3>1, <3>3, Zenon
    <3> QED
      BY <3>1, <3>4
  <2> QED
    BY <2>1, HatRight
<1>6. MapAxis(bits, Field(bits, 0, w), Field(bits, w, w), thumb) = AxesOf(p.axis)
  <2> HIDE DEF w, thumb
  <2> QED
    BY <1>2, <1>3, <1>4, <1>5 DEF MapAxis, AxesOf
<1> QED
  BY <1>6 DEF bits

\* No button has two places in a report, and the X52 has no button of its own.
ProPlace(i) ==
    IF i <= 15 THEN i ELSE IF i <= 26 THEN i + 4 ELSE IF i <= 29 THEN i + 5
    ELSE IF i = 30 THEN 31 ELSE IF i = 31 THEN 16 ELSE IF i = 32 THEN 19 ELSE i - 16

LEMMA ButtonsOnce ==
    ASSUME NEW m \in {X52, Pro}
    PROVE  /\ DOMAIN ButtonMap(m) = 1..ButtonCount[m]
           /\ \A i, j \in 1..ButtonCount[m] : ButtonMap(m)[i] = ButtonMap(m)[j] => i = j
           /\ \A i \in 1..ButtonCount[m] : ButtonMap(m)[i] \in Buttons
<1>1. DOMAIN X52Buttons = 1..34 /\ DOMAIN ProButtons = 1..39
  BY DEF X52Buttons, ProButtons, Common, Povs, Modes
<1>2. \A i, j \in 1..34 : X52Buttons[i] = X52Buttons[j] => i = j
  BY DEF X52Buttons, Common, Povs, Modes
<1>3. \A i, j \in 1..39 : ProButtons[i] = ProButtons[j] => i = j
  BY DEF ProButtons, Common, Povs, Modes
<1>4. \A i \in 1..34 : X52Buttons[i] = ProButtons[ProPlace(i)]
  BY DEF X52Buttons, ProButtons, Common, Povs, Modes, ProPlace
<1>5. \A i \in 1..39 : ProButtons[i] \in Buttons
  BY <1>1 DEF Buttons, ToSet
<1>6. \A i \in 1..34 : X52Buttons[i] \in Buttons
  <2>1. \A i \in 1..34 : ProPlace(i) \in 1..39
    BY DEF ProPlace
  <2> QED
    BY <1>4, <1>5, <2>1
<1>7. X52 # Pro /\ ButtonCount[X52] = 34 /\ ButtonCount[Pro] = 39
  BY DEF X52, Pro, ButtonCount
<1>8. ButtonMap(X52) = X52Buttons /\ ButtonMap(Pro) = ProButtons
  BY <1>7 DEF ButtonMap
<1>9. CASE m = X52
  BY <1>1, <1>2, <1>6, <1>7, <1>8, <1>9
<1>10. CASE m = Pro
  BY <1>1, <1>3, <1>5, <1>7, <1>8, <1>10
<1> QED
  BY <1>9, <1>10

LEMMA ButtonsRight ==
    ASSUME NEW m \in {X52, Pro}, NEW p, IsPosition(m, p), NEW old, NEW i \in 1..ButtonCount[m]
    PROVE  MapButtons(Encode(m, p).bits, ButtonMap(m), old)[ButtonMap(m)[i]] <=> (i - 1) \in p.pressed
<1> DEFINE map == ButtonMap(m)
<1>1. /\ DOMAIN map = 1..ButtonCount[m]
      /\ \A k, j \in 1..ButtonCount[m] : map[k] = map[j] => k = j
      /\ map[i] \in Buttons
  BY ButtonsOnce
<1>2. map[i] \in ToSet(map)
  BY <1>1 DEF ToSet
<1>3. (CHOOSE k \in DOMAIN map : map[k] = map[i]) = i
  <2> HIDE DEF map
  <2> QED
    BY <1>1
<1>4. MapButtons(Encode(m, p).bits, map, old)[map[i]] <=> 63 + i \in Encode(m, p).bits
  <2> HIDE DEF map
  <2> QED
    BY <1>1, <1>2, <1>3 DEF MapButtons
<1>5. 63 + i = FirstButton[m] + (i - 1) /\ i - 1 \in 0..(ButtonCount[m] - 1)
  BY DEF FirstButton, ButtonCount, X52, Pro
<1>6. FirstButton[m] + (i - 1) \in Encode(m, p).bits <=> (i - 1) \in p.pressed
  BY <1>5, ButtonDecoded DEF Models
<1> QED
  BY <1>4, <1>5, <1>6

\* Where the key k is in the driver's map.
KeyAt(m, k) ==
    IF k = 1 THEN 1 ELSE IF k = 2 THEN 15 ELSE IF k <= 6 THEN k - 1 ELSE IF k <= 8 THEN k
    ELSE IF k = 9 THEN 6 ELSE IF k <= 15 THEN k - 1
    ELSE IF m = X52 THEN IF k <= 20 THEN k + 14 ELSE k - 5
    ELSE IF k = 16 THEN 31 ELSE IF k = 17 THEN 16 ELSE IF k = 18 THEN 19 ELSE IF k <= 20 THEN k - 2
    ELSE IF k <= 31 THEN k - 1 ELSE k

\* The driver's map reaches each key, and names the buttons as libx52io does.
LEMMA KeysRight ==
    ASSUME NEW m \in {X52, Pro}
    PROVE  /\ DOMAIN KeyMap(m) = 1..ButtonCount[m]
           /\ \A k \in 1..ButtonCount[m] : KeyAt(m, k) \in 1..ButtonCount[m] /\ KeyMap(m)[KeyAt(m, k)] = k
           /\ \A i \in 1..ButtonCount[m] : Keys[KeyMap(m)[i]] = ButtonMap(m)[i]
<1>1. X52 # Pro /\ ButtonCount[X52] = 34 /\ ButtonCount[Pro] = 39
  BY DEF X52, Pro, ButtonCount
<1>2. \A k \in 1..ButtonCount[m] : KeyAt(m, k) \in 1..ButtonCount[m]
  BY <1>1 DEF KeyAt
<1>3. DOMAIN KeyMap(X52) = 1..34 /\ \A k \in 1..34 : KeyMap(X52)[KeyAt(X52, k)] = k
  BY <1>1 DEF KeyMap, KeyCommon, UpTo, KeyAt
<1>4. DOMAIN KeyMap(Pro) = 1..39 /\ \A k \in 1..39 : KeyMap(Pro)[KeyAt(Pro, k)] = k
  BY <1>1 DEF KeyMap, KeyCommon, UpTo, KeyAt
<1>5. \A i \in 1..34 : Keys[KeyMap(X52)[i]] = X52Buttons[i]
  BY <1>1 DEF KeyMap, KeyCommon, UpTo, Keys, X52Buttons, Common, Povs, Modes
<1>6. \A i \in 1..39 : Keys[KeyMap(Pro)[i]] = ProButtons[i]
  <2> DEFINE key(i) == IF i = 1 THEN 1 ELSE IF i <= 5 THEN i + 1 ELSE IF i = 6 THEN 9
                       ELSE IF i <= 8 THEN i ELSE IF i <= 14 THEN i + 1 ELSE IF i = 15 THEN 2
                       ELSE IF i = 16 THEN 17 ELSE IF i <= 18 THEN i + 2 ELSE IF i = 19 THEN 18
                       ELSE IF i <= 30 THEN i + 1 ELSE IF i = 31 THEN 16 ELSE i
  <2>1. \A i \in 1..39 : KeyMap(Pro)[i] = key(i)
    BY <1>1 DEF KeyMap, KeyCommon, UpTo
  <2>2. /\ Keys[1] = ProButtons[1] /\ Keys[9] = ProButtons[6] /\ Keys[7] = ProButtons[7]
        /\ Keys[8] = ProButtons[8] /\ Keys[2] = ProButtons[15]
    BY DEF Keys, ProButtons, Common, Povs, Modes
  <2>3. /\ Keys[17] = ProButtons[16] /\ Keys[19] = ProButtons[17] /\ Keys[20] = ProButtons[18]
        /\ Keys[18] = ProButtons[19] /\ Keys[16] = ProButtons[31]
    BY DEF Keys, ProButtons, Common, Povs, Modes
  <2>4. \A i \in 2..5 : Keys[i + 1] = ProButtons[i]
    BY DEF Keys, ProButtons, Common, Povs, Modes
  <2>5. \A i \in 9..14 : Keys[i + 1] = ProButtons[i]
    BY DEF Keys, ProButtons, Common, Povs, Modes
  <2>6. \A i \in 20..30 : Keys[i + 1] = ProButtons[i]
    BY DEF Keys, ProButtons, Common, Povs, Modes
  <2>7. \A i \in 32..39 : Keys[i] = ProButtons[i]
    BY DEF Keys, ProButtons, Common, Povs, Modes
  <2>8. ASSUME NEW i \in 1..39 PROVE Keys[key(i)] = ProButtons[i]
    <3>0. /\ key(1) = 1 /\ key(6) = 9 /\ key(7) = 7 /\ key(8) = 8 /\ key(15) = 2
          /\ key(16) = 17 /\ key(17) = 19 /\ key(18) = 20 /\ key(19) = 18 /\ key(31) = 16
      OBVIOUS
    <3>1. CASE i \in {1, 6, 7, 8, 15}
      <4> HIDE DEF key
      <4> QED
        BY <3>0, <3>1, <2>2
    <3>2. CASE i \in 16..19 \/ i = 31
      <4> HIDE DEF key
      <4> QED
        BY <3>0, <3>2, <2>3
    <3>3. CASE i \in 2..5 \/ i \in 9..14 \/ i \in 20..30
      <4>1. key(i) = i + 1
        BY <3>3
      <4> HIDE DEF key
      <4> QED
        BY <3>3, <4>1, <2>4, <2>5, <2>6
    <3>4. CASE i \in 32..39
      <4>1. key(i) = i
        BY <3>4
      <4> HIDE DEF key
      <4> QED
        BY <3>4, <4>1, <2>7
    <3> HIDE DEF key
    <3> QED
      BY <3>1, <3>2, <3>3, <3>4
  <2> HIDE DEF key
  <2> QED
    BY <2>1, <2>8
<1>7. ButtonMap(X52) = X52Buttons /\ ButtonMap(Pro) = ProButtons
  BY <1>1 DEF ButtonMap
<1>8. CASE m = X52
  BY <1>1, <1>2, <1>3, <1>5, <1>7, <1>8
<1>9. CASE m = Pro
  BY <1>1, <1>2, <1>4, <1>6, <1>7, <1>9
<1> QED
  BY <1>8, <1>9

\* A report read is the position it was sent for, whatever was in the structure.
LEMMA ParsedRight ==
    ASSUME NEW m \in {X52, Pro}, NEW p, IsPosition(m, p), NEW old
    PROVE  LET r == ParseReport(m, Encode(m, p), old)
           IN  /\ r.axis = AxesOf(p.axis)
               /\ \A i \in 1..ButtonCount[m] : r.button[ButtonMap(m)[i]] <=> (i - 1) \in p.pressed
<1> DEFINE bits == Encode(m, p).bits
           w == IF m = X52 THEN 11 ELSE 10
           thumb == IF m = X52 THEN 13 ELSE 14
           r == Parsed(bits, m, Field(bits, 0, w), Field(bits, w, w), thumb, old)
<1>1. ParseReport(m, Encode(m, p), old) = r
  <2>1. Encode(m, p).length = IF m = X52 THEN 14 ELSE 15
    BY DEF Encode, Length, X52, Pro
  <2>2. X52 # Pro
    BY DEF X52, Pro
  <2>3. CASE m = X52
    BY <2>1, <2>3 DEF ParseReport, ParseX52
  <2>4. CASE m = Pro
    BY <2>1, <2>2, <2>4 DEF ParseReport, ParseX52Pro
  <2> QED
    BY <2>3, <2>4
<1>2. r.axis = AxesOf(p.axis)
  BY MapAxisRight DEF Parsed
<1>3. r.button = MapButtons(bits, ButtonMap(m), old.button)
  BY DEF Parsed
<1>4. \A i \in 1..ButtonCount[m] : r.button[ButtonMap(m)[i]] <=> (i - 1) \in p.pressed
  <2> HIDE DEF r
  <2> QED
    BY <1>3, ButtonsRight
<1> HIDE DEF r
<1> QED
  BY <1>1, <1>2, <1>4

LEMMA ParsedTyped ==
    ASSUME NEW m \in {X52, Pro}, NEW r, NEW old,
           old.button \in [Buttons -> BOOLEAN], old.mode \in 0..3
    PROVE  LET new == ParseReport(m, r, old)
           IN  /\ new.button \in [Buttons -> BOOLEAN] /\ new.mode \in 0..3
               /\ new.mode # old.mode => new.mode \in 1..3 /\ new.button[Modes[new.mode]]
<1>1. ASSUME NEW x, NEW y, NEW thumb
      PROVE  LET new == Parsed(r.bits, m, x, y, thumb, old)
             IN  /\ new.button \in [Buttons -> BOOLEAN] /\ new.mode \in 0..3
                 /\ new.mode # old.mode => new.mode \in 1..3 /\ new.button[Modes[new.mode]]
  <2> DEFINE new == Parsed(r.bits, m, x, y, thumb, old)
  <2>1. new.button = MapButtons(r.bits, ButtonMap(m), old.button) /\ new.mode = MapMode(new.button, old.mode)
    BY DEF Parsed
  <2> HIDE DEF new
  <2>2. new.button \in [Buttons -> BOOLEAN]
    <3> DEFINE place(b) == 63 + (CHOOSE i \in DOMAIN ButtonMap(m) : ButtonMap(m)[i] = b)
               value(b) == IF b \in ToSet(ButtonMap(m)) THEN place(b) \in r.bits ELSE old.button[b]
    <3>1. new.button = [b \in Buttons |-> value(b)]
      BY <2>1 DEF MapButtons
    <3>2. ASSUME NEW b \in Buttons PROVE value(b) \in BOOLEAN
      <4>1. old.button[b] \in BOOLEAN
        OBVIOUS
      <4> HIDE DEF place
      <4>2. ASSUME b \in ToSet(ButtonMap(m)), place(b) \in r.bits PROVE value(b) = TRUE
        BY <4>2
      <4>3. ASSUME b \in ToSet(ButtonMap(m)), place(b) \notin r.bits PROVE value(b) = FALSE
        BY <4>3
      <4>4. ASSUME b \notin ToSet(ButtonMap(m)) PROVE value(b) = old.button[b]
        BY <4>4
      <4> HIDE DEF value
      <4> QED
        BY <4>1, <4>2, <4>3, <4>4
    <3> HIDE DEF value
    <3> QED
      BY <3>1, <3>2
  <2>3. new.mode \in 0..3 /\ (new.mode # old.mode => new.mode \in 1..3 /\ new.button[Modes[new.mode]])
    BY <2>1 DEF MapMode, Modes
  <2> QED
    BY <2>2, <2>3 DEF new
<1>2. CASE m = X52
  BY <1>1, <1>2 DEF ParseReport, ParseX52
<1>3. CASE m # X52
  BY <1>1, <1>3 DEF ParseReport, ParseX52Pro
<1> QED
  BY <1>2, <1>3

\* What the driver tells the kernel of a position, whatever it told before.
Told(m, p) == RawEvent(m, Encode(m, p), NoInput)

LEMMA ToldAnew ==
    ASSUME NEW m \in Models, NEW p, NEW old
    PROVE  RawEvent(m, Encode(m, p), old) = Told(m, p)
<1>1. Encode(m, p).length = Length[m]
  BY DEF Encode
<1>2. X52 # Pro /\ X52 # X65 /\ Pro # X65 /\ Length[X52] = 14 /\ Length[Pro] = 15
  BY DEF X52, Pro, X65, Length
<1>3. CASE m = X65
  BY <1>3 DEF RawEvent, Told
<1>4. CASE m # X65
  <2>1. Encode(m, p).length = IF m = Pro THEN 15 ELSE 14
    BY <1>1, <1>2, <1>4 DEF Models
  <2> QED
    BY <1>4, <2>1 DEF RawEvent, Told
<1> QED
  BY <1>3, <1>4

LEMMA ToldRight ==
    ASSUME NEW m \in {X52, Pro}, NEW p, IsPosition(m, p)
    PROVE  /\ Told(m, p).axis = AxesOf(p.axis)
           /\ \A k \in 1..ButtonCount[m] : k \in Told(m, p).keys <=> (KeyAt(m, k) - 1) \in p.pressed
<1> DEFINE r == Encode(m, p)
           map == KeyMap(m)
           event == DriverX52(m, r)
<1>1. X52 # Pro /\ X52 # X65 /\ Pro # X65
  BY DEF X52, Pro, X65
<1>2. r.length = IF m = Pro THEN 15 ELSE 14
  BY DEF Encode, Length, X52, Pro
<1>3. Told(m, p) = [event EXCEPT !.keys = @ \cap Configured(m).keys]
  BY <1>1, <1>2 DEF Told, RawEvent
<1>4. event.axis = AxesOf(p.axis)
  <2>1. CASE m = X52
    BY <1>1, <1>2, <2>1, MapAxisRight DEF DriverX52
  <2>2. CASE m = Pro
    BY <1>1, <1>2, <2>2, MapAxisRight DEF DriverX52
  <2> QED
    BY <2>1, <2>2
<1>5. event.keys = {map[i] : i \in {j \in DOMAIN map : 63 + j \in r.bits}}
  BY DEF DriverX52
<1>6. Told(m, p).axis = event.axis /\ Told(m, p).keys = event.keys \cap 1..ButtonCount[m]
  <2>1. Configured(m).keys = 1..ButtonCount[m]
    <3>1. ButtonCount[X52] = 34 /\ ButtonCount[Pro] = 39
      BY DEF ButtonCount, X52, Pro
    <3>2. Configured(X52).keys = 1..34 /\ Configured(Pro).keys = 1..39
      BY <1>1 DEF Configured
    <3> QED
      BY <3>1, <3>2
  <2>2. event = [axis |-> event.axis, keys |-> event.keys]
    BY DEF DriverX52
  <2> HIDE DEF event
  <2> QED
    BY <1>3, <2>1, <2>2
<1>7. ASSUME NEW k \in 1..ButtonCount[m]
      PROVE  k \in event.keys <=> (KeyAt(m, k) - 1) \in p.pressed
  <2>1. /\ DOMAIN map = 1..ButtonCount[m]
        /\ KeyAt(m, k) \in DOMAIN map /\ map[KeyAt(m, k)] = k
        /\ \A i \in DOMAIN map : Keys[map[i]] = ButtonMap(m)[i]
    BY KeysRight
  <2>2. ASSUME NEW i \in DOMAIN map, map[i] = k PROVE i = KeyAt(m, k)
    <3>1. ButtonMap(m)[i] = Keys[k] /\ ButtonMap(m)[KeyAt(m, k)] = Keys[k]
      <4> HIDE DEF map
      <4> QED
        BY <2>1, <2>2, Zenon
    <3>2. i \in 1..ButtonCount[m] /\ KeyAt(m, k) \in 1..ButtonCount[m]
      <4> HIDE DEF map
      <4> QED
        BY <2>1
    <3> QED
      BY <3>1, <3>2, ButtonsOnce
  <2>3. 63 + KeyAt(m, k) \in r.bits <=> (KeyAt(m, k) - 1) \in p.pressed
    <3>1. KeyAt(m, k) - 1 \in 0..(ButtonCount[m] - 1) /\ FirstButton[m] = 64
      <4>1. FirstButton[m] = 64 /\ ButtonCount[m] \in Nat
        BY DEF FirstButton, ButtonCount, X52, Pro
      <4>2. KeyAt(m, k) \in 1..ButtonCount[m]
        BY KeysRight
      <4> QED
        BY <4>1, <4>2
    <3>2. FirstButton[m] + (KeyAt(m, k) - 1) \in r.bits <=> (KeyAt(m, k) - 1) \in p.pressed
      BY <3>1, ButtonDecoded DEF Models
    <3>3. FirstButton[m] + (KeyAt(m, k) - 1) = 63 + KeyAt(m, k)
      <4>1. KeyAt(m, k) \in Int
        <5> HIDE DEF map
        <5> QED
          BY <2>1
      <4> QED
        BY <3>1, <4>1
    <3> QED
      BY <3>2, <3>3
  <2> HIDE DEF map, r, event
  <2>4. k \in event.keys <=> 63 + KeyAt(m, k) \in r.bits
    BY <1>5, <2>1, <2>2
  <2> QED
    BY <2>3, <2>4
<1> HIDE DEF event
<1> QED
  BY <1>4, <1>6, <1>7

LEMMA ToldX65 ==
    ASSUME NEW p, IsPosition(X65, p)
    PROVE  /\ ShowsPosition(Told(X65, p).axis, p, Axes \ {"Z", "RX", "RY", "SLIDER"})
           /\ Told(X65, p).keys = p.pressed
<1> DEFINE bits == Encode(X65, p).bits
           axis == Told(X65, p).axis
<1>1. Told(X65, p).axis = DriverX65(Encode(X65, p)).axis
      /\ Told(X65, p).keys = {i \in 0..49 : 65 + i \in bits} \cap 0..49
  BY DEF Told, RawEvent, DriverX65, Configured, X52, Pro, X65
<1>2. \A a \in Placed : Field(bits, Layout[X65][a].first, Layout[X65][a].width) = p.axis[a]
  BY AxisDecoded DEF Models
<1> HIDE DEF bits
<1>3. /\ Field(bits, 0, 12) = p.axis.X /\ Field(bits, 12, 12) = p.axis.Y /\ Field(bits, 24, 9) = p.axis.RZ
      /\ Field(bits, 115, 4) = p.axis.HAT /\ Field(bits, 119, 4) = p.axis.THUMBX
      /\ Field(bits, 123, 4) = p.axis.THUMBY
  BY <1>2 DEF Layout, At, Placed, X65
<1>4. HatToAxis[p.axis.HAT + 1] = Compass(p.axis.HAT)
  <2>1. Layout[X65].HAT.width = 4 /\ 2^4 = 16
    BY DEF Layout, At, X65
  <2>2. "HAT" \in DOMAIN Layout[X65]
    BY Layouts DEF Placed, Models
  <2>3. p.axis.HAT \in 0..(2^Layout[X65].HAT.width - 1)
    BY <2>2 DEF IsPosition
  <2>4. p.axis.HAT \in 0..(2^4 - 1)
    BY <2>1, <2>3, Zenon
  <2>5. p.axis.HAT \in 0..15
    BY <2>1, <2>4
  <2> QED
    BY <2>5, HatRight
<1>5. /\ axis.X = p.axis.X /\ axis.Y = p.axis.Y /\ axis.RZ = p.axis.RZ
      /\ axis.THUMBX = p.axis.THUMBX /\ axis.THUMBY = p.axis.THUMBY
      /\ axis.HATX = Compass(p.axis.HAT)[1] /\ axis.HATY = Compass(p.axis.HAT)[2]
  BY <1>1, <1>3, <1>4 DEF DriverX65, bits
<1>6. ShowsPosition(axis, p, Axes \ {"Z", "RX", "RY", "SLIDER"})
  <2>1. Compass(p.axis.HAT) = <<Compass(p.axis.HAT)[1], Compass(p.axis.HAT)[2]>>
    BY DEF Compass
  <2> HIDE DEF axis
  <2> QED
    BY <1>5, <2>1 DEF ShowsPosition, Axes
<1>7. \A i \in 0..49 : 65 + i \in bits <=> i \in p.pressed
  <2>1. FirstButton[X65] = 65 /\ ButtonCount[X65] = 50
    BY DEF FirstButton, ButtonCount, X65
  <2> QED
    BY <2>1, ButtonDecoded DEF Models, bits
<1>8. p.pressed \subseteq 0..49
  BY DEF IsPosition, ButtonCount, X65
<1> QED
  BY <1>1, <1>6, <1>7, <1>8
-----------------------------------------------------------------------------
(* The invariant.                                                          *)

\* A joystick that is there is in one of its positions.
Plugged ==
    stick.model # NoModel =>
        /\ stick.model \in Models
        /\ stick = [model |-> stick.model, at |-> stick.at]
        /\ IsPosition(stick.model, stick.at)

\* A live handle is that of the joystick that is there, and the range its model's.
Opened ==
    /\ device \in [model : {X52, Pro, NoModel}, live : BOOLEAN]
    /\ device.live => device.model \in {X52, Pro} /\ stick.model = device.model
    /\ range = IF device.model = NoModel THEN NoRange ELSE AxisMax(device.model)

\* The driver told the kernel where the joystick is.
Current == inputdev = Told(stick.model, stick.at)

\* A report that waits for a live handle is of where the joystick is, and the driver
\* got it too.
Waiting ==
    /\ unread = <<>> \/ \E r : unread = <<r>>
    /\ device.live /\ unread # <<>> => unread = <<Encode(stick.model, stick.at)>> /\ Current

\* What was read last is.
LastRead ==
    fresh =>
        /\ device.live /\ Current
        /\ report.axis = AxesOf(stick.at.axis)
        /\ \A i \in 1..ButtonCount[stick.model] :
              report.button[ButtonMap(stick.model)[i]] <=> (i - 1) \in stick.at.pressed

JInv ==
    /\ Plugged /\ Opened /\ Waiting /\ LastRead
    /\ stick.model # NoModel => inputdev = NoInput \/ Current
    /\ fresh \in BOOLEAN /\ report.button \in [Buttons -> BOOLEAN] /\ report.mode \in 0..3

LEMMA InitOK == JInit => JInv
<1> SUFFICES ASSUME JInit PROVE JInv
  OBVIOUS
<1> DEFINE nobody == [model |-> NoModel]
<1>1. stick.model = NoModel /\ device = NotOpen /\ unread = <<>> /\ fresh = FALSE /\ range = NoRange
  BY DEF JInit
<1>2. Plugged /\ Waiting /\ LastRead
  BY <1>1 DEF Plugged, Waiting, LastRead, NotOpen
<1>3. Opened
  BY <1>1 DEF Opened, NotOpen
<1>4. report.button \in [Buttons -> BOOLEAN] /\ report.mode \in 0..3
  BY DEF JInit, NoReport
<1> QED
  BY <1>1, <1>2, <1>3, <1>4 DEF JInv

LEMMA PlugInOK == ASSUME JInv, NEW m \in Models, PlugIn(m) PROVE JInv'
<1>1. /\ stick.model = NoModel /\ stick' = [model |-> m, at |-> Neutral[m]] /\ inputdev' = NoInput
      /\ UNCHANGED <<unread, device, range, report, fresh>>
  BY DEF PlugIn
<1>2. ~device.live /\ ~fresh
  BY <1>1, PositionsAssumption DEF JInv, Opened, LastRead, Models
<1>3. Plugged'
  BY <1>1, PositionsAssumption DEF Plugged
<1>4. Opened' /\ Waiting' /\ LastRead'
  BY <1>1, <1>2 DEF JInv, Opened, Waiting, LastRead
<1> QED
  BY <1>1, <1>3, <1>4 DEF JInv

LEMMA PullOutOK == ASSUME JInv, PullOut PROVE JInv'
<1>1. /\ stick' = [model |-> NoModel] /\ device' = [device EXCEPT !.live = FALSE] /\ fresh' = FALSE
      /\ UNCHANGED <<unread, range, report, inputdev>>
  BY DEF PullOut
<1>2. stick'.model = NoModel
  BY <1>1
<1>3. device' \in [model : {X52, Pro, NoModel}, live : BOOLEAN] /\ ~device'.live /\ device'.model = device.model
  BY <1>1 DEF JInv, Opened
<1>4. Opened'
  BY <1>1, <1>3 DEF JInv, Opened
<1>5. Plugged' /\ Waiting' /\ LastRead'
  BY <1>1, <1>2, <1>3 DEF JInv, Plugged, Waiting, LastRead
<1> QED
  BY <1>1, <1>2, <1>4, <1>5 DEF JInv

LEMMA MoveOK ==
    ASSUME JInv, stick.model # NoModel, NEW p \in Positions[stick.model], Move(p)
    PROVE  JInv'
<1> DEFINE m == stick.model
           r == Encode(m, p)
<1>1. /\ Len(unread) < MaxUnread
      /\ stick' = [stick EXCEPT !.at = p]
      /\ inputdev' = RawEvent(m, r, inputdev)
      /\ unread' = IF device.live THEN Append(unread, r) ELSE unread
      /\ fresh' = FALSE /\ UNCHANGED <<device, range, report>>
  BY DEF Move
<1>2. m \in Models /\ stick = [model |-> m, at |-> stick.at]
  BY DEF JInv, Plugged
<1>3. stick' = [model |-> m, at |-> p] /\ stick'.model = m /\ stick'.at = p
  <2> HIDE DEF m
  <2> QED
    BY <1>1, <1>2
<1>4. IsPosition(m, p)
  BY <1>2, PositionsAssumption
<1>5. Plugged'
  <2> HIDE DEF m
  <2> QED
    BY <1>2, <1>3, <1>4 DEF Plugged
<1>6. Current'
  <2>1. inputdev' = Told(m, p)
    BY <1>1, <1>2, ToldAnew
  <2> HIDE DEF m
  <2> QED
    BY <1>3, <2>1 DEF Current
<1>7. unread = <<>>
  <2>1. \A x : Len(<<x>>) = 1
    BY Single
  <2> QED
    BY <1>1, <2>1 DEF JInv, Waiting, MaxUnread
<1>8. Waiting'
  <2>1. Append(<<>>, r) = <<r>>
    BY Single
  <2>2. unread' = IF device.live THEN <<r>> ELSE <<>>
    BY <1>1, <1>7, <2>1, Zenon
  <2>3. r = Encode(stick'.model, stick'.at)
    <3> HIDE DEF m
    <3> QED
      BY <1>3
  <2> HIDE DEF m, r
  <2> QED
    BY <1>1, <1>6, <2>2, <2>3, Zenon DEF Waiting
<1>9. Opened'
  <2> HIDE DEF r
  <2> QED
    BY <1>1, <1>3 DEF JInv, Opened
<1>10. LastRead'
  BY <1>1 DEF LastRead
<1> HIDE DEF m, r
<1> QED
  BY <1>1, <1>5, <1>6, <1>8, <1>9, <1>10 DEF JInv

LEMMA OpenOK == ASSUME JInv, Open PROVE JInv'
<1>1. unread' = <<>> /\ fresh' = FALSE /\ UNCHANGED <<stick, report, inputdev>>
  BY DEF Open
<1>2. Opened'
  <2>1. CASE /\ stick.model \in {X52, Pro}
             /\ device' = [model |-> stick.model, live |-> TRUE]
             /\ range' = AxisMax(stick.model)
    <3>1. stick.model # NoModel
      BY <2>1, PositionsAssumption DEF Models
    <3> QED
      BY <1>1, <2>1, <3>1 DEF Opened
  <2>2. CASE device' = NotOpen /\ range' = NoRange
    BY <2>2 DEF Opened, NotOpen
  <2> QED
    BY <2>1, <2>2 DEF Open, IsX52
<1>3. Plugged' /\ Waiting' /\ LastRead'
  BY <1>1 DEF JInv, Plugged, Waiting, LastRead
<1> QED
  BY <1>1, <1>2, <1>3 DEF JInv, Current

LEMMA CloseOK == ASSUME JInv, Close PROVE JInv'
<1>1. /\ unread' = <<>> /\ fresh' = FALSE /\ device' = NotOpen /\ range' = NoRange
      /\ UNCHANGED <<stick, report, inputdev>>
  BY DEF Close
<1>2. Opened'
  BY <1>1 DEF Opened, NotOpen
<1>3. Plugged' /\ Waiting' /\ LastRead'
  BY <1>1 DEF JInv, Plugged, Waiting, LastRead
<1> QED
  BY <1>1, <1>2, <1>3 DEF JInv, Current

\* What a read makes of the report that waits.
LEMMA ReadGives ==
    ASSUME JInv, Read
    PROVE  /\ device.model \in {X52, Pro}
           /\ \E r : unread = <<r>> /\ report' = ParseReport(device.model, r, report)
           /\ unread' = <<>>
           /\ fresh' => device.live
           /\ UNCHANGED <<stick, device, range, inputdev>>
<1>1. device.model \in {X52, Pro}
  BY DEF Read, JInv, Opened
<1>2. PICK r : unread = <<r>>
  BY DEF Read, JInv, Waiting
<1>3. Head(unread) = r /\ Tail(unread) = <<>>
  BY <1>2, Single
<1> QED
  BY <1>1, <1>2, <1>3 DEF Read

LEMMA ReadOK == ASSUME JInv, Read PROVE JInv'
<1>1. PICK r : unread = <<r>> /\ report' = ParseReport(device.model, r, report)
  BY ReadGives
<1>2. /\ device.model \in {X52, Pro} /\ unread' = <<>>
      /\ fresh' \in BOOLEAN /\ (fresh' => device.live)
      /\ UNCHANGED <<stick, device, range, inputdev>>
  BY ReadGives DEF Read, JInv, Opened
<1>3. report'.button \in [Buttons -> BOOLEAN] /\ report'.mode \in 0..3
  BY <1>1, <1>2, ParsedTyped DEF JInv
<1>4. LastRead'
  <2> SUFFICES ASSUME fresh' PROVE LastRead'
    BY DEF LastRead
  <2>1. device.live /\ device.model = stick.model /\ stick.model \in {X52, Pro}
    BY <1>2 DEF JInv, Opened
  <2>2. r = Encode(stick.model, stick.at) /\ Current
    <3>1. <<r>> # <<>>
      BY Single
    <3>2. unread = <<Encode(stick.model, stick.at)>> /\ Current
      BY <1>1, <2>1, <3>1 DEF JInv, Waiting
    <3>3. <<r>> = <<Encode(stick.model, stick.at)>>
      BY <1>1, <3>2, Zenon
    <3>4. \A x : Head(<<x>>) = x
      BY Single
    <3> QED
      BY <3>2, <3>3, <3>4, Zenon
  <2>3. IsPosition(stick.model, stick.at)
    <3>1. stick.model # NoModel
      BY <2>1, PositionsAssumption DEF Models
    <3> QED
      BY <3>1 DEF JInv, Plugged
  <2>4. /\ report'.axis = AxesOf(stick.at.axis)
        /\ \A i \in 1..ButtonCount[stick.model] :
              report'.button[ButtonMap(stick.model)[i]] <=> (i - 1) \in stick.at.pressed
    BY <1>1, <2>1, <2>2, <2>3, ParsedRight
  <2>5. Current'
    BY <1>2, <2>2 DEF Current
  <2> QED
    BY <1>2, <2>1, <2>4, <2>5 DEF LastRead
<1>5. Plugged' /\ Opened' /\ Waiting'
  BY <1>2 DEF JInv, Plugged, Opened, Waiting
<1> QED
  BY <1>2, <1>3, <1>4, <1>5 DEF JInv, Current

LEMMA JInvKept == JInv /\ [JNext]_jvars => JInv'
<1> SUFFICES ASSUME JInv, [JNext]_jvars PROVE JInv'
  OBVIOUS
<1>1. CASE UNCHANGED jvars
  BY <1>1 DEF jvars, JInv, Plugged, Opened, Waiting, LastRead, Current
<1>2. ASSUME JNext PROVE JInv'
  BY <1>2, PlugInOK, PullOutOK, OpenOK, CloseOK, ReadOK, MoveOK DEF JNext
<1> QED
  BY <1>1, <1>2

LEMMA JInvAlways == JSpec => []JInv
  BY InitOK, JInvKept, PTL DEF JSpec

-----------------------------------------------------------------------------
(* The theorems.                                                           *)

\* A fresh report is of an X52 that is there, in one of its positions.
LEMMA FreshFrom ==
    ASSUME JInv, fresh
    PROVE  /\ stick.model \in {X52, Pro} /\ device.model = stick.model /\ range = AxisMax(stick.model)
           /\ IsPosition(stick.model, stick.at)
<1>1. device.model \in {X52, Pro} /\ stick.model = device.model
  BY DEF JInv, LastRead, Opened
<1>2. stick.model # NoModel /\ device.model # NoModel
  BY <1>1, PositionsAssumption DEF Models
<1> QED
  BY <1>1, <1>2 DEF JInv, Plugged, Opened

\* What fits in the bits of an axis.
Fills(top, w) == top \in Nat /\ w \in Nat /\ 2^w = top + 1

LEMMA Powers == Fills(15, 4) /\ Fills(255, 8) /\ Fills(1023, 10) /\ Fills(2047, 11)
<1>1. 2^4 = 16 /\ 2^8 = 256 /\ 2^10 = 1024 /\ 2^11 = 2048
  OBVIOUS
<1> QED
  BY <1>1 DEF Fills

LEMMA Widest ==
    ASSUME NEW m \in {X52, Pro}, NEW p, IsPosition(m, p), NEW b \in Placed,
           NEW top, Fills(top, Layout[m][b].width)
    PROVE  p.axis[b] \in 0..top
<1> DEFINE k == 2^Layout[m][b].width
<1>1. p.axis[b] \in 0..(k - 1)
  <2>1. b \in DOMAIN Layout[m]
    BY Layouts DEF Models
  <2> QED
    BY <2>1, Zenon DEF IsPosition
<1>2. k = top + 1 /\ top \in Nat
  BY DEF Fills
<1> HIDE DEF k
<1>3. k - 1 = top
  BY <1>2
<1> QED
  BY <1>1, <1>3, Zenon

\* No axis of a position leaves the range of its model.
LEMMA AxesInRange ==
    ASSUME NEW m \in {X52, Pro}, NEW p, IsPosition(m, p), NEW a \in Axes
    PROVE  AxesOf(p.axis)[a] \in AxisMin[a]..AxisMax(m)[a]
<1> DEFINE top == AxisMax(m)
<1>1. /\ top.RZ = 1023 /\ top.Z = 255 /\ top.RX = 255 /\ top.RY = 255 /\ top.SLIDER = 255
      /\ top.THUMBX = 15 /\ top.THUMBY = 15 /\ top.HATX = 1 /\ top.HATY = 1
      /\ top.X = (IF m = X52 THEN 2047 ELSE 1023) /\ top.Y = (IF m = X52 THEN 2047 ELSE 1023)
  BY DEF AxisMax
<1> HIDE DEF top
<1>2. p.axis.RZ \in 0..top.RZ
  <2>1. Layout[m].RZ.width = 10 /\ "RZ" \in Placed
    BY Places DEF At, Placed
  <2>2. Fills(top.RZ, Layout[m].RZ.width)
    BY <1>1, <2>1, Powers
  <2> QED
    BY <2>1, <2>2, Widest, Zenon
<1>3. ASSUME NEW b \in {"Z", "RX", "RY", "SLIDER"} PROVE p.axis[b] \in 0..top[b]
  <2>1. Layout[m][b].width = 8 /\ b \in Placed
    BY Places DEF At, Placed
  <2>2. Fills(top[b], Layout[m][b].width)
    <3>1. top[b] = 255
      BY <1>1
    <3> QED
      BY <2>1, <3>1, Powers
  <2> QED
    BY <2>1, <2>2, Widest, Zenon
<1>4. ASSUME NEW b \in {"HAT", "THUMBX", "THUMBY"} PROVE p.axis[b] \in 0..15
  <2>1. Layout[m][b].width = 4 /\ b \in Placed
    BY Places DEF At, Placed
  <2>2. Fills(15, Layout[m][b].width)
    BY <2>1, Powers
  <2> QED
    BY <2>1, <2>2, Widest, Zenon
<1>5. ASSUME NEW b \in {"X", "Y"} PROVE p.axis[b] \in 0..top[b]
  <2>1. b \in Placed
    BY DEF Placed
  <2>2. Fills(top[b], Layout[m][b].width)
    <3>1. CASE m = X52
      <4>1. Layout[m][b].width = 11
        BY <3>1, Places DEF At
      <4>2. top[b] = 2047
        BY <1>1, <3>1
      <4> QED
        BY <4>1, <4>2, Powers
    <3>2. CASE m # X52
      <4>1. Layout[m][b].width = 10
        BY <3>2, Places DEF At
      <4>2. top[b] = 1023
        BY <1>1, <3>2
      <4> QED
        BY <4>1, <4>2, Powers
    <3> QED
      BY <3>1, <3>2
  <2> QED
    BY <2>1, <2>2, Widest, Zenon
<1>6. Compass(p.axis.HAT)[1] \in -1..1 /\ Compass(p.axis.HAT)[2] \in -1..1
  BY <1>4, HatInRange
<1>7. \A b \in Axes \ {"HATX", "HATY"} : AxesOf(p.axis)[b] = p.axis[b] /\ AxisMin[b] = 0
  BY DEF AxesOf, Axes, AxisMin
<1>8. /\ AxesOf(p.axis).HATX = Compass(p.axis.HAT)[1] /\ AxisMin.HATX = -1
      /\ AxesOf(p.axis).HATY = Compass(p.axis.HAT)[2] /\ AxisMin.HATY = -1
  BY DEF AxesOf, Axes, AxisMin
<1>9. a \in Axes \ {"HATX", "HATY"} => p.axis[a] \in 0..top[a]
  <2>1. CASE a = "RZ"
    BY <1>2, <2>1, Zenon
  <2>2. CASE a \in {"Z", "RX", "RY", "SLIDER"}
    BY <1>3, <2>2, Zenon
  <2>3. CASE a \in {"THUMBX", "THUMBY"}
    <3>1. top[a] = 15
      BY <1>1, <2>3
    <3> QED
      BY <1>4, <2>3, <3>1
  <2>4. CASE a \in {"X", "Y"}
    BY <1>5, <2>4, Zenon
  <2>5. a \in {"RZ", "Z", "RX", "RY", "SLIDER", "THUMBX", "THUMBY", "X", "Y", "HATX", "HATY"}
    BY DEF Axes
  <2> QED
    BY <2>1, <2>2, <2>3, <2>4, <2>5, Zenon
<1>10. CASE a = "HATX"
  BY <1>1, <1>6, <1>8, <1>10 DEF top
<1>11. CASE a = "HATY"
  BY <1>1, <1>6, <1>8, <1>11 DEF top
<1>12. CASE a \in Axes \ {"HATX", "HATY"}
  <2>1. p.axis[a] \in 0..top[a] /\ AxesOf(p.axis)[a] = p.axis[a] /\ AxisMin[a] = 0
    BY <1>7, <1>9, <1>12, Zenon
  <2> QED
    BY <2>1, Zenon DEF top
<1> QED
  BY <1>10, <1>11, <1>12

\* The variables of the reports have their types.
THEOREM ReportsTyped == JSpec => []JTypeOK
<1>1. JInv => JTypeOK
  <2> SUFFICES ASSUME JInv PROVE JTypeOK
    OBVIOUS
  <2>1. stick.model \in Models \cup {NoModel} /\ device.model \in {X52, Pro, NoModel} /\ fresh \in BOOLEAN
    BY DEF JInv, Plugged, Opened
  <2>2. Len(unread) <= MaxUnread
    <3>1. Len(<<>>) = 0 /\ \A x : Len(<<x>>) = 1
      BY Single
    <3>2. Len(unread) = 0 \/ Len(unread) = 1
      BY <3>1 DEF JInv, Waiting
    <3>3. 0 <= MaxUnread /\ 1 <= MaxUnread
      BY DEF MaxUnread
    <3> QED
      BY <3>2, <3>3, Zenon
  <2>3. range \in [Axes -> Int]
    <3>1. NoRange \in [Axes -> Int]
      BY DEF NoRange
    <3>2. \A m : AxisMax(m) \in [Axes -> Int]
      BY DEF AxisMax, Axes
    <3> QED
      BY <3>1, <3>2 DEF JInv, Opened
  <2> QED
    BY <2>1, <2>2, <2>3 DEF JInv, JTypeOK
<1> QED
  BY <1>1, JInvAlways, PTL

\* For any positions of the joysticks: what the application has just read is where the
\* joystick is, whatever model was read before into the same structure.
THEOREM ReadRight == JSpec => []ReportRight
<1>1. JInv => ReportRight
  <2> SUFFICES ASSUME JInv, fresh
               PROVE  /\ ShowsPosition(report.axis, stick.at, Axes)
                      /\ \A i \in 1..ButtonCount[stick.model] :
                            report.button[ButtonMap(stick.model)[i]] <=> (i - 1) \in stick.at.pressed
    BY DEF ReportRight
  <2>1. report.axis = AxesOf(stick.at.axis)
    BY DEF JInv, LastRead
  <2>2. Compass(stick.at.axis.HAT) = <<Compass(stick.at.axis.HAT)[1], Compass(stick.at.axis.HAT)[2]>>
    BY DEF Compass
  <2>3. ShowsPosition(report.axis, stick.at, Axes)
    BY <2>1, <2>2 DEF ShowsPosition, Axes, AxesOf
  <2> QED
    BY <2>3 DEF JInv, LastRead
<1> QED
  BY <1>1, JInvAlways, PTL

\* For any positions: the kernel's driver and libx52io call each button and each axis
\* the same.
THEOREM SameNames == JSpec => []DriversAgree
<1>1. JInv => DriversAgree
  <2> SUFFICES ASSUME JInv, fresh
               PROVE  /\ report.axis = inputdev.axis
                      /\ \A k \in 1..ButtonCount[stick.model] : report.button[Keys[k]] <=> k \in inputdev.keys
    BY DEF DriversAgree
  <2> DEFINE m == stick.model
  <2>1. m \in {X52, Pro} /\ IsPosition(m, stick.at)
    BY FreshFrom
  <2>2. inputdev = Told(m, stick.at)
    BY DEF JInv, LastRead, Current
  <2>3. report.axis = inputdev.axis
    BY <2>1, <2>2, ToldRight DEF JInv, LastRead
  <2>4. ASSUME NEW k \in 1..ButtonCount[m] PROVE report.button[Keys[k]] <=> k \in inputdev.keys
    <3>1. KeyAt(m, k) \in 1..ButtonCount[m] /\ KeyMap(m)[KeyAt(m, k)] = k
      BY <2>1, KeysRight
    <3>2. Keys[k] = ButtonMap(m)[KeyAt(m, k)]
      BY <2>1, <3>1, KeysRight
    <3>3. k \in inputdev.keys <=> (KeyAt(m, k) - 1) \in stick.at.pressed
      BY <2>1, <2>2, ToldRight
    <3>4. report.button[ButtonMap(m)[KeyAt(m, k)]] <=> (KeyAt(m, k) - 1) \in stick.at.pressed
      BY <3>1 DEF JInv, LastRead
    <3> HIDE DEF m
    <3> QED
      BY <3>2, <3>3, <3>4, Zenon
  <2> QED
    BY <2>3, <2>4
<1> QED
  BY <1>1, JInvAlways, PTL

\* For any positions, those with spurious values of the hat included: no axis leaves the
\* range libx52io gives for the joystick it was read from, or the driver announced.
THEOREM RangesHold == JSpec => []AxisInRange
<1>1. JInv => AxisInRange
  <2> SUFFICES ASSUME JInv PROVE AxisInRange
    OBVIOUS
  <2>1. ASSUME fresh, NEW a \in Axes PROVE report.axis[a] \in AxisMin[a]..range[a]
    <3>1. /\ stick.model \in {X52, Pro} /\ IsPosition(stick.model, stick.at)
          /\ range = AxisMax(stick.model)
      BY <2>1, FreshFrom
    <3>2. report.axis = AxesOf(stick.at.axis)
      BY <2>1 DEF JInv, LastRead
    <3> QED
      BY <3>1, <3>2, AxesInRange
  <2>2. ASSUME stick.model \in {X52, Pro}, NEW a \in Axes
        PROVE  inputdev.axis[a] \in AxisMin[a]..Configured(stick.model).max[a]
    <3> DEFINE m == stick.model
    <3>1. Configured(m).max = AxisMax(m)
      <4>1. Configured(X52).max = AxisMax(X52)
        BY DEF Configured, AxisMax, X52, Pro, X65
      <4>2. Configured(Pro).max = AxisMax(Pro)
        BY DEF Configured, AxisMax, X52, Pro, X65
      <4> QED
        BY <2>2, <4>1, <4>2
    <3>2. m # NoModel
      BY <2>2, PositionsAssumption DEF Models
    <3>3. CASE inputdev = NoInput
      <4>1. inputdev.axis[a] = 0
        BY <3>3 DEF NoInput, NoRange
      <4>2. 0 \in AxisMin[a]..AxisMax(m)[a]
        BY DEF AxisMin, AxisMax, Axes
      <4> QED
        BY <3>1, <4>1, <4>2
    <3>4. CASE Current
      <4>1. inputdev.axis = AxesOf(stick.at.axis) /\ IsPosition(m, stick.at)
        BY <2>2, <3>2, <3>4, ToldRight DEF Current, JInv, Plugged
      <4>2. AxesOf(stick.at.axis)[a] \in AxisMin[a]..AxisMax(m)[a]
        BY <2>2, <4>1, AxesInRange
      <4> QED
        BY <3>1, <4>1, <4>2
    <3> QED
      BY <3>2, <3>3, <3>4 DEF JInv
  <2> QED
    BY <2>1, <2>2 DEF AxisInRange
<1> QED
  BY <1>1, JInvAlways, PTL

\* For any positions: the driver of the X65 gives the buttons, the stick, the hat and
\* the thumb stick as its layout has them.
THEOREM X65Right == JSpec => []X65Decoded
<1>1. JInv => X65Decoded
  <2> SUFFICES ASSUME JInv, stick.model = X65, inputdev # NoInput
               PROVE  /\ ShowsPosition(inputdev.axis, stick.at, Axes \ {"Z", "RX", "RY", "SLIDER"})
                      /\ inputdev.keys = stick.at.pressed
    BY DEF X65Decoded
  <2>1. stick.model # NoModel
    BY PositionsAssumption DEF Models
  <2>2. inputdev = Told(X65, stick.at) /\ IsPosition(X65, stick.at)
    BY <2>1 DEF JInv, Current, Plugged
  <2> QED
    BY <2>2, ToldX65
<1> QED
  BY <1>1, JInvAlways, PTL

\* The mode of a report changes to one whose button reports, and to nothing else.
THEOREM ModeStays == JSpec => ModeKept
<1>1. JInv /\ [JNext]_jvars => [report'.mode # report.mode => report'.button[Modes[report'.mode]]]_jvars
  <2> SUFFICES ASSUME JInv, [JNext]_jvars, report'.mode # report.mode
               PROVE  report'.button[Modes[report'.mode]]
    OBVIOUS
  <2>1. Read
    BY DEF JNext, PlugIn, PullOut, Move, Open, Close, jvars
  <2>2. device.model \in {X52, Pro} /\ \E r : report' = ParseReport(device.model, r, report)
    BY <2>1, ReadGives
  <2> QED
    BY <2>2, ParsedTyped DEF JInv
<1> QED
  BY <1>1, InitOK, JInvKept, PTL DEF ModeKept, JSpec
=============================================================================
