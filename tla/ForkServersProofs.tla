-------------------------- MODULE ForkServersProofs --------------------------
(***************************************************************************)
(* The two forking servers cut the stream of a client into its lines, keep *)
(* polite clients inside their buffers, store answers in order, and        *)
(* collect their children as ChildReaper does; for any number of clients,  *)
(* any lines and any sizes of the buffers and the pipe.                    *)
(***************************************************************************)
EXTENDS ForkServers, LeastNumber, SequenceTheorems

-----------------------------------------------------------------------------
\* Sequences.

\* The parts of a sequence.
LEMMA Cut ==
  ASSUME NEW S, NEW b \in Seq(S), NEW n \in 0..Len(b)
  PROVE  /\ SubSeq(b, 1, n) \in Seq(S) /\ Len(SubSeq(b, 1, n)) = n
         /\ SubSeq(b, n + 1, Len(b)) \in Seq(S)
         /\ Len(SubSeq(b, n + 1, Len(b))) = Len(b) - n
         /\ \A k \in 1..n : SubSeq(b, 1, n)[k] = b[k]
         /\ \A k \in 1..(Len(b) - n) : SubSeq(b, n + 1, Len(b))[k] = b[n + k]
  <1> DEFINE l == Len(b)
             x == SubSeq(b, 1, n)
             y == SubSeq(b, n + 1, Len(b))
  <1>1. l \in Nat /\ n \in Nat /\ n <= l /\ \A k \in 1..l : b[k] \in S
    BY LenProperties, ElementOfSeq
  <1>2. x \in Seq(S) /\ Len(x) = n /\ \A k \in 1..n : x[k] = b[k]
    <2>1. /\ 1 \in Int /\ n \in Int /\ \A k \in 1..n : b[k] \in S
          /\ n - 1 + 1 = n /\ \A k \in 1..n : 1 + k - 1 = k
      BY <1>1
    <2>2. /\ x \in Seq(S) /\ Len(x) = IF 1 <= n THEN n - 1 + 1 ELSE 0
          /\ \A k \in 1..(n - 1 + 1) : x[k] = b[1 + k - 1]
      BY <2>1, SubSeqProperties
    <2> HIDE DEF x
    <2> QED
      BY <1>1, <2>1, <2>2
  <1>3. y \in Seq(S) /\ Len(y) = l - n /\ \A k \in 1..(l - n) : y[k] = b[n + k]
    <2>1. /\ n + 1 \in Int /\ l \in Int /\ \A k \in (n + 1)..l : b[k] \in S
          /\ l - (n + 1) + 1 = l - n /\ \A k \in 1..(l - n) : n + 1 + k - 1 = n + k
      BY <1>1
    <2>2. /\ y \in Seq(S) /\ Len(y) = IF n + 1 <= l THEN l - (n + 1) + 1 ELSE 0
          /\ \A k \in 1..(l - (n + 1) + 1) : y[k] = b[n + 1 + k - 1]
      BY <2>1, SubSeqProperties
    <2> HIDE DEF y, l
    <2> QED
      BY <1>1, <2>1, <2>2
  <1> QED
    BY <1>2, <1>3

\* Concatenation, under a name the provers leave alone.
Cat(s, t) == s \o t

LEMMA CatAssociative ==
  ASSUME NEW S, NEW s \in Seq(S), NEW t \in Seq(S), NEW u \in Seq(S)
  PROVE  Cat(Cat(s, t), u) = Cat(s, Cat(t, u))
  BY ConcatAssociative DEF Cat

\* The parts x and y of b joined again.
LEMMA Joined ==
  ASSUME NEW S, NEW b \in Seq(S), NEW x \in Seq(S), NEW y \in Seq(S),
         Len(x) + Len(y) = Len(b), \A k \in 1..Len(x) : x[k] = b[k],
         \A k \in 1..Len(y) : y[k] = b[Len(x) + k]
  PROVE  Cat(x, y) = b
  <1> DEFINE l == Len(b)
             n == Len(x)
             d == Len(y)
  <1>1. l \in Nat /\ n \in Nat /\ d \in Nat /\ n + d = l
    BY LenProperties
  <1>2. /\ x \o y \in Seq(S) /\ Len(x \o y) = n + d
        /\ \A i \in 1..(n + d) : (x \o y)[i] = IF i <= n THEN x[i] ELSE y[i - n]
    BY ConcatProperties
  <1>3. /\ \A k \in 1..n : x[k] = b[k]
        /\ \A k \in 1..d : y[k] = b[n + k]
    OBVIOUS
  <1> HIDE DEF n, d, l
  <1>4. ASSUME NEW i \in 1..l PROVE (x \o y)[i] = b[i]
    <2>1. CASE i <= n
      <3>1. i \in 1..n /\ i \in 1..(n + d)
        BY <1>1, <2>1
      <3> QED
        BY <1>2, <1>3, <2>1, <3>1
    <2>2. CASE ~(i <= n)
      <3>1. i - n \in 1..d /\ n + (i - n) = i /\ i \in 1..(n + d)
        BY <1>1, <2>2
      <3> QED
        BY <1>1, <1>2, <1>3, <2>2, <3>1
    <2> QED
      BY <2>1, <2>2
  <1> QED
    <2>1. x \o y = b
      BY <1>1, <1>2, <1>4, SeqEqual DEF l
    <2> QED
      BY <2>1 DEF Cat

-----------------------------------------------------------------------------
\* Lines.

\* The bytes of s are bytes of the first n lines of c.
WellMade(c, s, n) ==
    \A k \in 1..Len(s) :
        LET b == s[k]
        IN  /\ b[1] \in 1..n /\ b[2] \in 1..(Lines[c][b[1]] + 1)
            /\ b = Byte(c, b[1], b[2])

\* Line i of c without its newline.
Text(c, i) == [j \in 1..Lines[c][i] |-> Byte(c, i, j)]

LEMMA ByteIs ==
  ASSUME NEW c, NEW i, NEW j
  PROVE  /\ Byte(c, i, j)[1] = i /\ Byte(c, i, j)[2] = j
         /\ Byte(c, i, j)[3] <=> j = Lines[c][i] + 1
  BY DEF Byte

LEMMA FollowingIs ==
  ASSUME NEW c, NEW i, NEW j
  PROVE  Following(c, Byte(c, i, j)) =
            IF j = Lines[c][i] + 1 THEN Byte(c, i + 1, 1) ELSE Byte(c, i, j + 1)
  BY ByteIs DEF Following

LEMMA LineIs ==
  ASSUME NEW c \in Clients, NEW i \in 1..Len(Lines[c])
  PROVE  /\ Lines[c][i] \in Nat
         /\ Line(c, i) \in Seq(Bytes(c)) /\ Len(Line(c, i)) = Lines[c][i] + 1
         /\ \A j \in 1..(Lines[c][i] + 1) : Line(c, i)[j] = Byte(c, i, j)
  <1>1. Lines[c] \in Seq(Nat) /\ Lines[c][i] \in Nat
    BY ForkAssumption, ElementOfSeq
  <1> DEFINE L == Lines[c][i] + 1
  <1>2. L \in Nat
    BY <1>1
  <1>3. Line(c, i) = [j \in 1..L |-> Byte(c, i, j)]
    BY DEF Line, Byte
  <1>4. \A j \in 1..L : Byte(c, i, j) \in Bytes(c)
    <2>1. \A a \in 1..Len(Lines[c]) : \A j \in Nat \ {0} : \A b \in BOOLEAN : <<a, j, b>> \in Bytes(c)
      BY DEF Bytes
    <2>2. \A j \in 1..L : j \in Nat \ {0}
      BY <1>2
    <2> HIDE DEF L
    <2> SUFFICES ASSUME NEW j \in 1..L PROVE Byte(c, i, j) \in Bytes(c)
      OBVIOUS
    <2>3. (j = Lines[c][i] + 1) \in BOOLEAN
      OBVIOUS
    <2> QED
      BY <2>1, <2>2, <2>3 DEF Byte
  <1> HIDE DEF L
  <1>5. Line(c, i) \in Seq(Bytes(c)) /\ Len(Line(c, i)) = L
    BY <1>2, <1>3, <1>4
  <1> QED
    BY <1>1, <1>3, <1>5 DEF L

\* Up to its first newline a run of lines is its first line.
LEMMA FirstRun ==
  ASSUME NEW c \in Clients, NEW s \in Seq(Bytes(c)), NEW m, NEW n, NEW F \in 1..Len(s),
         AreLines(c, s, m, n), \A k \in 1..(F - 1) : ~s[k][3]
  PROVE  \A k \in 1..F : s[k] = Byte(c, m, k)
  <1>0. Len(s) \in Nat /\ s # <<>>
    BY LenProperties, EmptySeq
  <1> DEFINE Bad == {k \in 1..F : s[k] # Byte(c, m, k)}
  <1> SUFFICES ASSUME Bad # {} PROVE FALSE
    OBVIOUS
  <1>1. Bad \in SUBSET Nat
    BY <1>0
  <1> HIDE DEF Bad
  <1>2. PICK b \in Bad : \A k \in Bad : b <= k
    BY <1>1, LeastElement
  <1>3. b \in 1..F /\ s[b] # Byte(c, m, b) /\ \A k \in 1..(b - 1) : s[k] = Byte(c, m, k)
    BY <1>0, <1>2 DEF Bad
  <1>4. b # 1
    BY <1>0, <1>3 DEF AreLines
  <1>5. b - 1 \in 1..(Len(s) - 1) /\ b - 1 \in 1..(F - 1) /\ b - 1 \in 1..(b - 1) /\ (b - 1) + 1 = b
    BY <1>0, <1>3, <1>4
  <1>6. s[b - 1] = Byte(c, m, b - 1) /\ ~s[b - 1][3] /\ s[b] = Following(c, s[b - 1])
    BY <1>0, <1>3, <1>5 DEF AreLines
  <1>7. s[b] = Byte(c, m, b)
    <2>1. b - 1 # Lines[c][m] + 1
      BY <1>6, ByteIs
    <2> QED
      BY <1>5, <1>6, <2>1, FollowingIs
  <1> QED
    BY <1>3, <1>7

LEMMA FirstNewlineIs ==
  ASSUME NEW S, NEW p \in Seq(S), HasLine(p)
  PROVE  /\ FirstNewline(p) \in 1..Len(p) /\ p[FirstNewline(p)][3]
         /\ \A j \in 1..(FirstNewline(p) - 1) : ~p[j][3]
  <1> DEFINE K == {k \in 1..Len(p) : p[k][3]}
  <1>1. K \in SUBSET Nat /\ K # {} /\ Len(p) \in Nat
    BY LenProperties DEF HasLine
  <1>2. PICK k \in K : \A j \in K : k <= j
    <2> HIDE DEF K
    <2> QED
      BY <1>1, LeastElement
  <1>3. k \in 1..Len(p) /\ p[k][3] /\ \A j \in 1..(k - 1) : ~p[j][3]
    BY <1>1, <1>2
  <1> QED
    BY <1>3 DEF FirstNewline

\* All of what a run of lines has, when it is one line or none.
LEMMA OneLineLeft ==
  ASSUME NEW c \in Clients, NEW s \in Seq(Bytes(c)), NEW m \in Nat, NEW n \in Nat, n <= m,
         AreLines(c, s, m, n), WellMade(c, s, n), s # <<>>
  PROVE  m = n /\ Len(s) = Lines[c][m] + 1
  <1>1. Len(s) \in Nat /\ Len(s) >= 1 /\ 1 \in 1..Len(s) /\ Len(s) \in 1..Len(s)
    BY LenProperties, EmptySeq
  <1>2. m = n
    <2>1. s[1] = Byte(c, m, 1) /\ s[1][1] \in 1..n
      BY <1>1 DEF AreLines, WellMade
    <2> QED
      BY <2>1, ByteIs
  <1>3. HasLine(s)
    <2>1. s[Len(s)] = Byte(c, n, Lines[c][n] + 1)
      BY DEF AreLines
    <2>2. s[Len(s)][3]
      BY <2>1, ByteIs
    <2> QED
      BY <1>1, <2>2 DEF HasLine
  <1>4. PICK F \in 1..Len(s) : s[F][3] /\ \A j \in 1..(F - 1) : ~s[j][3]
    BY <1>3, FirstNewlineIs
  <1>5. s[F] = Byte(c, m, F)
    BY <1>1, <1>4, FirstRun
  <1>6. F = Lines[c][m] + 1
    BY <1>4, <1>5, ByteIs
  <1>7. ASSUME F # Len(s) PROVE FALSE
    <2>1. F \in 1..(Len(s) - 1) /\ F + 1 \in 1..Len(s)
      BY <1>1, <1>7
    <2>2. s[F + 1] = Byte(c, m + 1, 1)
      <3>1. s[F + 1] = Following(c, Byte(c, m, F))
        BY <1>1, <1>5, <2>1 DEF AreLines
      <3> QED
        BY <1>6, <3>1, FollowingIs
    <2>3. s[F + 1][1] \in 1..n
      BY <2>1 DEF WellMade
    <2> QED
      BY <1>2, <2>2, <2>3, ByteIs
  <1> QED
    BY <1>2, <1>6, <1>7

\* The next line is put at the end.
LEMMA LineAppended ==
  ASSUME NEW c \in Clients, NEW s \in Seq(Bytes(c)), NEW m \in Nat, NEW n \in Nat, m >= 1,
         n + 1 <= Len(Lines[c]), AreLines(c, s, m, n), WellMade(c, s, n)
  PROVE  /\ s \o Line(c, n + 1) \in Seq(Bytes(c))
         /\ AreLines(c, s \o Line(c, n + 1), m, n + 1)
         /\ WellMade(c, s \o Line(c, n + 1), n + 1)
  <1> DEFINE t == Line(c, n + 1)
             k == Len(s)
             l == Len(t)
             u == s \o t
  <1>0. Len(Lines[c]) \in Nat /\ n + 1 \in 1..Len(Lines[c])
    BY ForkAssumption, LenProperties
  <1>1. /\ t \in Seq(Bytes(c)) /\ l = Lines[c][n + 1] + 1 /\ Lines[c][n + 1] \in Nat
        /\ \A j \in 1..l : t[j] = Byte(c, n + 1, j)
    BY <1>0, LineIs
  <1>2. u \in Seq(Bytes(c)) /\ Len(u) = k + l /\ k \in Nat
        /\ \A i \in 1..(k + l) : u[i] = IF i <= k THEN s[i] ELSE t[i - k]
    BY <1>1, ConcatProperties, LenProperties
  <1>3. s # <<>> => k >= 1
    BY EmptySeq, LenProperties
  <1>4. s = <<>> => k = 0
    BY EmptySeq
  <1> DEFINE r == Lines[c][n + 1]
  <1>01. r \in Nat /\ l = r + 1
    BY <1>1
  <1> HIDE DEF k, l, t, u, r
  <1>00. l \in Nat /\ l >= 1 /\ k \in Nat
    BY <1>2, <1>01
  <1>5. \A i \in 1..k : u[i] = s[i]
    <2> SUFFICES ASSUME NEW i \in 1..k PROVE u[i] = s[i]
      OBVIOUS
    <2>1. i \in 1..(k + l) /\ i <= k
      BY <1>00
    <2> QED
      BY <1>2, <2>1
  <1>6. \A j \in 1..l : u[k + j] = Byte(c, n + 1, j)
    <2> SUFFICES ASSUME NEW j \in 1..l PROVE u[k + j] = Byte(c, n + 1, j)
      OBVIOUS
    <2>1. k + j \in 1..(k + l) /\ ~(k + j <= k) /\ (k + j) - k = j
      BY <1>1, <1>2
    <2> QED
      BY <1>1, <1>2, <2>1
  <1>7. \A i \in 1..(k + l) : i \in 1..k \/ \E j \in 1..l : i = k + j
    <2> SUFFICES ASSUME NEW i \in 1..(k + l), i \notin 1..k PROVE i - k \in 1..l /\ i = k + (i - k)
      OBVIOUS
    <2> QED
      BY <1>1, <1>2
  <1>8. WellMade(c, u, n + 1)
    <2> SUFFICES ASSUME NEW i \in 1..(k + l)
                 PROVE  /\ u[i][1] \in 1..(n + 1) /\ u[i][2] \in 1..(Lines[c][u[i][1]] + 1)
                        /\ u[i] = Byte(c, u[i][1], u[i][2])
      BY <1>2 DEF WellMade
    <2>1. CASE i \in 1..k
      BY <1>5, <2>1 DEF WellMade, k
    <2>2. ASSUME NEW j \in 1..l, i = k + j PROVE u[i] = Byte(c, n + 1, j) /\ j \in 1..(Lines[c][n + 1] + 1)
      BY <1>1, <1>6, <2>2
    <2>3. n + 1 \in 1..(n + 1) /\ \A a \in 1..n : a \in 1..(n + 1)
      OBVIOUS
    <2> QED
      BY <1>7, <2>1, <2>2, <2>3, ByteIs
  <1>9. u # <<>> /\ u[1] = Byte(c, m, 1) /\ u[Len(u)] = Byte(c, n + 1, Lines[c][n + 1] + 1)
    <2>1. u # <<>>
      <3>1. Len(u) # 0
        BY <1>00, <1>2
      <3> QED
        BY <3>1, EmptySeq
    <2>2. u[Len(u)] = Byte(c, n + 1, Lines[c][n + 1] + 1)
      <3>1. l \in 1..l
        BY <1>00
      <3> QED
        BY <1>1, <1>2, <1>6, <3>1
    <2>3. CASE s = <<>>
      <3>1. m = n + 1 /\ k = 0 /\ 1 \in 1..l
        BY <1>00, <1>4, <2>3 DEF AreLines
      <3>2. u[0 + 1] = Byte(c, n + 1, 1)
        BY <1>6, <3>1
      <3> QED
        BY <2>1, <2>2, <3>1, <3>2
    <2>4. CASE s # <<>>
      <3>1. 1 \in 1..k /\ s[1] = Byte(c, m, 1)
        BY <1>2, <1>3, <2>4 DEF AreLines
      <3> QED
        BY <1>5, <2>1, <2>2, <3>1
    <2> QED
      BY <2>3, <2>4
  <1>10. ASSUME NEW i \in 1..(k + l - 1) PROVE u[i + 1] = Following(c, u[i])
    <2>1. CASE i \in 1..(k - 1)
      <3>1. i \in 1..k /\ i + 1 \in 1..k /\ s # <<>>
        BY <1>2, <1>4, <2>1
      <3> QED
        BY <1>5, <2>1, <3>1 DEF AreLines, k
    <2>2. CASE i = k
      <3>1. k \in 1..k /\ 1 \in 1..l /\ s # <<>>
        BY <1>00, <1>4, <2>2
      <3>2. u[k] = Byte(c, n, Lines[c][n] + 1)
        BY <1>5, <3>1 DEF AreLines, k
      <3>3. u[k + 1] = Byte(c, n + 1, 1)
        BY <1>6, <3>1
      <3> QED
        BY <2>2, <3>2, <3>3, FollowingIs
    <2>3. ASSUME i \notin 1..(k - 1), i # k PROVE u[i + 1] = Following(c, u[i])
      <3>1. i - k \in 1..(l - 1) /\ i - k \in 1..l /\ (i - k) + 1 \in 1..l
            /\ i = k + (i - k) /\ i + 1 = k + ((i - k) + 1)
        BY <1>00, <2>3
      <3>2. u[i] = Byte(c, n + 1, i - k) /\ u[i + 1] = Byte(c, n + 1, (i - k) + 1)
        BY <1>6, <3>1
      <3>3. i - k # Lines[c][n + 1] + 1
        BY <1>1, <3>1
      <3> QED
        BY <3>2, <3>3, FollowingIs
    <2> QED
      BY <2>1, <2>2, <2>3
  <1> QED
    <2>1. Len(u) = k + l /\ u \in Seq(Bytes(c))
      BY <1>2
    <2>2. AreLines(c, u, m, n + 1)
      <3>1. \A i \in 1..(k + l - 1) : u[i + 1] = Following(c, u[i])
        BY <1>10
      <3>2. Len(u) - 1 = k + l - 1
        BY <1>00, <2>1
      <3>3. \A i \in 1..(Len(u) - 1) : u[i + 1] = Following(c, u[i])
        BY <3>1, <3>2
      <3> QED
        BY <1>9, <3>3 DEF AreLines
    <2> QED
      BY <1>8, <2>1, <2>2 DEF t, u

LEMMA TextIs ==
  ASSUME NEW c \in Clients, NEW i \in 1..Len(Lines[c])
  PROVE  Text(c, i) \in Seq(Bytes(c)) /\ Len(Text(c, i)) = Lines[c][i]
  <1> DEFINE r == Lines[c][i]
             L == Line(c, i)
  <1>1. r \in Nat /\ L \in Seq(Bytes(c)) /\ Len(L) = r + 1 /\ \A j \in 1..(r + 1) : L[j] = Byte(c, i, j)
    BY LineIs
  <1>2. Text(c, i) = [j \in 1..r |-> Byte(c, i, j)]
    BY DEF Text
  <1> HIDE DEF r, L
  <1>3. \A j \in 1..r : Byte(c, i, j) \in Bytes(c)
    <2> SUFFICES ASSUME NEW j \in 1..r PROVE Byte(c, i, j) \in Bytes(c)
      OBVIOUS
    <2>1. j \in 1..Len(L) /\ j \in 1..(r + 1)
      BY <1>1
    <2> QED
      BY <1>1, <2>1, ElementOfSeq
  <1>4. Text(c, i) \in Seq(Bytes(c)) /\ Len(Text(c, i)) = r
    BY <1>1, <1>2, <1>3
  <1> QED
    BY <1>4 DEF r

\* What is left of a run of lines after its first.
LEMMA FirstDropped ==
  ASSUME NEW c \in Clients, NEW s \in Seq(Bytes(c)), NEW t \in Seq(Bytes(c)),
         NEW m \in Nat, NEW n \in Nat, NEW F \in 1..Len(s),
         AreLines(c, s, m, n), WellMade(c, s, n), s[F] = Byte(c, m, Lines[c][m] + 1),
         Len(t) = Len(s) - F, \A i \in 1..Len(t) : t[i] = s[F + i]
  PROVE  AreLines(c, t, m + 1, n) /\ WellMade(c, t, n)
  <1> DEFINE k == Len(s)
             l == Len(t)
  <1>1. k \in Nat /\ l \in Nat /\ l = k - F /\ F \in 1..k /\ s # <<>>
    BY LenProperties, EmptySeq
  <1>2. /\ s[k] = Byte(c, n, Lines[c][n] + 1)
        /\ \A i \in 1..(k - 1) : s[i + 1] = Following(c, s[i])
    BY <1>1 DEF AreLines
  <1>3. \A i \in 1..k : /\ s[i][1] \in 1..n /\ s[i][2] \in 1..(Lines[c][s[i][1]] + 1)
                        /\ s[i] = Byte(c, s[i][1], s[i][2])
    BY DEF WellMade
  <1>4. \A i \in 1..l : t[i] = s[F + i]
    OBVIOUS
  <1>5. t = <<>> <=> l = 0
    BY EmptySeq
  <1> HIDE DEF k, l
  <1>6. WellMade(c, t, n)
    <2>1. \A i \in 1..l : F + i \in 1..k
      BY <1>1
    <2> QED
      BY <1>3, <1>4, <2>1 DEF WellMade, l
  <1>7. CASE l = 0
    <2>1. Byte(c, m, Lines[c][m] + 1) = Byte(c, n, Lines[c][n] + 1)
      BY <1>1, <1>2, <1>7
    <2>2. m = n
      BY <2>1, ByteIs
    <2> QED
      BY <1>5, <1>6, <1>7, <2>2 DEF AreLines
  <1>8. CASE l # 0
    <2>1. F \in 1..(k - 1) /\ 1 \in 1..l /\ l \in 1..l /\ F + l = k
      BY <1>1, <1>8
    <2>2. t[1] = Byte(c, m + 1, 1)
      <3>1. t[1] = Following(c, Byte(c, m, Lines[c][m] + 1))
        BY <1>2, <1>4, <2>1
      <3> QED
        BY <3>1, FollowingIs
    <2>3. t[l] = Byte(c, n, Lines[c][n] + 1)
      BY <1>2, <1>4, <2>1
    <2>4. ASSUME NEW i \in 1..(l - 1) PROVE t[i + 1] = Following(c, t[i])
      <3>1. i \in 1..l /\ i + 1 \in 1..l /\ F + i \in 1..(k - 1) /\ F + (i + 1) = (F + i) + 1
        BY <1>1
      <3> QED
        BY <1>2, <1>4, <3>1
    <2> QED
      BY <1>5, <1>6, <1>8, <2>2, <2>3, <2>4 DEF AreLines, l
  <1> QED
    BY <1>7, <1>8

\* Taking the first line out of what has been read, with q still unread.
LEMMA LineTaken ==
  ASSUME NEW c \in Clients, NEW p \in Seq(Bytes(c)), NEW q \in Seq(Bytes(c)),
         NEW m \in Nat, NEW n \in Nat, n <= Len(Lines[c]), HasLine(p),
         AreLines(c, p \o q, m, n), WellMade(c, p \o q, n)
  PROVE  /\ m \in 1..n /\ FirstLine(p) = Text(c, m)
         /\ AfterLine(p) \in Seq(Bytes(c)) /\ Len(AfterLine(p)) < Len(p)
         /\ AreLines(c, AfterLine(p) \o q, m + 1, n) /\ WellMade(c, AfterLine(p) \o q, n)
  <1> DEFINE F == FirstNewline(p)
             s == p \o q
             y == AfterLine(p)
             t == y \o q
             a == Len(p)
             b == Len(q)
  <1>1. F \in 1..a /\ p[F][3] /\ \A j \in 1..(F - 1) : ~p[j][3]
    BY FirstNewlineIs
  <1>2. /\ a \in Nat /\ b \in Nat /\ s \in Seq(Bytes(c)) /\ Len(s) = a + b
        /\ \A i \in 1..(a + b) : s[i] = IF i <= a THEN p[i] ELSE q[i - a]
    BY LenProperties, ConcatProperties
  <1>3. /\ y \in Seq(Bytes(c)) /\ Len(y) = a - F /\ \A i \in 1..(a - F) : y[i] = p[F + i]
    <2>1. F \in 0..a
      BY <1>1, <1>2
    <2> HIDE DEF F
    <2> QED
      BY <2>1, Cut DEF AfterLine, F
  <1>4. FirstLine(p) \in Seq(Bytes(c)) /\ Len(FirstLine(p)) = F - 1
        /\ \A i \in 1..(F - 1) : FirstLine(p)[i] = p[i]
    <2>1. F - 1 \in 0..a
      BY <1>1, <1>2
    <2> HIDE DEF F
    <2> QED
      BY <2>1, Cut DEF FirstLine, F
  <1> HIDE DEF F, y
  <1>5. /\ t \in Seq(Bytes(c)) /\ Len(t) = (a - F) + b
        /\ \A i \in 1..((a - F) + b) : t[i] = IF i <= a - F THEN y[i] ELSE q[i - (a - F)]
    <2>1. /\ t \in Seq(Bytes(c)) /\ Len(t) = Len(y) + Len(q)
          /\ \A i \in 1..(Len(y) + Len(q)) : t[i] = IF i <= Len(y) THEN y[i] ELSE q[i - Len(y)]
      BY <1>3, ConcatProperties
    <2> QED
      BY <1>3, <2>1
  <1>6. AreLines(c, s, m, n) /\ WellMade(c, s, n)
    OBVIOUS
  <1> HIDE DEF s, t, a, b
  <1>7. F \in 1..Len(s) /\ 1 \in 1..Len(s) /\ \A i \in 1..F : s[i] = p[i]
    BY <1>1, <1>2
  <1>8. \A i \in 1..F : s[i] = Byte(c, m, i)
    <2>1. \A i \in 1..(F - 1) : i \in 1..F
      BY <1>1
    <2>2. \A i \in 1..(F - 1) : ~s[i][3]
      BY <1>1, <1>7, <2>1
    <2> QED
      BY <1>2, <1>6, <1>7, <2>2, FirstRun
  <1>9. F = Lines[c][m] + 1
    <2>1. F \in 1..F
      BY <1>1, <1>2
    <2>2. s[F] = Byte(c, m, F) /\ s[F][3]
      BY <1>1, <1>7, <1>8, <2>1
    <2> QED
      BY <2>2, ByteIs
  <1>10. m \in 1..n
    <2>1. 1 \in 1..F
      BY <1>1, <1>2
    <2>2. s[1] = Byte(c, m, 1) /\ s[1][1] \in 1..n
      BY <1>6, <1>7, <1>8, <2>1 DEF WellMade
    <2> QED
      BY <2>2, ByteIs
  <1>11. FirstLine(p) = Text(c, m)
    <2>1. m \in 1..Len(Lines[c])
      BY <1>10, ForkAssumption, LenProperties
    <2>2. Text(c, m) \in Seq(Bytes(c)) /\ Len(Text(c, m)) = Lines[c][m] /\ Lines[c][m] \in Nat
      BY <2>1, TextIs, LineIs
    <2>3. Len(FirstLine(p)) = Len(Text(c, m))
      <3> DEFINE r == Lines[c][m]
      <3> HIDE DEF r
      <3>1. F = r + 1 /\ r \in Nat
        BY <1>9, <2>2 DEF r
      <3>2. F - 1 = r
        BY <3>1
      <3> QED
        BY <1>4, <2>2, <3>2 DEF r
    <2>4. ASSUME NEW i \in 1..Len(FirstLine(p)) PROVE FirstLine(p)[i] = Text(c, m)[i]
      <3>1. i \in 1..(F - 1) /\ i \in 1..F
        BY <1>1, <1>2, <1>4
      <3>2. FirstLine(p)[i] = Byte(c, m, i)
        BY <1>4, <1>7, <1>8, <3>1
      <3>3. i \in 1..Lines[c][m]
        BY <2>2, <2>3
      <3> QED
        BY <3>2, <3>3 DEF Text
    <2> QED
      BY <1>4, <2>2, <2>3, <2>4, SeqEqual
  <1>12. Len(y) < a
    BY <1>1, <1>2, <1>3
  <1>13. AreLines(c, t, m + 1, n) /\ WellMade(c, t, n)
    <2>1. Len(t) = Len(s) - F
      BY <1>1, <1>2, <1>5
    <2>2. ASSUME NEW i \in 1..Len(t) PROVE t[i] = s[F + i]
      <3>1. i \in 1..((a - F) + b) /\ F + i \in 1..(a + b)
        BY <1>1, <1>2, <1>5
      <3>2. CASE i <= a - F
        <4>1. i \in 1..(a - F) /\ F + i <= a
          BY <1>1, <1>2, <3>1, <3>2
        <4> QED
          BY <1>2, <1>3, <1>5, <3>1, <3>2, <4>1
      <3>3. CASE ~(i <= a - F)
        <4>1. ~(F + i <= a) /\ (F + i) - a = i - (a - F)
          BY <1>1, <1>2, <3>1, <3>3
        <4> QED
          BY <1>2, <1>5, <3>1, <3>3, <4>1
      <3> QED
        BY <3>2, <3>3
    <2>3. s[F] = Byte(c, m, Lines[c][m] + 1)
      <3>1. F \in 1..F
        BY <1>1, <1>2
      <3> QED
        BY <1>8, <1>9, <3>1
    <2> QED
      BY <1>2, <1>5, <1>6, <1>7, <2>1, <2>2, <2>3, FirstDropped
  <1> QED
    BY <1>3, <1>10, <1>11, <1>12, <1>13 DEF y, t, a

-----------------------------------------------------------------------------
\* The types of the variables, and what the parent knows of a new connection.

Answers(c) == Seq(Seq(Bytes(c)))
AnyLine == UNION {Seq(Bytes(c)) : c \in Clients}

Types ==
    /\ conn \in [Clients -> {"none", "backlog", "accepted"}]
    /\ holders \in [Clients -> SUBSET {"parent", "child"}]
    /\ fin \subseteq Clients
    /\ cpc \in [Clients -> Alive \cup {"none", "zombie", "reaped"}]
    /\ ppc \in {"accept", "fork", "close", "ended"} /\ pcur \in Clients \cup {None}
    /\ said \in [Clients -> Nat] /\ seen \in [Clients -> Nat]
    /\ rest \in [Clients -> 0..(Record - 1)]
    /\ reader \in [Clients -> {"read", "undefined", "gone"}]

Signals ==
    /\ pending \in BOOLEAN /\ handling \in BOOLEAN /\ merged \in Nat
    /\ server \in {"plain", "store"} /\ (server = "plain" => wpc = "none")
    /\ StoreTyped

TextOK(c, pc, m, q, a) ==
    /\ m \in Seq(Bytes(c)) /\ q \in Seq(Bytes(c)) /\ a \in Answers(c)
    /\ pc \in {"answer", "store"} => HasLine(m)

ClientTexts ==
    /\ DOMAIN inbuf = Clients /\ DOMAIN mes = Clients /\ DOMAIN answered = Clients
    /\ \A c \in Clients : TextOK(c, cpc[c], mes[c], inbuf[c], answered[c])

RecordTexts == pipe \in Seq(Clients \X AnyLine) /\ file \in Seq(Clients \X AnyLine)

ParentHolds ==
    /\ ppc \in {"fork", "close"} => pcur \in Clients
    /\ ppc = "fork" => conn[pcur] = "accepted" /\ cpc[pcur] = "none"
    /\ \A c \in Clients : conn[c] # "accepted" => cpc[c] = "none"

TypeInv == Types /\ Signals /\ ClientTexts /\ RecordTexts /\ ParentHolds

-----------------------------------------------------------------------------
\* The stream of a client, and the lengths of the buffers.

Served(pc) == pc \notin {"undefined", "zombie", "reaped"}
Rest(pc, m) == IF pc = "store" THEN AfterLine(m) ELSE m

\* A child at pc with m in mes and q unread has answered a, of n lines sent.
Stream(c, pc, m, q, a, n) ==
    /\ \A i \in 1..Len(a) : a[i] = Text(c, i)
    /\ AreLines(c, Rest(pc, m) \o q, Len(a) + 1, n) /\ WellMade(c, Rest(pc, m) \o q, n)
    /\ pc = "store" => Len(a) # 0 /\ FirstLine(m) = a[Len(a)]

Fits(c) == \A i \in 1..Len(Lines[c]) : Lines[c][i] + 1 < BufSize

\* The same of a client of which r answers have been read, with the counts and the
\* length of mes.
ClientOK(c, pc, m, q, a, n, r) ==
    /\ r <= Len(a) /\ Len(a) <= n /\ n <= Len(Lines[c])
    /\ c \in Polite => n <= r + 1
    /\ pc = "none" => m = <<>>
    /\ pc \in {"read", "answer", "store"} => Len(m) < 2 * BufSize
    /\ c \in Polite /\ Fits(c) => pc # "undefined"
    /\ Served(pc) => Stream(c, pc, m, q, a, n)

StreamInv ==
    \A c \in Clients :
        ClientOK(c, cpc[c], mes[c], inbuf[c], answered[c], said[c], seen[c])

-----------------------------------------------------------------------------
\* The records.

\* The records of c among the first k of s.
Of(s, c, k) == Cardinality({j \in 1..k : s[j][1] = c})

\* The records in s are the answers in a, but for the last ones of the clients in
\* late.
RecordsOK(s, a, late) ==
    /\ \A c \in Clients : Len(a[c]) = Of(s, c, Len(s)) + (IF c \in late THEN 1 ELSE 0)
    /\ \A k \in 1..Len(s) : s[k] = <<s[k][1], a[s[k][1]][Of(s, s[k][1], k)]>>

Late == {c \in Clients : cpc[c] = "store"}

StoreInv == server = "store" => RecordsOK(Stored, answered, Late)

-----------------------------------------------------------------------------
\* The steps, sorted: those both servers and the clients take, the answer of the
\* plain server, and those of the storing server only.

Frame == UNCHANGED <<writerVars, server>>

\* read_routine, its end, and an interrupt.
Listens(c) == ReadAnswer(c, Room[server]) \/ ReadEnd(c) \/ ClientKilled(c)

Own(c) ==
    \/ Connect(c) \/ WriteLine(c) \/ Quit(c) \/ Listens(c)
    \/ ChildRead(c) \/ ChildEnd(c) \/ ChildKilled(c)

\* The handler takes a client's child, or finds no zombie at all.
ReapClient ==
    Reap /\ (server = "store" => wpc # "zombie" \/ \E c \in Clients : cpc[c] = "zombie")

Shared == ParentStep \/ Deliver \/ ReapClient \/ \E c \in Clients : Own(c)

ReapWriter ==
    /\ handling /\ handling' = FALSE
    /\ wpc = "zombie" /\ wpc' = "reaped"
    /\ UNCHANGED <<linkVars, clientVars, childVars, parentVars, pending, merged,
                   reads, pipe, file>>

Storing ==
    \/ WriterOpen \/ WriterRead \/ WriterEnd \/ ReapWriter
    \/ \E c \in Clients : StoreAnswer(c) \/ ChildStore(c)

LEMMA Steps ==
  ASSUME Next
  PROVE  \/ Frame /\ Shared
         \/ server = "plain" /\ Frame /\ \E c \in Clients : ChildAnswer(c)
         \/ server = "store" /\ UNCHANGED server /\ Storing
  <1>1. CASE \E c \in Clients :
                 ClientStep(c, Room[server]) /\ UNCHANGED <<writerVars, server>>
    BY <1>1 DEF ClientStep, Frame, Shared, Own, Listens
  <1>2. CASE Plain(ForkStep)
    BY <1>2 DEF Plain, ForkStep, Frame, Shared, Own, ReapClient
  <1>3. CASE Store(StoreStep)
    <2>1. StoreReap => (ReapClient /\ UNCHANGED writerVars) \/ ReapWriter
      BY DEF StoreReap, ReapWriter, ReapClient
    <2> QED
      BY <1>3, <2>1 DEF Store, StoreStep, StoreParent, StoreRead, StoreEnd, Frame, Shared, Own,
         Storing
  <1> QED
    BY <1>1, <1>2, <1>3 DEF Next

\* What a client does in them nobody sees, but that it has closed.
LEMMA ListenerAlone ==
  ASSUME NEW c \in Clients, Listens(c), seen \in [Clients -> Nat], fin \subseteq Clients
  PROVE  /\ UNCHANGED <<conn, holders, inbuf, said, cpc, mes, answered, ppc, pcur, pending,
                         handling, merged>>
         /\ fin' \subseteq Clients
         /\ \E t \in {seen[c]} \cup seen[c]..Len(answered[c]) : seen' = [seen EXCEPT ![c] = t]
  <1>1. CASE ReadAnswer(c, Room[server])
    BY <1>1 DEF ReadAnswer, linkVars, childVars, parentVars, signalVars
  <1>2. CASE ReadEnd(c) \/ ClientKilled(c)
    <2>1. seen' = [seen EXCEPT ![c] = seen[c]] /\ seen' = seen
      BY <1>2 DEF ReadEnd, ClientKilled
    <2> QED
      BY <1>2, <2>1 DEF ReadEnd, ClientKilled, linkVars, childVars, parentVars, signalVars
  <1> QED
    BY <1>1, <1>2 DEF Listens

\* Its own variables stay in their types.
LEMMA ListenerTypes ==
  ASSUME NEW c \in Clients, Listens(c), rest \in [Clients -> 0..(Record - 1)],
         reader \in [Clients -> {"read", "undefined", "gone"}]
  PROVE  /\ rest' \in [Clients -> 0..(Record - 1)]
         /\ reader' \in [Clients -> {"read", "undefined", "gone"}]
  BY DEF Listens, ReadAnswer, ReadEnd, ClientKilled

LEMMA TypesStep ==
  ASSUME Types, ParentHolds, ClientTexts, Next
  PROVE  Types'
  <1> USE DEF Types, ParentHolds, Alive
  <1>1. CASE ParentStep
    <2>1. CASE ParentAccept
      BY <2>1 DEF ParentAccept, clientVars, childVars
    <2>2. CASE ParentFork
      BY <2>2 DEF ParentFork, clientVars
    <2>3. CASE ParentForkFails
      BY <2>3 DEF ParentForkFails, clientVars, childVars
    <2>4. CASE ParentClose
      BY <2>4 DEF ParentClose, clientVars, childVars, HoldersAfterClose
    <2> QED
      BY <1>1, <2>1, <2>2, <2>3, <2>4 DEF ParentStep
  <1>2. CASE Deliver
    BY <1>2 DEF Deliver, AfterInterrupt, linkVars, clientVars, childVars
  <1>3. CASE Reap
    BY <1>3 DEF Reap, WaitOne, linkVars, clientVars, parentVars
  <1>4. ASSUME NEW c \in Clients, Own(c) PROVE Types'
    <2>1. CASE Connect(c)
      BY <2>1 DEF Connect, clientVars, childVars, parentVars
    <2>2. CASE WriteLine(c)
      BY <2>2 DEF WriteLine, childVars, parentVars
    <2>3. CASE Quit(c)
      BY <2>3 DEF Quit, clientVars, childVars, parentVars
    <2>4. CASE Listens(c)
      <3>1. PICK t \in {seen[c]} \cup seen[c]..Len(answered[c]) : seen' = [seen EXCEPT ![c] = t]
        BY <2>4, ListenerAlone
      <3>2. t \in Nat
        <4>1. Len(answered[c]) \in Nat /\ seen[c] \in Nat
          BY LenProperties DEF ClientTexts, TextOK, Answers
        <4> QED
          BY <3>1, <4>1
      <3> QED
        BY <2>4, <3>1, <3>2, ListenerAlone, ListenerTypes
    <2>5. CASE ChildRead(c)
      <3>1. \E pc \in {"read", "answer", "undefined"} : cpc' = [cpc EXCEPT ![c] = pc]
        BY <2>5 DEF ChildRead
      <3> QED
        BY <2>5, <3>1 DEF ChildRead, clientVars, parentVars
    <2>6. CASE ChildEnd(c)
      BY <2>6 DEF ChildEnd, clientVars, parentVars
    <2>7. CASE ChildKilled(c)
      BY <2>7 DEF ChildKilled, clientVars, parentVars
    <2> QED
      BY <1>4, <2>1, <2>2, <2>3, <2>4, <2>5, <2>6, <2>7 DEF Own
  <1>5. ASSUME NEW c \in Clients, ChildAnswer(c) PROVE Types'
    BY <1>5 DEF ChildAnswer, linkVars, clientVars, parentVars
  <1>6. CASE Storing
    <2>1. CASE WriterOpen \/ WriterRead \/ WriterEnd \/ ReapWriter
      BY <2>1 DEF WriterOpen, WriterRead, WriterEnd, ReapWriter, forkVars, linkVars, clientVars,
         childVars, parentVars
    <2>2. ASSUME NEW c \in Clients, StoreAnswer(c) PROVE Types'
      BY <2>2 DEF StoreAnswer, linkVars, clientVars, parentVars
    <2>3. ASSUME NEW c \in Clients, ChildStore(c) PROVE Types'
      BY <2>3 DEF ChildStore, linkVars, clientVars, parentVars
    <2> QED
      BY <1>6, <2>1, <2>2, <2>3 DEF Storing
  <1> HIDE DEF Types, ParentHolds, Alive
  <1> QED
    BY <1>1, <1>2, <1>3, <1>4, <1>5, <1>6, Steps DEF Shared, ReapClient

LEMMA SignalsStep ==
  ASSUME Signals, RecordTexts, Next
  PROVE  Signals'
  <1> USE DEF Signals, StoreTyped
  <1>1. CASE Frame /\ Shared
    <2>1. UNCHANGED <<wpc, reads, pipe, file, server>>
      BY <1>1 DEF Frame, writerVars
    <2>2. ASSUME UNCHANGED signalVars PROVE Signals'
      BY <2>1, <2>2 DEF signalVars
    <2>3. CASE ParentStep
      <3>1. UNCHANGED signalVars
        BY <2>3 DEF ParentStep, ParentAccept, ParentFork, ParentForkFails, ParentClose
      <3> QED
        BY <2>2, <3>1
    <2>4. CASE Deliver
      BY <2>1, <2>4 DEF Deliver
    <2>5. CASE Reap
      BY <2>1, <2>5 DEF Reap
    <2>6. ASSUME NEW c \in Clients, Own(c) PROVE Signals'
      <3>1. CASE ChildEnd(c) \/ ChildKilled(c)
        <4>1. Raise
          BY <3>1 DEF ChildEnd, ChildKilled
        <4>2. pending' \in BOOLEAN /\ handling' \in BOOLEAN /\ merged' \in Nat
          BY <4>1 DEF Raise
        <4> QED
          BY <2>1, <4>2
      <3>2. CASE UNCHANGED signalVars
        BY <2>2, <3>2
      <3> QED
        BY <2>6, <3>1, <3>2 DEF Own, Connect, WriteLine, Quit, Listens, ReadAnswer, ReadEnd, ClientKilled,
            ChildRead
    <2> QED
      BY <1>1, <2>3, <2>4, <2>5, <2>6 DEF Shared, ReapClient
  <1>2. ASSUME Frame, NEW c \in Clients, ChildAnswer(c) PROVE Signals'
    BY <1>2 DEF Frame, writerVars, ChildAnswer, signalVars
  <1>3. CASE server = "store" /\ UNCHANGED server /\ Storing
    <2>1. CASE WriterOpen
      BY <1>3, <2>1 DEF WriterOpen, forkVars, signalVars
    <2>2. CASE WriterRead
      <3> DEFINE a == Len(pipe)
                 b == Len(file)
      <3>1. pipe # <<>> /\ ~(reads >= MaxReads) /\ reads' = reads + 1
            /\ wpc' \in {"read", "undefined"}
            /\ UNCHANGED <<pending, handling, merged, server>>
        BY <1>3, <2>2 DEF WriterRead, ReadsDone, forkVars, signalVars
      <3>2. Len(pipe') = a - 1 /\ Len(file') = b + 1 /\ a \in Nat /\ b \in Nat
        <4>1. file' = Append(file, Head(pipe)) /\ pipe' = Tail(pipe)
          BY <2>2 DEF WriterRead
        <4>2. Head(pipe) \in Clients \X AnyLine /\ Len(Tail(pipe)) = a - 1
          BY <3>1, HeadTailProperties DEF RecordTexts
        <4>3. Len(Append(file, Head(pipe))) = b + 1
          BY <4>2, AppendProperties DEF RecordTexts
        <4> QED
          BY <4>1, <4>2, <4>3, LenProperties DEF RecordTexts
      <3> HIDE DEF a, b
      <3>3. a <= PipeCap /\ b <= reads /\ reads \in 0..MaxReads
        BY DEF a, b
      <3>4. reads' \in 0..MaxReads /\ Len(pipe') <= PipeCap /\ Len(file') <= reads'
        BY <3>1, <3>2, <3>3, StoreAssumption
      <3> QED
        BY <1>3, <3>1, <3>4
    <2>3. CASE WriterEnd
      BY <1>3, <2>3 DEF WriterEnd, Raise
    <2>4. CASE ReapWriter
      BY <1>3, <2>4 DEF ReapWriter
    <2>5. ASSUME NEW c \in Clients, StoreAnswer(c) PROVE Signals'
      BY <1>3, <2>5 DEF StoreAnswer, signalVars, writerVars
    <2>6. ASSUME NEW c \in Clients, ChildStore(c) PROVE Signals'
      <3> DEFINE a == Len(pipe)
      <3>1. Len(pipe') = a + 1 /\ a \in Nat /\ a < PipeCap
        BY <2>6, LenProperties DEF ChildStore, Piped, RecordTexts
      <3> HIDE DEF a
      <3>2. Len(pipe') <= PipeCap
        BY <3>1, StoreAssumption
      <3> QED
        BY <1>3, <2>6, <3>2 DEF ChildStore, signalVars
    <2> QED
      BY <1>3, <2>1, <2>2, <2>3, <2>4, <2>5, <2>6 DEF Storing
  <1> HIDE DEF Signals, StoreTyped
  <1> QED
    BY <1>1, <1>2, <1>3, Steps

LEMMA ParentStepHolds ==
  ASSUME Types, ParentHolds, Next
  PROVE  ParentHolds'
  <1> USE DEF Types, ParentHolds, Alive
  <1>1. CASE ParentStep
    <2>1. CASE ParentAccept
      BY <2>1, ForkAssumption DEF ParentAccept, childVars
    <2>2. CASE ParentFork
      BY <2>2 DEF ParentFork
    <2>3. CASE ParentForkFails
      BY <2>3 DEF ParentForkFails, childVars
    <2>4. CASE ParentClose
      BY <2>4 DEF ParentClose, childVars
    <2> QED
      BY <1>1, <2>1, <2>2, <2>3, <2>4 DEF ParentStep
  <1>2. CASE Deliver
    BY <1>2 DEF Deliver, AfterInterrupt, linkVars, childVars
  <1>3. CASE Reap
    <2>1. UNCHANGED <<conn, ppc, pcur>>
      BY <1>3 DEF Reap, linkVars, parentVars
    <2>2. \A c \in Clients : cpc[c] = "none" => cpc'[c] = "none"
      BY <1>3 DEF Reap, WaitOne
    <2> QED
      BY <2>1, <2>2
  <1>4. ASSUME NEW c \in Clients, Connect(c) PROVE ParentHolds'
    BY <1>4 DEF Connect, childVars, parentVars
  <1>5. ASSUME UNCHANGED <<conn, ppc, pcur>>, NEW c \in Clients, cpc[c] # "none",
               \E pc \in {"read", "answer", "store", "undefined", "zombie"} : cpc' = [cpc EXCEPT ![c] = pc]
        PROVE  ParentHolds'
    BY <1>5
  <1>6. CASE UNCHANGED <<conn, ppc, pcur, cpc>>
    BY <1>6
  <1>7. ASSUME NEW c \in Clients, Own(c) PROVE ParentHolds'
    <2>1. CASE WriteLine(c) \/ Quit(c)
      BY <1>6, <2>1 DEF WriteLine, Quit, linkVars, childVars, parentVars
    <2>4. CASE Listens(c)
      BY <1>6, <2>4, ListenerAlone
    <2>2. CASE ChildRead(c)
      <3>1. \E pc \in {"read", "answer", "undefined"} : cpc' = [cpc EXCEPT ![c] = pc]
        BY <2>2 DEF ChildRead
      <3>2. cpc[c] # "none" /\ UNCHANGED <<conn, ppc, pcur>>
        BY <2>2 DEF ChildRead, parentVars
      <3> QED
        BY <1>5, <3>1, <3>2
    <2>3. CASE ChildEnd(c) \/ ChildKilled(c)
      <3>1. cpc[c] # "none" /\ cpc' = [cpc EXCEPT ![c] = "zombie"] /\ UNCHANGED <<conn, ppc, pcur>>
        BY <2>3 DEF ChildEnd, ChildKilled, parentVars
      <3> QED
        BY <1>5, <3>1
    <2> QED
      BY <1>4, <1>7, <2>1, <2>2, <2>3, <2>4 DEF Own
  <1>8. ASSUME NEW c \in Clients, ChildAnswer(c) PROVE ParentHolds'
    <2>1. cpc[c] # "none" /\ cpc' = [cpc EXCEPT ![c] = "read"] /\ UNCHANGED <<conn, ppc, pcur>>
      BY <1>8 DEF ChildAnswer, WriteBack, linkVars, parentVars
    <2> QED
      BY <1>5, <2>1
  <1>9. CASE Storing
    <2>1. CASE WriterOpen \/ WriterRead \/ WriterEnd \/ ReapWriter
      BY <1>6, <2>1 DEF WriterOpen, WriterRead, WriterEnd, ReapWriter, forkVars, linkVars,
         childVars, parentVars
    <2>2. ASSUME NEW c \in Clients, StoreAnswer(c) PROVE ParentHolds'
      <3>1. cpc[c] # "none" /\ cpc' = [cpc EXCEPT ![c] = "store"] /\ UNCHANGED <<conn, ppc, pcur>>
        BY <2>2 DEF StoreAnswer, WriteBack, linkVars, parentVars
      <3> QED
        BY <1>5, <3>1
    <2>3. ASSUME NEW c \in Clients, ChildStore(c) PROVE ParentHolds'
      <3>1. cpc[c] # "none" /\ cpc' = [cpc EXCEPT ![c] = "read"] /\ UNCHANGED <<conn, ppc, pcur>>
        BY <2>3 DEF ChildStore, linkVars, parentVars
      <3> QED
        BY <1>5, <3>1
    <2> QED
      BY <1>9, <2>1, <2>2, <2>3 DEF Storing
  <1> HIDE DEF Types, ParentHolds, Alive
  <1> QED
    BY <1>1, <1>2, <1>3, <1>7, <1>8, <1>9, Steps DEF Shared, ReapClient

LEMMA LineParts ==
  ASSUME NEW c \in Clients, NEW p \in Seq(Bytes(c)), HasLine(p)
  PROVE  /\ FirstLine(p) \in Seq(Bytes(c)) /\ AfterLine(p) \in Seq(Bytes(c))
         /\ Len(AfterLine(p)) < Len(p)
  <1> DEFINE F == FirstNewline(p)
             a == Len(p)
  <1>1. F \in 1..a /\ a \in Nat
    BY FirstNewlineIs, LenProperties
  <1>2. F \in 0..a /\ F - 1 \in 0..a
    BY <1>1
  <1> HIDE DEF F
  <1>3. FirstLine(p) \in Seq(Bytes(c))
    BY <1>2, Cut DEF FirstLine, F
  <1>4. AfterLine(p) \in Seq(Bytes(c)) /\ Len(AfterLine(p)) = a - F
    BY <1>2, Cut DEF AfterLine, F
  <1> HIDE DEF a
  <1>5. Len(AfterLine(p)) < a
    BY <1>1, <1>4
  <1> QED
    BY <1>3, <1>4, <1>5 DEF a

LEMMA ClientWrites ==
  ASSUME NEW c \in Clients, NEW pc, NEW m \in Seq(Bytes(c)), NEW q \in Seq(Bytes(c)),
         NEW a \in Answers(c), NEW n \in Nat, NEW r \in Nat,
         pc \in {"answer", "store"} => HasLine(m),
         ClientOK(c, pc, m, q, a, n, r), n < Len(Lines[c]), c \in Polite => r = n
  PROVE  /\ q \o Line(c, n + 1) \in Seq(Bytes(c))
         /\ ClientOK(c, pc, m, q \o Line(c, n + 1), a, n + 1, r)
  <1> DEFINE l == Line(c, n + 1)
             x == Rest(pc, m)
             g == Len(a)
             e == Len(Lines[c])
  <1>1. /\ c \in Clients /\ m \in Seq(Bytes(c)) /\ q \in Seq(Bytes(c)) /\ n \in Nat /\ r \in Nat
        /\ g \in Nat /\ e \in Nat
    BY ForkAssumption, LenProperties DEF Answers
  <1>2. /\ r <= g /\ g <= n /\ n < e /\ (c \in Polite => r = n)
        /\ (Served(pc) => Stream(c, pc, m, q, a, n))
    BY DEF ClientOK
  <1> HIDE DEF g, e
  <1>3. /\ r <= g /\ g <= n + 1 /\ n + 1 <= e /\ n + 1 \in 1..e /\ (c \in Polite => n + 1 <= r + 1)
        /\ g + 1 \in Nat /\ g + 1 >= 1
    BY <1>1, <1>2
  <1>4. l \in Seq(Bytes(c))
    BY <1>1, <1>3, LineIs DEF e
  <1>5. x \in Seq(Bytes(c))
    BY <1>1, LineParts DEF Rest
  <1>6. q \o l \in Seq(Bytes(c)) /\ x \o q \in Seq(Bytes(c))
    BY <1>1, <1>4, <1>5, ConcatProperties
  <1>7. x \o (q \o l) = (x \o q) \o l
    <2> DEFINE S == Bytes(c)
    <2>1. x \in Seq(S) /\ q \in Seq(S) /\ l \in Seq(S)
      BY <1>1, <1>4, <1>5
    <2> HIDE DEF x, l, S
    <2>2. Cat(Cat(x, q), l) = Cat(x, Cat(q, l))
      BY <2>1, CatAssociative
    <2> QED
      BY <2>2 DEF Cat
  <1>8. ASSUME Served(pc) PROVE Stream(c, pc, m, q \o l, a, n + 1)
    <2>1. AreLines(c, x \o q, g + 1, n) /\ WellMade(c, x \o q, n)
      BY <1>2, <1>8 DEF Stream, g
    <2>2. AreLines(c, (x \o q) \o l, g + 1, n + 1) /\ WellMade(c, (x \o q) \o l, n + 1)
      <3> HIDE DEF x
      <3> QED
        BY <1>1, <1>3, <1>6, <2>1, LineAppended DEF e
    <2> QED
      BY <1>2, <1>7, <1>8, <2>2 DEF Stream, g
  <1> QED
    BY <1>3, <1>6, <1>8 DEF ClientOK, g, e

\* A read moves bytes from what is unread to mes.
LEMMA ReadOn ==
  ASSUME NEW S, NEW m \in Seq(S), NEW q \in Seq(S), NEW k, k \in 1..Len(q)
  PROVE  Cat(Cat(m, SubSeq(q, 1, k)), SubSeq(q, k + 1, Len(q))) = Cat(m, q)
  <1> DEFINE x == SubSeq(q, 1, k)
             y == SubSeq(q, k + 1, Len(q))
             j == Len(q)
  <1>1. j \in Nat /\ k \in 0..j
    BY LenProperties
  <1>2. /\ x \in Seq(S) /\ Len(x) = k /\ y \in Seq(S) /\ Len(y) = j - k
        /\ \A h \in 1..k : x[h] = q[h]
        /\ \A h \in 1..(j - k) : y[h] = q[k + h]
    BY <1>1, Cut
  <1>3. x \in Seq(S) /\ y \in Seq(S)
    BY <1>2
  <1> HIDE DEF x, y
  <1>4. Cat(x, y) = q
    <2>1. Len(x) + Len(y) = j
      BY <1>1, <1>2
    <2>2. \A h \in 1..Len(x) : x[h] = q[h]
      BY <1>2
    <2>3. \A h \in 1..Len(y) : y[h] = q[Len(x) + h]
      BY <1>2
    <2> QED
      BY <1>3, <2>1, <2>2, <2>3, Joined
  <1>5. Cat(Cat(m, x), y) = Cat(m, Cat(x, y))
    BY <1>3, CatAssociative
  <1>6. Cat(Cat(m, x), y) = Cat(m, q)
    BY <1>4, <1>5
  <1> QED
    BY <1>6 DEF x, y

LEMMA ClientReads ==
  ASSUME NEW c \in Clients, NEW m \in Seq(Bytes(c)), NEW q \in Seq(Bytes(c)),
         NEW a \in Answers(c), NEW n \in Nat, NEW r \in Nat,
         NEW k \in 1..Len(q), NEW x \in Seq(Bytes(c)), NEW y,
         Len(x) = k, (m \o x) \o y = m \o q, NEW pc, ClientOK(c, "read", m, q, a, n, r),
         \/ Len(m \o x) < 2 * BufSize /\ pc \in {"read", "answer"}
         \/ ~(k < BufSize /\ Len(m \o x) < 2 * BufSize) /\ pc = "undefined"
  PROVE  ClientOK(c, pc, m \o x, y, a, n, r)
  <1> DEFINE i == Len(m)
             j == Len(q)
             g == Len(a)
             w == Len(m \o x)
  <1>1. /\ c \in Clients /\ m \in Seq(Bytes(c)) /\ q \in Seq(Bytes(c)) /\ n \in Nat /\ r \in Nat
        /\ g \in Nat /\ i \in Nat /\ j \in Nat /\ Len(Lines[c]) \in Nat
    BY ForkAssumption, LenProperties DEF Answers
  <1>2. /\ r <= g /\ g <= n /\ n <= Len(Lines[c]) /\ (c \in Polite => n <= r + 1)
        /\ Stream(c, "read", m, q, a, n)
    BY DEF ClientOK, Served
  <1>3. AreLines(c, m \o q, g + 1, n) /\ WellMade(c, m \o q, n)
    BY <1>2 DEF Stream, Rest
  <1>4. k \in 0..j /\ k <= j
    BY <1>1
  <1>5. (m \o x) \o y = m \o q /\ Len(x) = k
    OBVIOUS
  <1>6. w = i + k
    BY <1>1, <1>5, ConcatProperties
  <1>7. Len(m \o q) = i + j /\ m \o q \in Seq(Bytes(c))
    BY <1>1, ConcatProperties
  <1> HIDE DEF i, j, g, w
  <1>8. ASSUME c \in Polite, Fits(c) PROVE k < BufSize /\ w < 2 * BufSize
    <2>1. n <= g + 1 /\ g + 1 \in Nat
      BY <1>1, <1>2, <1>8
    <2>2. m \o q # <<>>
      <3>1. i + j # 0
        BY <1>1, <1>4
      <3> QED
        BY <1>7, <3>1, EmptySeq
    <2>3. g + 1 = n /\ Len(m \o q) = Lines[c][g + 1] + 1
      BY <1>1, <1>3, <1>7, <2>1, <2>2, OneLineLeft
    <2>4. n \in 1..Len(Lines[c])
      BY <1>1, <1>2, <2>3
    <2>5. Lines[c][n] + 1 < BufSize
      BY <1>8, <2>4 DEF Fits
    <2> DEFINE z == Lines[c][n] + 1
    <2>6. i + j = z /\ z < BufSize
      BY <1>7, <2>3, <2>5
    <2> HIDE DEF z
    <2> QED
      BY <1>1, <1>4, <1>6, <2>6, ForkAssumption
  <1>9. ASSUME Served(pc) PROVE Stream(c, pc, m \o x, y, a, n)
    <2>1. pc # "store"
      BY DEF Served
    <2> QED
      BY <1>2, <1>3, <1>5, <2>1 DEF Stream, Rest, g
  <1>10. pc # "none" /\ (pc \in {"read", "answer", "store"} => w < 2 * BufSize)
    BY DEF w
  <1>11. c \in Polite /\ Fits(c) => pc # "undefined"
    BY <1>8 DEF w
  <1> QED
    BY <1>2, <1>9, <1>10, <1>11 DEF ClientOK, g, w, j

\* The line is answered: then it is the last answer, until it leaves mes.
LEMMA ClientAnswered ==
  ASSUME NEW c \in Clients, NEW m \in Seq(Bytes(c)), NEW q \in Seq(Bytes(c)),
         NEW a \in Answers(c), NEW n \in Nat, NEW r \in Nat,
         HasLine(m), ClientOK(c, "answer", m, q, a, n, r)
  PROVE  /\ Append(a, FirstLine(m)) \in Answers(c)
         /\ ClientOK(c, "store", m, q, Append(a, FirstLine(m)), n, r)
  <1> DEFINE g == Len(a)
             f == FirstLine(m)
             b == Append(a, f)
  <1>1. g \in Nat /\ Len(Lines[c]) \in Nat /\ f \in Seq(Bytes(c)) /\ a \in Seq(Seq(Bytes(c)))
    BY ForkAssumption, LenProperties, LineParts DEF Answers
  <1>2. /\ r <= g /\ g <= n /\ n <= Len(Lines[c]) /\ (c \in Polite => n <= r + 1)
        /\ Len(m) < 2 * BufSize /\ Stream(c, "answer", m, q, a, n)
    BY DEF ClientOK, Served
  <1>3. /\ b \in Seq(Seq(Bytes(c))) /\ Len(b) = g + 1 /\ b[g + 1] = f
        /\ \A i \in 1..g : b[i] = a[i]
    <2> HIDE DEF f
    <2> QED
      BY <1>1, AppendProperties
  <1>4. AreLines(c, m \o q, g + 1, n) /\ WellMade(c, m \o q, n) /\ \A i \in 1..g : a[i] = Text(c, i)
    BY <1>2 DEF Stream, Rest
  <1> HIDE DEF g, b, f
  <1>5. /\ g + 1 \in 1..n /\ f = Text(c, g + 1)
        /\ AreLines(c, AfterLine(m) \o q, (g + 1) + 1, n) /\ WellMade(c, AfterLine(m) \o q, n)
    <2>1. g + 1 \in Nat
      BY <1>1
    <2> QED
      BY <1>2, <1>4, <2>1, LineTaken DEF f
  <1>6. /\ r <= g + 1 /\ g + 1 <= n /\ g + 1 # 0
        /\ \A i \in 1..(g + 1) : i \in 1..g \/ i = g + 1
    BY <1>1, <1>2, <1>5
  <1>7. \A i \in 1..(g + 1) : b[i] = Text(c, i)
    BY <1>3, <1>4, <1>5, <1>6
  <1>8. Stream(c, "store", m, q, b, n)
    BY <1>3, <1>5, <1>6, <1>7 DEF Stream, Rest, f
  <1>9. ClientOK(c, "store", m, q, b, n, r)
    BY <1>2, <1>3, <1>6, <1>8 DEF ClientOK
  <1> QED
    BY <1>3, <1>9 DEF b, f, Answers

LEMMA ClientStored ==
  ASSUME NEW c \in Clients, NEW m \in Seq(Bytes(c)), NEW q \in Seq(Bytes(c)),
         NEW a \in Answers(c), NEW n \in Nat, NEW r \in Nat,
         HasLine(m), ClientOK(c, "store", m, q, a, n, r)
  PROVE  AfterLine(m) \in Seq(Bytes(c)) /\ ClientOK(c, "read", AfterLine(m), q, a, n, r)
  <1> DEFINE y == AfterLine(m)
             i == Len(m)
             j == Len(y)
  <1>1. y \in Seq(Bytes(c)) /\ j < i
    BY LineParts
  <1>2. i < 2 * BufSize /\ i \in Nat /\ j \in Nat
    <2> HIDE DEF y
    <2> QED
      BY <1>1, LenProperties DEF ClientOK
  <1>3. Stream(c, "read", y, q, a, n)
    BY DEF ClientOK, Served, Stream, Rest
  <1> HIDE DEF y, i, j
  <1>4. j < 2 * BufSize
    BY <1>1, <1>2, ForkAssumption
  <1>5. ClientOK(c, "read", y, q, a, n, r)
    BY <1>3, <1>4 DEF ClientOK, j
  <1> QED
    BY <1>1, <1>5 DEF y

\* What forks and ends of children and what the client reads change.
LEMMA ClientElse ==
  ASSUME NEW c \in Clients, NEW m \in Seq(Bytes(c)), NEW q \in Seq(Bytes(c)),
         NEW a \in Answers(c), NEW n \in Nat, NEW r \in Nat, NEW pc,
         ClientOK(c, pc, m, q, a, n, r)
  PROVE  /\ pc = "none" => ClientOK(c, "read", m, q, a, n, r)
         /\ ClientOK(c, "zombie", m, q, a, n, r) /\ ClientOK(c, "reaped", m, q, a, n, r)
         /\ \A t \in r..Len(a) : t \in Nat /\ ClientOK(c, pc, m, q, a, n, t)
  <1>1. Len(a) \in Nat /\ Len(Lines[c]) \in Nat
    BY ForkAssumption, LenProperties DEF Answers
  <1>2. ASSUME pc = "none" PROVE ClientOK(c, "read", m, q, a, n, r)
    <2>1. Len(m) < 2 * BufSize
      <3>1. m = <<>>
        BY <1>2 DEF ClientOK
      <3>2. Len(m) = 0
        BY <3>1, EmptySeq
      <3> QED
        BY <3>2, ForkAssumption
    <2>2. Stream(c, "read", m, q, a, n)
      BY <1>2 DEF ClientOK, Served, Stream, Rest
    <2> QED
      BY <2>1, <2>2 DEF ClientOK
  <1>3. ClientOK(c, "zombie", m, q, a, n, r) /\ ClientOK(c, "reaped", m, q, a, n, r)
    BY DEF ClientOK, Served
  <1>4. ASSUME NEW t \in r..Len(a) PROVE t \in Nat /\ ClientOK(c, pc, m, q, a, n, t)
    <2> DEFINE g == Len(a)
    <2>1. t \in Nat /\ t <= g /\ r <= t /\ g \in Nat
      BY <1>1
    <2>2. n <= r + 1 => n <= t + 1
      BY <2>1
    <2> QED
      BY <2>1, <2>2 DEF ClientOK
  <1> QED
    BY <1>2, <1>3, <1>4

\* The values of the variables of c after a step that changes only c.
Becomes(c, pc, m, q, a, n, r) ==
    /\ cpc'[c] = pc /\ mes'[c] = m /\ inbuf'[c] = q /\ answered'[c] = a /\ said'[c] = n
    /\ seen'[c] = r
    /\ \A d \in Clients \ {c} :
          /\ cpc'[d] = cpc[d] /\ mes'[d] = mes[d] /\ inbuf'[d] = inbuf[d]
          /\ answered'[d] = answered[d] /\ said'[d] = said[d] /\ seen'[d] = seen[d]
    /\ DOMAIN inbuf' = Clients /\ DOMAIN mes' = Clients /\ DOMAIN answered' = Clients

Quiet == UNCHANGED <<cpc, mes, inbuf, answered, said, seen>>

LEMMA BecomesGood ==
  ASSUME ClientTexts, StreamInv, NEW c \in Clients, NEW pc, NEW m, NEW q, NEW a, NEW n, NEW r,
         Becomes(c, pc, m, q, a, n, r), TextOK(c, pc, m, q, a), ClientOK(c, pc, m, q, a, n, r)
  PROVE  ClientTexts' /\ StreamInv'
  <1>1. ASSUME NEW d \in Clients
        PROVE  /\ TextOK(d, cpc'[d], mes'[d], inbuf'[d], answered'[d])
               /\ ClientOK(d, cpc'[d], mes'[d], inbuf'[d], answered'[d], said'[d], seen'[d])
    <2>1. CASE d = c
      BY <2>1 DEF Becomes
    <2>2. CASE d # c
      BY <2>2 DEF Becomes, ClientTexts, StreamInv
    <2> QED
      BY <2>1, <2>2
  <1>2. \A d \in Clients : TextOK(d, cpc'[d], mes'[d], inbuf'[d], answered'[d])
    BY <1>1
  <1>3. \A d \in Clients :
           ClientOK(d, cpc'[d], mes'[d], inbuf'[d], answered'[d], said'[d], seen'[d])
    BY <1>1
  <1> QED
    BY <1>2, <1>3 DEF ClientTexts, StreamInv, Becomes

LEMMA ClientsStep ==
  ASSUME Types, ParentHolds, ClientTexts, StreamInv, Next
  PROVE  ClientTexts' /\ StreamInv'
  <1> DEFINE Goal == ClientTexts' /\ StreamInv'
  <1> SUFFICES Goal
    OBVIOUS
  <1>0. ASSUME NEW c \in Clients
        PROVE  /\ mes[c] \in Seq(Bytes(c)) /\ inbuf[c] \in Seq(Bytes(c))
               /\ answered[c] \in Answers(c) /\ said[c] \in Nat /\ seen[c] \in Nat
               /\ cpc[c] \in {"answer", "store"} => HasLine(mes[c])
               /\ TextOK(c, cpc[c], mes[c], inbuf[c], answered[c])
               /\ ClientOK(c, cpc[c], mes[c], inbuf[c], answered[c], said[c], seen[c])
    BY DEF Types, ClientTexts, TextOK, StreamInv
  <1> HIDE DEF Goal
  <1>1. CASE Quiet
    BY <1>1 DEF Quiet, ClientTexts, StreamInv, Goal
  \* A step that changes nothing of c but its program counter.
  <1>2. ASSUME NEW c \in Clients, NEW pc \in {"read", "zombie", "reaped"},
               pc = "read" => cpc[c] = "none",
               cpc' = [cpc EXCEPT ![c] = pc], UNCHANGED <<mes, inbuf, answered, said, seen>>
        PROVE  Goal
    <2>1. Becomes(c, pc, mes[c], inbuf[c], answered[c], said[c], seen[c])
      BY <1>2 DEF Becomes, Types, ClientTexts
    <2>2. TextOK(c, pc, mes[c], inbuf[c], answered[c])
      BY <1>0, <1>2 DEF TextOK
    <2>3. ClientOK(c, pc, mes[c], inbuf[c], answered[c], said[c], seen[c])
      <3>1. /\ cpc[c] = "none" => ClientOK(c, "read", mes[c], inbuf[c], answered[c], said[c], seen[c])
            /\ ClientOK(c, "zombie", mes[c], inbuf[c], answered[c], said[c], seen[c])
            /\ ClientOK(c, "reaped", mes[c], inbuf[c], answered[c], said[c], seen[c])
        BY <1>0, ClientElse
      <3> QED
        BY <1>2, <3>1
    <2> QED
      BY <2>1, <2>2, <2>3, BecomesGood DEF Goal
  <1>3. CASE ParentStep
    <2>1. CASE ParentFork
      <3>1. /\ pcur \in Clients /\ cpc[pcur] = "none" /\ cpc' = [cpc EXCEPT ![pcur] = "read"]
            /\ UNCHANGED <<mes, inbuf, answered, said, seen>>
        BY <2>1 DEF ParentFork, ParentHolds, clientVars
      <3> QED
        BY <1>2, <3>1
    <2>2. CASE ParentAccept \/ ParentForkFails \/ ParentClose
      BY <1>1, <2>2 DEF ParentAccept, ParentForkFails, ParentClose, Quiet, clientVars, childVars
    <2> QED
      BY <1>3, <2>1, <2>2 DEF ParentStep
  <1>4. CASE Deliver
    BY <1>1, <1>4 DEF Deliver, Quiet, linkVars, clientVars, childVars
  <1>5. CASE Reap
    <2>1. UNCHANGED <<mes, inbuf, answered, said, seen>> /\ cpc' \in WaitOne
      BY <1>5 DEF Reap, linkVars, clientVars
    <2>2. cpc' = cpc \/ \E c \in Clients : cpc' = [cpc EXCEPT ![c] = "reaped"]
      BY <2>1 DEF WaitOne
    <2>3. CASE cpc' = cpc
      BY <1>1, <2>1, <2>3 DEF Quiet
    <2>4. ASSUME NEW c \in Clients, cpc' = [cpc EXCEPT ![c] = "reaped"] PROVE Goal
      BY <1>2, <2>1, <2>4
    <2> QED
      BY <2>2, <2>3, <2>4
  <1>6. ASSUME NEW c \in Clients, Own(c) PROVE Goal
    <2>1. CASE Connect(c) \/ Quit(c)
      BY <1>1, <2>1 DEF Connect, Quit, Quiet, clientVars, childVars
    <2>2. CASE WriteLine(c)
      <3> DEFINE q == inbuf[c] \o Line(c, said[c] + 1)
      <3>1. Becomes(c, cpc[c], mes[c], q, answered[c], said[c] + 1, seen[c])
        BY <2>2 DEF WriteLine, childVars, Becomes, Types, ClientTexts
      <3>2. said[c] < Len(Lines[c]) /\ (c \in Polite => seen[c] = said[c])
        BY <2>2 DEF WriteLine
      <3>3. /\ q \in Seq(Bytes(c))
            /\ ClientOK(c, cpc[c], mes[c], q, answered[c], said[c] + 1, seen[c])
        BY <1>0, <3>2, ClientWrites
      <3> HIDE DEF q
      <3>4. TextOK(c, cpc[c], mes[c], q, answered[c])
        BY <1>0, <3>3 DEF TextOK
      <3> QED
        BY <3>1, <3>3, <3>4, BecomesGood DEF Goal
    <2>3. CASE Listens(c)
      <3>1. PICK t \in {seen[c]} \cup seen[c]..Len(answered[c]) : seen' = [seen EXCEPT ![c] = t]
        BY <2>3, ListenerAlone DEF Types
      <3>2. t \in seen[c]..Len(answered[c])
        <4>1. seen[c] \in Nat /\ Len(answered[c]) \in Nat /\ seen[c] <= Len(answered[c])
          BY <1>0, LenProperties DEF ClientOK, Answers
        <4> QED
          BY <3>1, <4>1
      <3>3. Becomes(c, cpc[c], mes[c], inbuf[c], answered[c], said[c], t)
        BY <2>3, <3>1, ListenerAlone DEF Becomes, Types, ClientTexts
      <3>4. ClientOK(c, cpc[c], mes[c], inbuf[c], answered[c], said[c], t)
        BY <1>0, <3>2, ClientElse
      <3> QED
        BY <1>0, <3>3, <3>4, BecomesGood DEF Goal
    <2>4. CASE ChildRead(c)
      <3>1. PICK k \in 1..Len(inbuf[c]) :
               LET m == mes[c] \o SubSeq(inbuf[c], 1, k)
                   next == IF HasLine(m) THEN "answer" ELSE "read"
               IN  /\ k <= BufSize
                   /\ \/ Len(m) < 2 * BufSize /\ cpc' = [cpc EXCEPT ![c] = next]
                      \/ ~(k < BufSize /\ Len(m) < 2 * BufSize)
                            /\ cpc' = [cpc EXCEPT ![c] = "undefined"]
                   /\ mes' = [mes EXCEPT ![c] = m]
                   /\ inbuf' = [inbuf EXCEPT ![c] = SubSeq(@, k + 1, Len(@))]
        BY <2>4 DEF ChildRead
      <3> DEFINE x == SubSeq(inbuf[c], 1, k)
                 y == SubSeq(inbuf[c], k + 1, Len(inbuf[c]))
                 m == mes[c] \o x
      <3>2. mes[c] \in Seq(Bytes(c)) /\ inbuf[c] \in Seq(Bytes(c)) /\ k \in 1..Len(inbuf[c])
        BY <1>0
      <3>3. /\ x \in Seq(Bytes(c)) /\ Len(x) = k /\ y \in Seq(Bytes(c))
            /\ m \o y = mes[c] \o inbuf[c]
        <4> DEFINE S == Bytes(c)
                   p == mes[c]
                   q == inbuf[c]
        <4>1. p \in Seq(S) /\ q \in Seq(S) /\ k \in 1..Len(q)
          BY <3>2
        <4>2. k \in 0..Len(q)
          BY <4>1, LenProperties
        <4> HIDE DEF S, p, q
        <4>3. Cat(Cat(p, SubSeq(q, 1, k)), SubSeq(q, k + 1, Len(q))) = Cat(p, q)
          BY ONLY <4>1, ReadOn
        <4>4. /\ SubSeq(q, 1, k) \in Seq(S) /\ Len(SubSeq(q, 1, k)) = k
              /\ SubSeq(q, k + 1, Len(q)) \in Seq(S)
          BY ONLY <4>1, <4>2, Cut
        <4> QED
          BY <4>3, <4>4 DEF S, p, q, Cat
      <3>4. PICK pc \in {"read", "answer", "undefined"} :
               /\ cpc' = [cpc EXCEPT ![c] = pc] /\ (pc = "answer" => HasLine(m))
               /\ \/ Len(m) < 2 * BufSize /\ pc \in {"read", "answer"}
                  \/ ~(k < BufSize /\ Len(m) < 2 * BufSize) /\ pc = "undefined"
        BY <3>1
      <3>5. mes' = [mes EXCEPT ![c] = m] /\ inbuf' = [inbuf EXCEPT ![c] = y]
        BY <3>1
      <3>6. m \in Seq(Bytes(c))
        <4> HIDE DEF x
        <4> QED
          BY <3>2, <3>3, ConcatProperties
      <3> HIDE DEF x, y
      <3>7. ClientOK(c, pc, m, y, answered[c], said[c], seen[c])
        <4>1. cpc[c] = "read"
          BY <2>4 DEF ChildRead
        <4> QED
          BY <1>0, <3>3, <3>4, <4>1, ClientReads
      <3> HIDE DEF m
      <3>8. Becomes(c, pc, m, y, answered[c], said[c], seen[c])
        BY <2>4, <3>4, <3>5 DEF ChildRead, clientVars, Becomes, Types, ClientTexts
      <3>9. TextOK(c, pc, m, y, answered[c])
        BY <1>0, <3>3, <3>4, <3>6 DEF TextOK
      <3> QED
        BY <3>7, <3>8, <3>9, BecomesGood DEF Goal
    <2>5. CASE ChildEnd(c) \/ ChildKilled(c)
      <3>1. cpc' = [cpc EXCEPT ![c] = "zombie"] /\ UNCHANGED <<mes, inbuf, answered, said, seen>>
        BY <2>5 DEF ChildEnd, ChildKilled, clientVars
      <3> QED
        BY <1>2, <3>1
    <2> QED
      BY <1>6, <2>1, <2>2, <2>3, <2>4, <2>5 DEF Own
  <1>7. ASSUME NEW c \in Clients, ChildAnswer(c) PROVE Goal
    <2> DEFINE b == Append(answered[c], FirstLine(mes[c]))
               y == AfterLine(mes[c])
    <2>1. cpc[c] = "answer"
      BY <1>7 DEF ChildAnswer, WriteBack
    <2>2. b \in Answers(c) /\ ClientOK(c, "store", mes[c], inbuf[c], b, said[c], seen[c])
      BY <1>0, <2>1, ClientAnswered
    <2>3. Becomes(c, "read", y, inbuf[c], b, said[c], seen[c])
      BY <1>7 DEF ChildAnswer, WriteBack, linkVars, clientVars, Becomes, Types, ClientTexts
    <2> HIDE DEF b
    <2>4. y \in Seq(Bytes(c)) /\ ClientOK(c, "read", y, inbuf[c], b, said[c], seen[c])
      BY <1>0, <2>1, <2>2, ClientStored
    <2> HIDE DEF y
    <2>5. TextOK(c, "read", y, inbuf[c], b)
      BY <1>0, <2>2, <2>4 DEF TextOK
    <2> QED
      BY <2>3, <2>4, <2>5, BecomesGood DEF Goal
  <1>8. CASE Storing
    <2>1. CASE WriterOpen \/ WriterRead \/ WriterEnd \/ ReapWriter
      BY <1>1, <2>1 DEF WriterOpen, WriterRead, WriterEnd, ReapWriter, forkVars, linkVars,
         clientVars, childVars, Quiet
    <2>2. ASSUME NEW c \in Clients, StoreAnswer(c) PROVE Goal
      <3> DEFINE b == Append(answered[c], FirstLine(mes[c]))
      <3>1. cpc[c] = "answer"
        BY <2>2 DEF StoreAnswer, WriteBack
      <3>2. b \in Answers(c) /\ ClientOK(c, "store", mes[c], inbuf[c], b, said[c], seen[c])
        BY <1>0, <3>1, ClientAnswered
      <3>3. Becomes(c, "store", mes[c], inbuf[c], b, said[c], seen[c])
        BY <2>2 DEF StoreAnswer, WriteBack, linkVars, clientVars, Becomes, Types, ClientTexts
      <3> HIDE DEF b
      <3>4. TextOK(c, "store", mes[c], inbuf[c], b)
        BY <1>0, <3>1, <3>2 DEF TextOK
      <3> QED
        BY <3>2, <3>3, <3>4, BecomesGood DEF Goal
    <2>3. ASSUME NEW c \in Clients, ChildStore(c) PROVE Goal
      <3> DEFINE y == AfterLine(mes[c])
      <3>1. cpc[c] = "store"
        BY <2>3 DEF ChildStore
      <3>2. y \in Seq(Bytes(c)) /\ ClientOK(c, "read", y, inbuf[c], answered[c], said[c], seen[c])
        BY <1>0, <3>1, ClientStored
      <3>3. Becomes(c, "read", y, inbuf[c], answered[c], said[c], seen[c])
        BY <2>3 DEF ChildStore, linkVars, clientVars, Becomes, Types, ClientTexts
      <3> HIDE DEF y
      <3>4. TextOK(c, "read", y, inbuf[c], answered[c])
        BY <1>0, <3>2 DEF TextOK
      <3> QED
        BY <3>2, <3>3, <3>4, BecomesGood DEF Goal
    <2> QED
      BY <1>8, <2>1, <2>2, <2>3 DEF Storing
  <1> QED
    BY <1>3, <1>4, <1>5, <1>6, <1>7, <1>8, Steps DEF Shared, ReapClient

LEMMA RecordTextsStep ==
  ASSUME RecordTexts, ClientTexts, Next
  PROVE  RecordTexts'
  <1>1. CASE UNCHANGED <<pipe, file>>
    BY <1>1 DEF RecordTexts
  <1>2. ASSUME NEW c \in Clients, ChildStore(c) PROVE RecordTexts'
    <2> DEFINE f == FirstLine(mes[c])
    <2>1. cpc[c] = "store" /\ pipe' = Append(pipe, <<c, f>>) /\ file' = file
      BY <1>2 DEF ChildStore, Piped
    <2>2. mes[c] \in Seq(Bytes(c)) /\ HasLine(mes[c])
      BY <2>1 DEF ClientTexts, TextOK
    <2>3. f \in Seq(Bytes(c))
      BY <2>2, LineParts
    <2> HIDE DEF f
    <2>4. <<c, f>> \in Clients \X AnyLine
      BY <2>3 DEF AnyLine
    <2>5. Append(pipe, <<c, f>>) \in Seq(Clients \X AnyLine)
      BY <2>4, AppendProperties DEF RecordTexts
    <2> QED
      BY <2>1, <2>5 DEF RecordTexts
  <1>3. CASE WriterRead
    <2> DEFINE R == Clients \X AnyLine
    <2>1. pipe \in Seq(R) /\ file \in Seq(R) /\ pipe # <<>>
          /\ file' = Append(file, Head(pipe)) /\ pipe' = Tail(pipe)
      BY <1>3 DEF WriterRead, RecordTexts
    <2> HIDE DEF R
    <2>2. Head(pipe) \in R /\ Tail(pipe) \in Seq(R)
      BY <2>1, HeadTailProperties
    <2>3. Append(file, Head(pipe)) \in Seq(R)
      BY <2>1, <2>2, AppendProperties
    <2> QED
      BY <2>1, <2>2, <2>3 DEF RecordTexts, R
  <1> QED
    BY <1>1, <1>2, <1>3, Steps DEF Frame, writerVars, Storing, WriterOpen, WriterEnd, ReapWriter,
       StoreAnswer

\* The types and the streams hold at first and are kept.
LEMMA InvHolds ==
  /\ Init => TypeInv /\ StreamInv
  /\ TypeInv /\ StreamInv /\ [Next]_vars => (TypeInv /\ StreamInv)'
  <1>1. Init => TypeInv /\ StreamInv
    <2> SUFFICES ASSUME Init PROVE TypeInv /\ StreamInv
      OBVIOUS
    <2>1. ForkInit /\ server \in {"plain", "store"} /\ (server = "plain" => wpc = "none")
          /\ wpc \in {"none", "open"} /\ reads = 0 /\ pipe = <<>> /\ file = <<>>
      BY DEF Init, StoreInit
    <2>2. Types /\ ParentHolds
      <3>1. 0 \in 0..(Record - 1)
        BY ForkAssumption DEF Record
      <3> QED
        BY <2>1, <3>1 DEF ForkInit, Types, ParentHolds, Alive
    <2>3. Signals
      <3>1. Len(pipe) = 0 /\ Len(file) = 0
        BY <2>1, EmptySeq
      <3>2. reads \in 0..MaxReads /\ 0 <= PipeCap /\ 0 <= reads
        BY <2>1, StoreAssumption
      <3>3. StoreTyped
        BY <2>1, <3>1, <3>2 DEF StoreTyped
      <3> QED
        BY <2>1, <3>3 DEF ForkInit, Signals
    <2>4. ClientTexts
      <3>1. DOMAIN inbuf = Clients /\ DOMAIN mes = Clients /\ DOMAIN answered = Clients
        BY <2>1 DEF ForkInit
      <3>2. ASSUME NEW c \in Clients PROVE TextOK(c, cpc[c], mes[c], inbuf[c], answered[c])
        <4>1. cpc[c] = "none" /\ mes[c] = <<>> /\ inbuf[c] = <<>> /\ answered[c] = <<>>
          BY <2>1 DEF ForkInit
        <4>2. <<>> \in Seq(Bytes(c)) /\ <<>> \in Seq(Seq(Bytes(c)))
          BY EmptySeq
        <4> QED
          BY <4>1, <4>2 DEF TextOK, Answers
      <3> QED
        BY <3>1, <3>2 DEF ClientTexts
    <2>5. RecordTexts
      BY <2>1, EmptySeq DEF RecordTexts
    <2>6. StreamInv
      <3> SUFFICES ASSUME NEW c \in Clients
                   PROVE  ClientOK(c, cpc[c], mes[c], inbuf[c], answered[c], said[c], seen[c])
        BY DEF StreamInv
      <3>1. cpc[c] = "none" /\ mes[c] = <<>> /\ inbuf[c] = <<>> /\ answered[c] = <<>>
            /\ said[c] = 0 /\ seen[c] = 0
        BY <2>1 DEF ForkInit
      <3>2. Len(<<>>) = 0 /\ Len(Lines[c]) \in Nat /\ <<>> \o <<>> = <<>>
        BY ForkAssumption, LenProperties, EmptySeq, ConcatEmptySeq
      <3>3. AreLines(c, <<>>, 1, 0) /\ WellMade(c, <<>>, 0)
        BY <3>2 DEF AreLines, WellMade
      <3>4. Stream(c, "none", <<>>, <<>>, <<>>, 0)
        BY <3>2, <3>3 DEF Stream, Rest
      <3>5. ClientOK(c, "none", <<>>, <<>>, <<>>, 0, 0)
        BY <3>2, <3>4 DEF ClientOK
      <3> QED
        BY <3>1, <3>5
    <2> QED
      BY <2>2, <2>3, <2>4, <2>5, <2>6 DEF TypeInv
  <1>2. TypeInv /\ StreamInv /\ [Next]_vars => (TypeInv /\ StreamInv)'
    <2> SUFFICES ASSUME TypeInv, StreamInv, [Next]_vars PROVE TypeInv' /\ StreamInv'
      OBVIOUS
    <2>1. CASE Next
      BY <2>1, TypesStep, SignalsStep, ParentStepHolds, ClientsStep, RecordTextsStep DEF TypeInv
    <2>2. CASE UNCHANGED vars
      <3>1. Types' /\ Signals' /\ ParentHolds'
        BY <2>2 DEF TypeInv, Types, Signals, ParentHolds, StoreTyped, vars, forkVars, writerVars,
           linkVars, clientVars, childVars, parentVars, signalVars
      <3>2. ClientTexts' /\ RecordTexts' /\ StreamInv'
        BY <2>2 DEF TypeInv, ClientTexts, RecordTexts, StreamInv, vars, forkVars, writerVars,
           linkVars, clientVars, childVars
      <3> QED
        BY <3>1, <3>2 DEF TypeInv
    <2> QED
      BY <2>1, <2>2
  <1> QED
    BY <1>1, <1>2

\* However the processes of a server and its clients interleave, a child holds a
\* line whenever it is about to answer one, and what it has answered, what is in
\* mes and what is unread make up what its client has sent; mes stays inside its
\* two buffers while the child reads on (echo_mpserv.c:71-93,
\* echo_storeserv.c:127-153).
THEOREM TypesHold == Spec => [](TypeInv /\ StreamInv)
  BY InvHolds, PTL DEF Spec

\* However the reads of a child cut the stream of its client, the answers are the
\* lines that have been sent, in their order, and what is left are the others
\* (echo_mpserv.c:73-91, echo_storeserv.c:130-151).
THEOREM NothingIsLost == Spec => []NothingLost
  <1>1. TypeInv /\ StreamInv => NothingLost
    <2> SUFFICES ASSUME TypeInv, StreamInv, NEW c \in Clients,
                        cpc[c] \notin {"undefined", "zombie", "reaped"}
                 PROVE  LET n == Len(answered[c])
                        IN  /\ \A i \in 1..n :
                                  answered[c][i] = [j \in 1..Lines[c][i] |-> Byte(c, i, j)]
                            /\ AreLines(c, Ahead(c), n + 1, said[c])
      BY DEF NothingLost
    <2>1. Stream(c, cpc[c], mes[c], inbuf[c], answered[c], said[c])
      BY DEF StreamInv, ClientOK, Served
    <2>2. Ahead(c) = Rest(cpc[c], mes[c]) \o inbuf[c]
      BY DEF Ahead, Rest
    <2>3. \A i \in 1..Len(answered[c]) :
             answered[c][i] = [j \in 1..Lines[c][i] |-> Byte(c, i, j)]
      BY <2>1 DEF Stream, Text
    <2> QED
      BY <2>1, <2>2, <2>3 DEF Stream
  <1> QED
    BY <1>1, TypesHold, PTL

\* The parent has a new connection open, and no polite client that is connected and
\* has room for two records has overrun its buffer.
ReaderOK(c) == 2 * Record <= Room[server] /\ ~Closed(c) => reader[c] # "undefined"

ReaderInv ==
    /\ ppc = "fork" => "parent" \in holders[pcur]
    /\ \A c \in Polite : ReaderOK(c)

\* A read of a polite client is shorter than two records.
LEMMA ShortRead ==
  ASSUME TypeInv, StreamInv, NEW c \in Polite, 2 * Record <= Room[server], reader[c] # "undefined",
         ReadAnswer(c, Room[server])
  PROVE  reader'[c] # "undefined"
  <1> DEFINE R == Record
             s == seen[c]
             t == rest[c]
             g == Len(answered[c])
  <1>1. PICK k \in s..g, r \in 0..(R - 1) :
           LET n == (k - s) * R + t - r
           IN  /\ n \in 1..Room[server]
               /\ \/ UNCHANGED reader
                  \/ n = Room[server] /\ reader' = [reader EXCEPT ![c] = "undefined"]
    BY DEF ReadAnswer
  <1>2. c \in Clients /\ R \in Nat /\ s \in Nat /\ t \in 0..(R - 1) /\ g \in Nat
    <2>1. c \in Clients /\ R \in Nat
      BY ForkAssumption DEF Record
    <2>2. answered[c] \in Answers(c)
      BY <2>1 DEF TypeInv, ClientTexts, TextOK
    <2> QED
      BY <2>1, <2>2, LenProperties DEF TypeInv, Types, Answers
  <1>3. g <= s + 1
    <2>1. g <= said[c] /\ said[c] <= s + 1 /\ said[c] \in Nat
      BY <1>2 DEF StreamInv, ClientOK, TypeInv, Types
    <2> QED
      BY <1>2, <2>1
  <1> HIDE DEF R, s, t, g
  <1>4. k - s = 0 \/ k - s = 1
    BY <1>1, <1>2, <1>3
  <1>5. (k - s) * R \in {0, R}
    BY <1>2, <1>4
  <1>6. (k - s) * R + t - r < 2 * R
    BY <1>1, <1>2, <1>5
  <1>7. 2 * R <= Room[server]
    BY DEF R
  <1>8. (k - s) * R + t - r # Room[server]
    <2>1. Room[server] \in Nat
      BY RoomAssumption DEF TypeInv, Signals
    <2> QED
      BY <1>1, <1>2, <1>5, <1>6, <1>7, <2>1
  <1> QED
    BY <1>1, <1>8

LEMMA ReaderStep ==
  ASSUME TypeInv, StreamInv, ReaderInv, [Next]_vars
  PROVE  ReaderInv'
  <1> DEFINE Kept == \A c \in Clients : Closed(c) => Closed(c)'
             Opened == ppc' = "fork" => "parent" \in holders'[pcur']
  <1>1. Types /\ ParentHolds /\ Polite \subseteq Clients
    BY ForkAssumption DEF TypeInv
  <1>2. server' = server
    BY Steps DEF Frame, vars
  \* Who sets what.
  <1>3. ASSUME UNCHANGED reader, Kept, Opened PROVE ReaderInv'
    BY <1>1, <1>2, <1>3 DEF ReaderInv, ReaderOK
  <1>4. ASSUME UNCHANGED <<conn, holders, ppc, pcur>> PROVE Kept /\ Opened
    BY <1>4 DEF Closed, ReaderInv
  <1>5. CASE UNCHANGED vars
    BY <1>3, <1>4, <1>5 DEF vars, forkVars, linkVars, clientVars, parentVars
  <1>6. CASE ParentStep
    <2>1. UNCHANGED reader
      BY <1>6 DEF ParentStep, ParentAccept, ParentFork, ParentForkFails, ParentClose, clientVars
    <2>2. CASE ParentAccept
      <3>1. PICK c \in Clients : /\ conn[c] = "backlog" /\ conn' = [conn EXCEPT ![c] = "accepted"]
                                 /\ holders' = [holders EXCEPT ![c] = {"parent"}] /\ pcur' = c
        BY <2>2 DEF ParentAccept
      <3> QED
        BY <1>1, <1>3, <2>1, <3>1 DEF Types, Closed
    <2>3. CASE ParentFork \/ ParentForkFails \/ ParentClose
      <3>1. /\ conn' = conn /\ ppc' # "fork"
            /\ ppc = "fork" => "parent" \in holders[pcur]
            /\ \E h : /\ holders' = [holders EXCEPT ![pcur] = h]
                      /\ holders[pcur] = {} => h = {} \/ ppc = "fork"
        BY <2>3 DEF ParentFork, ParentForkFails, ParentClose, ReaderInv
      <3>2. Kept
        BY <1>1, <3>1 DEF Types, Closed
      <3> QED
        BY <1>3, <2>1, <3>1, <3>2
    <2> QED
      BY <1>6, <2>2, <2>3 DEF ParentStep
  <1>7. CASE Deliver \/ ReapClient \/ Storing \/ \E c \in Clients : ChildAnswer(c)
    <2>1. UNCHANGED <<reader, conn, holders, pcur>>
      BY <1>7 DEF Deliver, ReapClient, Reap, Storing, WriterOpen, WriterRead, WriterEnd, ReapWriter,
         StoreAnswer, ChildStore, ChildAnswer, forkVars, linkVars, clientVars, parentVars
    <2>2. ppc' = "fork" => ppc = "fork"
      BY <1>7 DEF Deliver, AfterInterrupt, ReapClient, Reap, Storing, WriterOpen, WriterRead,
         WriterEnd, ReapWriter, StoreAnswer, ChildStore, ChildAnswer, forkVars, parentVars
    <2>3. Kept /\ Opened
      BY <2>1, <2>2 DEF Closed, ReaderInv
    <2> QED
      BY <1>3, <2>1, <2>3
  <1>8. ASSUME NEW c \in Clients, Own(c) PROVE ReaderInv'
    <2>1. CASE Connect(c)
      <3>1. /\ conn[c] = "none" /\ conn' = [conn EXCEPT ![c] = "backlog"]
            /\ UNCHANGED <<reader, holders, ppc, pcur>>
        BY <2>1 DEF Connect, clientVars, parentVars
      <3>2. Kept /\ Opened
        BY <1>1, <3>1 DEF Types, Closed, ReaderInv
      <3> QED
        BY <1>3, <3>1, <3>2
    <2>2. CASE WriteLine(c) \/ Quit(c) \/ ChildRead(c)
      BY <1>3, <1>4, <2>2 DEF WriteLine, Quit, ChildRead, clientVars, parentVars
    <2>3. CASE ChildEnd(c) \/ ChildKilled(c)
      <3>1. /\ cpc[c] # "none" /\ holders' = [holders EXCEPT ![c] = @ \ {"child"}]
            /\ UNCHANGED <<reader, conn, ppc, pcur>>
        BY <2>3 DEF ChildEnd, ChildKilled, clientVars, parentVars
      <3>2. Kept
        BY <1>1, <3>1 DEF Types, Closed
      <3>3. Opened
        BY <1>1, <3>1 DEF Types, ParentHolds, ReaderInv
      <3> QED
        BY <1>3, <3>1, <3>2, <3>3
    <2>4. CASE Listens(c)
      <3>1. UNCHANGED <<conn, holders, ppc, pcur>>
        BY <1>1, <2>4, ListenerAlone DEF Types
      <3>2. Kept /\ Opened
        BY <1>4, <3>1
      <3>3. ASSUME NEW d \in Polite, d # c PROVE ReaderOK(d)'
        <4>1. d \in Clients /\ reader'[d] = reader[d]
          BY <1>1, <2>4, <3>3 DEF Types, Listens, ReadAnswer, ReadEnd, ClientKilled
        <4> QED
          BY <1>2, <3>2, <4>1 DEF ReaderInv, ReaderOK
      <3>4. ASSUME c \in Polite PROVE ReaderOK(c)'
        <4> SUFFICES ASSUME 2 * Record <= Room[server], ~Closed(c)' PROVE reader'[c] # "undefined"
          BY <1>2 DEF ReaderOK
        <4>1. ~Closed(c) /\ reader[c] # "undefined"
          BY <3>2, <3>4 DEF ReaderInv, ReaderOK
        <4>2. CASE ReadAnswer(c, Room[server])
          BY <3>4, <4>1, <4>2, ShortRead
        <4>3. CASE ClientKilled(c)
          BY <1>1, <4>3 DEF ClientKilled, Types
        <4> QED
          BY <2>4, <4>1, <4>2, <4>3 DEF Listens, ReadEnd
      <3>5. \A d \in Polite : ReaderOK(d)'
        BY <3>3, <3>4
      <3> QED
        BY <3>2, <3>5 DEF ReaderInv
    <2> QED
      BY <1>8, <2>1, <2>2, <2>3, <2>4 DEF Own
  <1> QED
    BY <1>5, <1>6, <1>7, <1>8, Steps DEF Shared

\* A polite client whose lines fit never makes its child overrun a buffer, and
\* while it is connected none of its own reads fills a buffer with room for two
\* records (echo_mpserv.c:73-80, echo_mpclient.c:55-59).
THEOREM BuffersAreKept == Spec => []BuffersHold
  <1>1. TypeInv /\ StreamInv /\ ReaderInv => BuffersHold
    <2> SUFFICES ASSUME TypeInv, StreamInv, ReaderInv PROVE BuffersHold
      OBVIOUS
    <2>1. ASSUME NEW c \in Clients
          PROVE  /\ inbuf[c] \in Seq(Bytes(c)) /\ mes[c] \in Seq(Bytes(c))
                 /\ rest[c] \in 0..(Record - 1)
                 /\ cpc[c] \in {"read", "answer", "store"} => Len(mes[c]) < 2 * BufSize
                 /\ 0 <= seen[c] /\ seen[c] <= Len(answered[c])
                 /\ Len(answered[c]) <= said[c] /\ said[c] <= Len(Lines[c])
                 /\ c \in Polite /\ Fits(c) => cpc[c] # "undefined"
      <3>1. TextOK(c, cpc[c], mes[c], inbuf[c], answered[c]) /\ seen[c] \in Nat
            /\ rest[c] \in 0..(Record - 1)
            /\ ClientOK(c, cpc[c], mes[c], inbuf[c], answered[c], said[c], seen[c])
        BY DEF TypeInv, ClientTexts, StreamInv, Types
      <3> QED
        BY <3>1 DEF TextOK, ClientOK
    <2>2. ForkTyped
      BY <2>1 DEF ForkTyped, TypeInv, Types, Signals
    <2>3. StoreTyped
      BY DEF TypeInv, Signals
    <2>4. ASSUME NEW c \in Polite, \A i \in 1..Len(Lines[c]) : Lines[c][i] + 1 < BufSize
          PROVE  cpc[c] # "undefined"
      <3>1. c \in Clients /\ Fits(c)
        BY <2>4, ForkAssumption DEF Fits
      <3> QED
        BY <2>1, <3>1
    <2> QED
      BY <2>2, <2>3, <2>4 DEF BuffersHold, ReaderInv, ReaderOK
  <1>2. Init => TypeInv /\ StreamInv /\ ReaderInv
    <2>1. Init => ReaderInv
      BY ForkAssumption DEF Init, StoreInit, ForkInit, ReaderInv, ReaderOK
    <2> QED
      BY <2>1, InvHolds
  <1>3. TypeInv /\ StreamInv /\ ReaderInv /\ [Next]_vars => (TypeInv /\ StreamInv /\ ReaderInv)'
    BY ReaderStep, InvHolds
  <1> QED
    BY <1>1, <1>2, <1>3, PTL DEF Spec

-----------------------------------------------------------------------------
\* The records and the answers.

LEMMA OfIs ==
  ASSUME NEW s, NEW c, NEW k \in Nat
  PROVE  /\ Of(s, c, k) \in Nat
         /\ Of(s, c, k + 1) = Of(s, c, k) + (IF s[k + 1][1] = c THEN 1 ELSE 0)
         /\ \A l \in 1..k : Of(s, c, l) \in Nat /\ Of(s, c, l) <= Of(s, c, k)
                            /\ (s[l][1] = c => Of(s, c, l) # 0)
  <1> DEFINE A(l) == {j \in 1..l : s[j][1] = c}
  <1>1. \A l \in Nat : IsFiniteSet(A(l)) /\ Cardinality(A(l)) \in Nat
    <2> SUFFICES ASSUME NEW l \in Nat PROVE IsFiniteSet(A(l)) /\ Cardinality(A(l)) \in Nat
      OBVIOUS
    <2>1. IsFiniteSet(1..l) /\ A(l) \in SUBSET (1..l)
      BY FS_Interval
    <2> HIDE DEF A
    <2>2. IsFiniteSet(A(l))
      BY <2>1, FS_Subset
    <2> QED
      BY <2>2, FS_CardinalityType
  <1>2. Of(s, c, k) = Cardinality(A(k)) /\ Of(s, c, k + 1) = Cardinality(A(k + 1))
    BY DEF Of
  <1>3. Cardinality(A(k + 1)) = Cardinality(A(k)) + (IF s[k + 1][1] = c THEN 1 ELSE 0)
    <2>1. k + 1 \notin A(k)
      OBVIOUS
    <2>2. CASE s[k + 1][1] = c
      <3>1. A(k + 1) = A(k) \cup {k + 1}
        BY <2>2
      <3> HIDE DEF A
      <3> QED
        BY <1>1, <2>1, <2>2, <3>1, FS_AddElement
    <2>3. CASE s[k + 1][1] # c
      <3>1. A(k + 1) = A(k)
        BY <2>3
      <3>2. Cardinality(A(k)) \in Nat
        BY <1>1
      <3> HIDE DEF A
      <3> QED
        BY <2>3, <3>1, <3>2
    <2> QED
      BY <2>2, <2>3
  <1>4. ASSUME NEW l \in 1..k
        PROVE  Of(s, c, l) \in Nat /\ Of(s, c, l) <= Of(s, c, k) /\ (s[l][1] = c => Of(s, c, l) # 0)
    <2>1. A(l) \in SUBSET A(k) /\ l \in Nat /\ Of(s, c, l) = Cardinality(A(l))
      BY DEF Of
    <2>2. s[l][1] = c => A(l) # {}
      OBVIOUS
    <2> HIDE DEF A
    <2>3. Cardinality(A(l)) <= Cardinality(A(k))
      BY <1>1, <2>1, FS_Subset
    <2>4. s[l][1] = c => Cardinality(A(l)) # 0
      BY <1>1, <2>1, <2>2, FS_EmptySet
    <2> QED
      BY <1>1, <1>2, <2>1, <2>3, <2>4
  <1> QED
    BY <1>1, <1>2, <1>3, <1>4

\* The answer of a child precedes its record.
LEMMA AnswerAdded ==
  ASSUME NEW s \in Seq(Clients \X AnyLine), NEW a, NEW late, NEW c \in Clients, c \notin late,
         NEW S, DOMAIN a = Clients, a[c] \in Seq(S), NEW x \in S, RecordsOK(s, a, late)
  PROVE  RecordsOK(s, [a EXCEPT ![c] = Append(@, x)], late \cup {c})
  <1> DEFINE b == [a EXCEPT ![c] = Append(@, x)]
             g == Len(a[c])
             l == Len(s)
  <1>1. b[c] = Append(a[c], x) /\ \A d \in Clients \ {c} : b[d] = a[d]
    OBVIOUS
  <1>2. /\ Len(b[c]) = g + 1 /\ \A i \in 1..g : b[c][i] = a[c][i]
        /\ g \in Nat /\ l \in Nat
    BY <1>1, AppendProperties, LenProperties
  <1> HIDE DEF b, g, l
  <1>3. g = Of(s, c, l)
    <2>1. g = Of(s, c, l) + 0 /\ Of(s, c, l) \in Nat
      BY <1>2, OfIs DEF RecordsOK, g, l
    <2> QED
      BY <2>1
  <1>4. ASSUME NEW d \in Clients
        PROVE  Len(b[d]) = Of(s, d, l) + (IF d \in late \cup {c} THEN 1 ELSE 0)
    <2>1. CASE d = c
      BY <1>2, <1>3, <2>1
    <2>2. CASE d # c
      BY <1>1, <2>2 DEF RecordsOK, l
    <2> QED
      BY <2>1, <2>2
  <1>5. ASSUME NEW k \in 1..l
        PROVE  s[k] = <<s[k][1], b[s[k][1]][Of(s, s[k][1], k)]>>
    <2> DEFINE d == s[k][1]
    <2>1. d \in Clients
      <3>1. s[k] \in Clients \X AnyLine
        BY ElementOfSeq DEF l
      <3> QED
        BY <3>1
    <2>2. s[k] = <<d, a[d][Of(s, d, k)]>>
      BY DEF RecordsOK, l
    <2>3. d = c => Of(s, d, k) \in 1..g
      <3>1. Of(s, c, k) \in Nat /\ Of(s, c, k) <= Of(s, c, l) /\ (s[k][1] = c => Of(s, c, k) # 0)
        BY <1>2, OfIs
      <3> QED
        BY <1>2, <1>3, <3>1
    <2> HIDE DEF d
    <2>4. b[d][Of(s, d, k)] = a[d][Of(s, d, k)]
      BY <1>1, <1>2, <2>1, <2>3
    <2> QED
      BY <2>2, <2>4 DEF d
  <1> QED
    BY <1>4, <1>5 DEF RecordsOK, b, l

\* The record of the last answer.
LEMMA RecordAdded ==
  ASSUME NEW s \in Seq(Clients \X AnyLine), NEW a, NEW late, NEW c \in Clients, c \in late,
         NEW x \in AnyLine, x = a[c][Len(a[c])], RecordsOK(s, a, late)
  PROVE  RecordsOK(Append(s, <<c, x>>), a, late \ {c})
  <1> DEFINE t == Append(s, <<c, x>>)
             l == Len(s)
  <1>1. <<c, x>> \in Clients \X AnyLine
    OBVIOUS
  <1>2. /\ Len(t) = l + 1 /\ t[l + 1] = <<c, x>> /\ \A i \in 1..l : t[i] = s[i]
        /\ l \in Nat
    BY <1>1, AppendProperties, LenProperties
  <1> HIDE DEF t
  <1>3. \A d : \A k \in 0..l : Of(t, d, k) = Of(s, d, k)
    <2> SUFFICES ASSUME NEW d, NEW k \in 0..l PROVE Of(t, d, k) = Of(s, d, k)
      OBVIOUS
    <2>1. \A j \in 1..k : j \in 1..l
      BY <1>2
    <2>2. {j \in 1..k : t[j][1] = d} = {j \in 1..k : s[j][1] = d}
      BY <1>2, <2>1
    <2> QED
      BY <2>2 DEF Of
  <1>4. \A d : /\ Of(s, d, l) \in Nat
               /\ Of(t, d, l + 1) = Of(s, d, l) + (IF c = d THEN 1 ELSE 0)
    <2> SUFFICES ASSUME NEW d
                 PROVE  /\ Of(s, d, l) \in Nat
                        /\ Of(t, d, l + 1) = Of(s, d, l) + (IF c = d THEN 1 ELSE 0)
      OBVIOUS
    <2>0. l \in Nat
      BY <1>2
    <2> HIDE DEF l
    <2>3. Of(s, d, l) \in Nat
      BY <2>0, OfIs
    <2>1. Of(t, d, l + 1) = Of(t, d, l) + (IF t[l + 1][1] = d THEN 1 ELSE 0)
      BY <2>0, OfIs
    <2>2. Of(t, d, l) = Of(s, d, l) /\ t[l + 1][1] = c
      BY <1>2, <1>3, <2>0
    <2> QED
      BY <2>1, <2>2, <2>3
  <1>5. \A d \in Clients : Len(a[d]) = Of(s, d, l) + (IF d \in late THEN 1 ELSE 0)
    BY DEF RecordsOK
  <1>6. \A k \in 1..l : s[k] = <<s[k][1], a[s[k][1]][Of(s, s[k][1], k)]>>
    BY DEF RecordsOK
  <1> HIDE DEF l
  <1>7. ASSUME NEW d \in Clients
        PROVE  Len(a[d]) = Of(t, d, l + 1) + (IF d \in late \ {c} THEN 1 ELSE 0)
    <2>1. CASE d = c
      BY <1>4, <1>5, <2>1
    <2>2. CASE d # c
      BY <1>4, <1>5, <2>2
    <2> QED
      BY <2>1, <2>2
  <1>8. ASSUME NEW k \in 1..(l + 1)
        PROVE  t[k] = <<t[k][1], a[t[k][1]][Of(t, t[k][1], k)]>>
    <2>1. CASE k \in 1..l
      <3>1. t[k] = s[k] /\ k \in 0..l
        BY <1>2, <2>1
      <3>2. Of(t, s[k][1], k) = Of(s, s[k][1], k)
        BY <1>3, <3>1
      <3>3. s[k] = <<s[k][1], a[s[k][1]][Of(s, s[k][1], k)]>>
        BY <1>6, <2>1
      <3> QED
        BY <3>1, <3>2, <3>3
    <2>2. CASE k = l + 1
      <3>1. Len(a[c]) = Of(t, c, l + 1)
        BY <1>4, <1>5
      <3> QED
        BY <1>2, <2>2, <3>1
    <2> QED
      BY <1>2, <2>1, <2>2
  <1> QED
    <2>1. Len(t) = l + 1
      BY <1>2
    <2>2. RecordsOK(t, a, late \ {c})
      BY <1>7, <1>8, <2>1 DEF RecordsOK
    <2> QED
      BY <2>2 DEF t

LEMMA StoreStepOrder ==
  ASSUME TypeInv, StreamInv, StoreInv, Next
  PROVE  StoreInv'
  <1>0. server' = server
    BY Steps DEF Frame
  <1> SUFFICES ASSUME server = "store" PROVE RecordsOK(Stored', answered', Late')
    BY <1>0 DEF StoreInv
  <1>1. RecordsOK(Stored, answered, Late)
    BY DEF StoreInv
  <1>2. ASSUME Stored' = Stored, answered' = answered, Late' = Late
        PROVE  RecordsOK(Stored', answered', Late')
    BY <1>1, <1>2
  <1>3. /\ file \in Seq(Clients \X AnyLine) /\ pipe \in Seq(Clients \X AnyLine)
        /\ Stored \in Seq(Clients \X AnyLine)
    BY ConcatProperties DEF TypeInv, RecordTexts, Stored
  <1>4. ASSUME NEW c \in Clients, NEW pc, cpc' = [cpc EXCEPT ![c] = pc]
        PROVE  /\ cpc[c] # "store" /\ pc # "store" => Late' = Late
               /\ cpc[c] # "store" /\ pc = "store" => Late' = Late \cup {c} /\ c \notin Late
               /\ cpc[c] = "store" /\ pc # "store" => Late' = Late \ {c} /\ c \in Late
    <2>1. cpc'[c] = pc /\ \A d \in Clients \ {c} : cpc'[d] = cpc[d]
      BY <1>4 DEF TypeInv, Types
    <2> QED
      BY <2>1 DEF Late
  <1>5. CASE Frame /\ Shared
    <2>1. Stored' = Stored
      BY <1>5 DEF Frame, writerVars, Stored
    <2>2. ASSUME answered' = answered, NEW c \in Clients, NEW pc, pc # "store", cpc[c] # "store",
                 cpc' = [cpc EXCEPT ![c] = pc]
          PROVE  RecordsOK(Stored', answered', Late')
      BY <1>2, <1>4, <2>1, <2>2
    <2>3. ASSUME answered' = answered, cpc' = cpc PROVE RecordsOK(Stored', answered', Late')
      BY <1>2, <2>1, <2>3 DEF Late
    <2>4. CASE ParentStep
      <3>1. CASE ParentFork
        <4>1. pcur \in Clients /\ cpc[pcur] = "none" /\ cpc' = [cpc EXCEPT ![pcur] = "read"]
              /\ answered' = answered
          BY <3>1 DEF ParentFork, TypeInv, ParentHolds
        <4> QED
          BY <2>2, <4>1
      <3>2. CASE ParentAccept \/ ParentForkFails \/ ParentClose
        BY <2>3, <3>2 DEF ParentAccept, ParentForkFails, ParentClose, childVars
      <3> QED
        BY <2>4, <3>1, <3>2 DEF ParentStep
    <2>5. CASE Deliver
      BY <2>3, <2>5 DEF Deliver, childVars
    <2>6. CASE Reap
      <3>1. answered' = answered /\ cpc' \in WaitOne
        BY <2>6 DEF Reap
      <3>2. \/ cpc' = cpc
            \/ \E c \in Clients : cpc[c] = "zombie" /\ cpc' = [cpc EXCEPT ![c] = "reaped"]
        BY <3>1 DEF WaitOne
      <3> QED
        BY <2>2, <2>3, <3>1, <3>2
    <2>7. ASSUME NEW c \in Clients, Own(c) PROVE RecordsOK(Stored', answered', Late')
      <3>1. CASE Connect(c) \/ WriteLine(c) \/ Quit(c) \/ Listens(c)
        BY <2>3, <3>1 DEF Connect, WriteLine, Quit, Listens, ReadAnswer, ReadEnd, ClientKilled,
           childVars
      <3>2. CASE ChildRead(c)
        <4>1. PICK pc \in {"read", "answer", "undefined"} : cpc' = [cpc EXCEPT ![c] = pc]
          BY <3>2 DEF ChildRead
        <4>2. cpc[c] = "read" /\ answered' = answered
          BY <3>2 DEF ChildRead
        <4> QED
          BY <2>2, <4>1, <4>2
      <3>3. CASE ChildEnd(c) \/ ChildKilled(c)
        <4>1. cpc[c] # "store" /\ cpc' = [cpc EXCEPT ![c] = "zombie"] /\ answered' = answered
          BY <3>3 DEF ChildEnd, ChildKilled
        <4> QED
          BY <2>2, <4>1
      <3> QED
        BY <2>7, <3>1, <3>2, <3>3 DEF Own
    <2> QED
      BY <1>5, <2>4, <2>5, <2>6, <2>7 DEF Shared, ReapClient
  <1>6. ASSUME NEW c \in Clients, StoreAnswer(c) PROVE RecordsOK(Stored', answered', Late')
    <2> DEFINE f == FirstLine(mes[c])
               S == Seq(Bytes(c))
    <2>1. /\ cpc[c] = "answer" /\ cpc' = [cpc EXCEPT ![c] = "store"] /\ Stored' = Stored
          /\ answered' = [answered EXCEPT ![c] = Append(@, f)]
      BY <1>6 DEF StoreAnswer, WriteBack, writerVars, Stored
    <2>2. /\ mes[c] \in Seq(Bytes(c)) /\ HasLine(mes[c]) /\ answered[c] \in Seq(S)
          /\ DOMAIN answered = Clients
      BY <2>1 DEF TypeInv, ClientTexts, TextOK, Answers
    <2>3. f \in S
      BY <2>2, LineParts
    <2>4. Late' = Late \cup {c} /\ c \notin Late
      BY <1>4, <2>1
    <2> HIDE DEF f, S
    <2>5. RecordsOK(Stored, [answered EXCEPT ![c] = Append(@, f)], Late \cup {c})
      BY <1>1, <1>3, <2>2, <2>3, <2>4, AnswerAdded
    <2> QED
      BY <2>1, <2>4, <2>5
  <1>7. ASSUME NEW c \in Clients, ChildStore(c) PROVE RecordsOK(Stored', answered', Late')
    <2> DEFINE f == FirstLine(mes[c])
    <2>1. /\ cpc[c] = "store" /\ cpc' = [cpc EXCEPT ![c] = "read"]
          /\ pipe' = Append(pipe, <<c, f>>) /\ file' = file /\ answered' = answered
      BY <1>7 DEF ChildStore, Piped
    <2>2. /\ mes[c] \in Seq(Bytes(c)) /\ HasLine(mes[c])
          /\ f = answered[c][Len(answered[c])]
      BY <2>1 DEF TypeInv, ClientTexts, TextOK, StreamInv, ClientOK, Served, Stream
    <2>3. f \in AnyLine
      <3>1. f \in Seq(Bytes(c))
        BY <2>2, LineParts
      <3> QED
        BY <3>1 DEF AnyLine
    <2>4. Late' = Late \ {c} /\ c \in Late
      <3>1. cpc'[c] = "read" /\ \A d \in Clients \ {c} : cpc'[d] = cpc[d]
        BY <2>1 DEF TypeInv, Types
      <3> QED
        BY <2>1, <3>1 DEF Late
    <2> HIDE DEF f
    <2>5. Stored' = Append(Stored, <<c, f>>)
      <3> DEFINE R == Clients \X AnyLine
                 e == <<c, f>>
      <3>1. e \in R /\ file \in Seq(R) /\ pipe \in Seq(R) /\ Stored \in Seq(R)
        BY <1>3, <2>3
      <3> HIDE DEF R, e
      <3>2. Append(pipe, e) = pipe \o <<e>> /\ <<e>> \in Seq(R)
        BY <3>1, AppendIsConcat
      <3>3. Append(Stored, e) = Stored \o <<e>>
        BY <3>1, AppendIsConcat
      <3> DEFINE z == <<e>>
      <3>4. z \in Seq(R)
        BY <3>2
      <3> HIDE DEF z
      <3>5. (file \o pipe) \o z = file \o (pipe \o z)
        <4>1. Cat(Cat(file, pipe), z) = Cat(file, Cat(pipe, z))
          BY <3>1, <3>4, CatAssociative
        <4> QED
          BY <4>1 DEF Cat
      <3>6. Stored' = file \o (pipe \o z) /\ Append(Stored, e) = (file \o pipe) \o z
        BY <2>1, <3>2, <3>3 DEF Stored, z, e
      <3> QED
        BY <3>5, <3>6 DEF e
    <2>6. RecordsOK(Append(Stored, <<c, f>>), answered, Late \ {c})
      BY <1>1, <1>3, <2>2, <2>3, <2>4, RecordAdded
    <2> QED
      BY <2>1, <2>4, <2>5, <2>6
  <1>8. CASE WriterRead
    <2> DEFINE R == Clients \X AnyLine
               h == Head(pipe)
               t == Tail(pipe)
    <2>1. /\ pipe # <<>> /\ file' = Append(file, h) /\ pipe' = t
          /\ answered' = answered /\ cpc' = cpc
      BY <1>8 DEF WriterRead, forkVars, childVars
    <2>2. pipe \in Seq(R) /\ file \in Seq(R) /\ h \in R /\ t \in Seq(R)
      BY <1>3, <2>1, HeadTailProperties
    <2>3. Stored' = Stored
      <3>1. pipe = <<h>> \o t /\ <<h>> \in Seq(R)
        <4>1. <<h>> \in Seq(R) /\ Len(<<h>>) = 1 /\ <<h>>[1] = h
          BY <2>2
        <4>2. /\ Len(t) = Len(pipe) - 1 /\ \A i \in 1..Len(t) : t[i] = pipe[i + 1]
              /\ h = pipe[1] /\ Len(pipe) \in Nat
          BY <2>1, <2>2, HeadTailProperties, LenProperties
        <4> DEFINE z == <<h>>
        <4>3. z \in Seq(R) /\ Len(z) = 1 /\ z[1] = h
          BY <4>1
        <4> HIDE DEF R, h, t, z
        <4>4. Len(z) + Len(t) = Len(pipe)
          BY <4>2, <4>3
        <4>5. \A k \in 1..Len(z) : z[k] = pipe[k]
          BY <4>2, <4>3
        <4>6. \A k \in 1..Len(t) : t[k] = pipe[Len(z) + k]
          <5> SUFFICES ASSUME NEW k \in 1..Len(t) PROVE t[k] = pipe[Len(z) + k]
            OBVIOUS
          <5>1. Len(z) + k = k + 1
            BY <4>3
          <5> QED
            BY <4>2, <5>1
        <4>7. Cat(z, t) = pipe
          BY <2>2, <4>3, <4>4, <4>5, <4>6, Joined
        <4> QED
          BY <4>3, <4>7 DEF z, Cat
      <3> DEFINE z == <<h>>
      <3>2. z \in Seq(R) /\ pipe = z \o t /\ Append(file, h) = file \o z
        BY <2>2, <3>1, AppendIsConcat
      <3> HIDE DEF R, h, t, z
      <3>3. (file \o z) \o t = file \o (z \o t)
        <4>1. Cat(Cat(file, z), t) = Cat(file, Cat(z, t))
          BY <2>2, <3>2, CatAssociative
        <4> QED
          BY <4>1 DEF Cat
      <3> QED
        BY <2>1, <3>2, <3>3 DEF Stored
    <2> QED
      BY <1>2, <2>1, <2>3 DEF Late
  <1>9. CASE WriterOpen \/ WriterEnd \/ ReapWriter
    BY <1>2, <1>9 DEF WriterOpen, WriterEnd, ReapWriter, forkVars, childVars, Stored, Late
  <1> QED
    BY <1>5, <1>6, <1>7, <1>8, <1>9, Steps DEF Storing

\* The records of a client are its answers in their order, with at most the last
\* one missing, however its child, the others and the writer interleave
\* (echo_storeserv.c:75-89, 147-148).
THEOREM RecordsInOrder == Spec => []StoreOrder
  <1>1. Init => StoreInv
    <2> SUFFICES ASSUME Init, server = "store" PROVE RecordsOK(Stored, answered, Late)
      BY DEF StoreInv
    <2>1. ForkInit /\ pipe = <<>> /\ file = <<>>
      BY DEF Init, StoreInit
    <2>2. Stored = <<>> /\ Len(Stored) = 0
      <3>1. <<>> \in Seq({}) /\ Len(<<>>) = 0
        BY EmptySeq
      <3>2. <<>> \o <<>> = <<>>
        BY <3>1, ConcatEmptySeq
      <3> QED
        BY <2>1, <3>1, <3>2 DEF Stored
    <2>3. ASSUME NEW c \in Clients
          PROVE  Len(answered[c]) = Of(Stored, c, Len(Stored)) + (IF c \in Late THEN 1 ELSE 0)
      <3>1. answered[c] = <<>> /\ c \notin Late
        BY <2>1 DEF ForkInit, Late
      <3>2. {j \in 1..0 : Stored[j][1] = c} = {}
        OBVIOUS
      <3>3. Of(Stored, c, 0) = 0
        BY <3>2, FS_EmptySet DEF Of
      <3>4. Len(answered[c]) = 0
        BY <2>2, <3>1, EmptySeq
      <3> QED
        BY <2>2, <3>1, <3>3, <3>4
    <2> QED
      BY <2>2, <2>3 DEF RecordsOK
  <1>2. TypeInv /\ StreamInv /\ StoreInv /\ [Next]_vars => StoreInv'
    <2>1. ASSUME StoreInv, UNCHANGED vars PROVE StoreInv'
      <3>1. Stored' = Stored /\ answered' = answered /\ Late' = Late /\ server' = server
        BY <2>1 DEF vars, forkVars, writerVars, childVars, Stored, Late
      <3> QED
        BY <2>1, <3>1 DEF StoreInv
    <2> QED
      BY <2>1, StoreStepOrder
  <1>3. TypeInv /\ StoreInv => StoreOrder
    <2> SUFFICES ASSUME TypeInv, StoreInv, server = "store"
                 PROVE  /\ \A c \in Clients :
                              Len(answered[c]) - Records(c, Len(Stored)) \in {0, 1}
                        /\ \A k \in 1..Len(Stored) :
                              Stored[k] = <<Stored[k][1],
                                            answered[Stored[k][1]][Records(Stored[k][1], k)]>>
      BY DEF StoreOrder
    <2>1. \A c, k : Records(c, k) = Of(Stored, c, k)
      BY DEF Records, Of
    <2>2. RecordsOK(Stored, answered, Late)
      BY DEF StoreInv
    <2>3. Len(Stored) \in Nat
      <3>1. Stored \in Seq(Clients \X AnyLine)
        BY ConcatProperties DEF TypeInv, RecordTexts, Stored
      <3> QED
        BY <3>1, LenProperties
    <2>4. ASSUME NEW c \in Clients PROVE Len(answered[c]) - Records(c, Len(Stored)) \in {0, 1}
      <3> DEFINE g == Len(answered[c])
                 o == Of(Stored, c, Len(Stored))
      <3>1. g = o + (IF c \in Late THEN 1 ELSE 0)
        BY <2>2 DEF RecordsOK
      <3>2. o \in Nat
        BY <2>3, OfIs
      <3> HIDE DEF g, o
      <3>3. g - o \in {0, 1}
        BY <3>1, <3>2
      <3> QED
        BY <2>1, <3>3 DEF g, o
    <2> QED
      BY <2>1, <2>2, <2>4 DEF RecordsOK
  <1> QED
    BY <1>1, <1>2, <1>3, TypesHold, PTL DEF Spec

-----------------------------------------------------------------------------
\* The children, as ChildReaper sees them.

AllChildren == Clients \cup {Writer}
StageOf(pc) == IF pc \in {"none", "zombie", "reaped"} THEN pc ELSE "running"
Stages == [d \in AllChildren |-> Stage(d)]

LEMMA StagesMove ==
  ASSUME Types
  PROVE  /\ \A c \in Clients : Stages[c] = StageOf(cpc[c])
         /\ Stages[Writer] = StageOf(wpc)
         /\ cpc' = cpc /\ wpc' = wpc => Stages' = Stages
         /\ cpc' = cpc => Stages' = [Stages EXCEPT ![Writer] = StageOf(wpc')]
  <1>1. \A c \in Clients : c # Writer
    BY StoreAssumption
  <1>2. cpc' = cpc => Stages' = [Stages EXCEPT ![Writer] = StageOf(wpc')]
    BY <1>1 DEF Stages, Stage, StageOf, AllChildren
  <1>3. cpc' = cpc /\ wpc' = wpc => Stages' = Stages
    BY DEF Stages, Stage
  <1> QED
    BY <1>1, <1>2, <1>3 DEF Stages, Stage, StageOf, AllChildren

LEMMA ClientMoves ==
  ASSUME Types, wpc' = wpc, NEW c \in Clients, NEW pc, cpc' = [cpc EXCEPT ![c] = pc]
  PROVE  Stages' = [Stages EXCEPT ![c] = StageOf(pc)]
  <1>1. \A d \in Clients : d # Writer
    BY StoreAssumption
  <1>2. cpc'[c] = pc /\ \A d \in Clients \ {c} : cpc'[d] = cpc[d]
    BY DEF Types
  <1> QED
    BY <1>1, <1>2 DEF Stages, Stage, StageOf, AllChildren

\* A step that leaves all children in their stages and raises no signal.
LEMMA SameStage ==
  ASSUME Types, UNCHANGED <<pending, handling, merged>>,
         \/ cpc' = cpc /\ StageOf(wpc') = StageOf(wpc)
         \/ /\ wpc' = wpc
            /\ \E c \in Clients : \E pc :
                  cpc' = [cpc EXCEPT ![c] = pc] /\ StageOf(pc) = StageOf(cpc[c])
  PROVE  UNCHANGED Reaper!reaperVars
  <1>1. Stages' = Stages
    <2>1. DOMAIN Stages = AllChildren /\ Writer \in AllChildren /\ Clients \subseteq AllChildren
      BY DEF Stages, AllChildren
    <2>2. Stages = [d \in AllChildren |-> Stages[d]]
      BY DEF Stages
    <2>3. CASE cpc' = cpc /\ StageOf(wpc') = StageOf(wpc)
      <3>1. Stages' = [Stages EXCEPT ![Writer] = Stages[Writer]]
        BY <2>3, StagesMove
      <3> QED
        BY <2>1, <2>2, <3>1
    <2>4. ASSUME wpc' = wpc, NEW c \in Clients, NEW pc, cpc' = [cpc EXCEPT ![c] = pc],
                 StageOf(pc) = StageOf(cpc[c])
          PROVE  Stages' = Stages
      <3>1. Stages' = [Stages EXCEPT ![c] = StageOf(pc)]
        BY <2>4, ClientMoves
      <3>2. Stages[c] = StageOf(pc)
        BY <2>4, StagesMove
      <3> QED
        BY <2>1, <2>2, <3>1, <3>2
    <2> QED
      BY <2>3, <2>4
  <1> QED
    BY <1>1 DEF Reaper!reaperVars, Stages, AllChildren

LEMMA ReaperStep ==
  ASSUME Types, Signals, ParentHolds, Next
  PROVE  Reaper!ReaperNext \/ UNCHANGED Reaper!reaperVars
  <1> DEFINE Goal == Reaper!ReaperNext \/ UNCHANGED Reaper!reaperVars
  <1> SUFFICES Goal
    OBVIOUS
  <1>0. \A c \in Clients : c \in AllChildren
    BY DEF AllChildren
  <1>1. ASSUME NEW c \in AllChildren, Stages[c] = "running", Raise,
               Stages' = [Stages EXCEPT ![c] = "zombie"]
        PROVE  Goal
    <2>1. Reaper!Exit(c)
      BY <1>1 DEF Raise, Reaper!Exit, Reaper!OneIf, Stages, AllChildren
    <2> QED
      BY <2>1 DEF Reaper!ReaperNext, AllChildren
  <1>2. ASSUME handling, handling' = FALSE, UNCHANGED <<pending, merged>>,
               \/ (\A d \in AllChildren : Stages[d] # "zombie") /\ Stages' = Stages
               \/ \E c \in AllChildren :
                     Stages[c] = "zombie" /\ Stages' = [Stages EXCEPT ![c] = "reaped"]
        PROVE  Goal
    <2>1. Reaper!In("zombie") = {d \in AllChildren : Stages[d] = "zombie"}
      BY DEF Reaper!In, Stages, AllChildren
    <2>2. Stages' \in IF Reaper!In("zombie") = {} THEN {Stages}
                      ELSE {[Stages EXCEPT ![c] = "reaped"] : c \in Reaper!In("zombie")}
      BY <1>2, <2>1
    <2>3. Reaper!Reap
      BY <1>2, <2>2 DEF Reaper!Reap, Reaper!WaitOne, Stages, AllChildren
    <2> QED
      BY <2>3 DEF Reaper!ReaperNext
  <1>3. CASE Frame /\ Shared
    <2>1. wpc' = wpc
      BY <1>3 DEF Frame, writerVars
    <2>2. ASSUME UNCHANGED <<cpc, signalVars>> PROVE Goal
      BY <2>1, <2>2, SameStage DEF signalVars
    <2>3. CASE ParentStep
      <3>1. CASE ParentFork
        <4>1. /\ pcur \in Clients /\ cpc[pcur] = "none" /\ cpc' = [cpc EXCEPT ![pcur] = "read"]
              /\ UNCHANGED <<pending, handling, merged>>
          BY <3>1 DEF ParentFork, ParentHolds, signalVars
        <4>2. Stages[pcur] = "none" /\ Stages' = [Stages EXCEPT ![pcur] = "running"]
          <5>1. StageOf("none") = "none" /\ StageOf("read") = "running"
            BY DEF StageOf
          <5>2. Stages' = [Stages EXCEPT ![pcur] = StageOf("read")]
            BY <2>1, <4>1, ClientMoves
          <5>3. Stages[pcur] = StageOf("none")
            BY <4>1, StagesMove
          <5> QED
            BY <5>1, <5>2, <5>3
        <4>3. Reaper!Fork(pcur)
          BY <4>1, <4>2 DEF Reaper!Fork, Stages, AllChildren
        <4> QED
          BY <4>1, <4>3 DEF Reaper!ReaperNext
      <3>2. CASE ParentAccept \/ ParentForkFails \/ ParentClose
        BY <2>2, <3>2 DEF ParentAccept, ParentForkFails, ParentClose, childVars
      <3> QED
        BY <2>3, <3>1, <3>2 DEF ParentStep
    <2>4. CASE Deliver
      <3>1. Stages' = Stages /\ pending /\ ~handling /\ pending' = FALSE /\ handling' = TRUE
            /\ merged' = merged
        BY <2>1, <2>4, StagesMove DEF Deliver, childVars
      <3>2. Reaper!Deliver
        BY <3>1 DEF Reaper!Deliver, Stages, AllChildren
      <3> QED
        BY <3>2 DEF Reaper!ReaperNext
    <2>5. CASE ReapClient
      <3>1. handling /\ handling' = FALSE /\ UNCHANGED <<pending, merged>> /\ cpc' \in WaitOne
        BY <2>5 DEF ReapClient, Reap
      <3>2. CASE \E c \in Clients : cpc[c] = "zombie"
        <4>1. PICK c \in Clients : cpc[c] = "zombie" /\ cpc' = [cpc EXCEPT ![c] = "reaped"]
          BY <3>1, <3>2 DEF WaitOne
        <4>2. StageOf("zombie") = "zombie" /\ StageOf("reaped") = "reaped"
          BY DEF StageOf
        <4>3. Stages' = [Stages EXCEPT ![c] = StageOf("reaped")]
          BY <2>1, <4>1, ClientMoves
        <4>4. Stages[c] = StageOf("zombie")
          BY <4>1, StagesMove
        <4> QED
          BY <1>0, <1>2, <3>1, <4>2, <4>3, <4>4
      <3>3. CASE ~ \E c \in Clients : cpc[c] = "zombie"
        <4>1. cpc' = cpc
          BY <3>1, <3>3 DEF WaitOne
        <4>2. wpc # "zombie"
          BY <2>5, <3>3 DEF ReapClient, Signals
        <4>3. \A pc : pc # "zombie" => StageOf(pc) # "zombie"
          BY DEF StageOf
        <4>4. \A d \in AllChildren : Stages[d] # "zombie"
          BY <3>3, <4>2, <4>3, StagesMove DEF AllChildren
        <4>5. Stages' = Stages
          BY <2>1, <4>1, StagesMove
        <4> QED
          BY <1>2, <3>1, <4>4, <4>5
      <3> QED
        BY <3>2, <3>3
    <2>6. ASSUME NEW c \in Clients, Own(c) PROVE Goal
      <3>1. CASE Connect(c) \/ WriteLine(c) \/ Quit(c) \/ Listens(c)
        BY <2>2, <3>1 DEF Connect, WriteLine, Quit, Listens, ReadAnswer, ReadEnd, ClientKilled,
           childVars
      <3>2. CASE ChildRead(c)
        <4>1. PICK pc \in {"read", "answer", "undefined"} : cpc' = [cpc EXCEPT ![c] = pc]
          BY <3>2 DEF ChildRead
        <4>2. cpc[c] = "read" /\ UNCHANGED <<pending, handling, merged>>
          BY <3>2 DEF ChildRead, signalVars
        <4>3. StageOf(pc) = StageOf(cpc[c])
          BY <4>2 DEF StageOf
        <4> QED
          BY <2>1, <4>1, <4>2, <4>3, SameStage
      <3>3. CASE ChildEnd(c) \/ ChildKilled(c)
        <4>1. /\ cpc[c] \in {"read", "answer", "undefined"} /\ cpc' = [cpc EXCEPT ![c] = "zombie"]
             /\ Raise
          BY <3>3 DEF ChildEnd, ChildKilled
        <4>2. StageOf(cpc[c]) = "running" /\ StageOf("zombie") = "zombie"
          BY <4>1 DEF StageOf
        <4>3. Stages' = [Stages EXCEPT ![c] = StageOf("zombie")]
          BY <2>1, <4>1, ClientMoves
        <4>4. Stages[c] = "running"
          BY <4>2, StagesMove
        <4> QED
          BY <1>0, <1>1, <4>1, <4>2, <4>3, <4>4
      <3> QED
        BY <2>6, <3>1, <3>2, <3>3 DEF Own
    <2> QED
      BY <1>3, <2>3, <2>4, <2>5, <2>6 DEF Shared
  <1>4. ASSUME NEW c \in Clients, NEW pc, pc \in {"read", "store"}, cpc[c] \in {"answer", "store"},
               cpc' = [cpc EXCEPT ![c] = pc], wpc' = wpc, UNCHANGED signalVars
        PROVE  Goal
    <2>1. StageOf(pc) = StageOf(cpc[c])
      BY <1>4 DEF StageOf
    <2> QED
      BY <1>4, <2>1, SameStage DEF signalVars
  <1>5. ASSUME Frame, NEW c \in Clients, ChildAnswer(c) PROVE Goal
    <2>1. cpc[c] = "answer" /\ cpc' = [cpc EXCEPT ![c] = "read"] /\ wpc' = wpc /\ UNCHANGED signalVars
      BY <1>5 DEF ChildAnswer, WriteBack, Frame, writerVars
    <2> QED
      BY <1>4, <2>1
  <1>6. CASE Storing
    <2>1. CASE WriterOpen \/ WriterRead
      <3>1. /\ wpc \in {"open", "read"} /\ wpc' \in {"read", "close", "undefined"} /\ cpc' = cpc
            /\ UNCHANGED <<pending, handling, merged>>
        BY <2>1 DEF WriterOpen, WriterRead, forkVars, childVars, signalVars
      <3>2. StageOf(wpc') = StageOf(wpc)
        BY <3>1 DEF StageOf
      <3> QED
        BY <3>1, <3>2, SameStage
    <2>2. CASE WriterEnd
      <3>1. wpc \in {"close", "undefined", "read"} /\ wpc' = "zombie" /\ cpc' = cpc /\ Raise
        BY <2>2 DEF WriterEnd, childVars
      <3>2. StageOf(wpc) = "running" /\ StageOf(wpc') = "zombie"
        BY <3>1 DEF StageOf
      <3>3. Stages[Writer] = "running" /\ Stages' = [Stages EXCEPT ![Writer] = "zombie"]
        BY <3>1, <3>2, StagesMove
      <3>4. Writer \in AllChildren
        BY DEF AllChildren
      <3> QED
        BY <1>1, <3>1, <3>3, <3>4
    <2>3. CASE ReapWriter
      <3>1. /\ wpc = "zombie" /\ wpc' = "reaped" /\ cpc' = cpc
            /\ handling /\ handling' = FALSE /\ UNCHANGED <<pending, merged>>
        BY <2>3 DEF ReapWriter, childVars
      <3>2. StageOf(wpc) = "zombie" /\ StageOf(wpc') = "reaped"
        BY <3>1 DEF StageOf
      <3>3. Stages[Writer] = "zombie" /\ Stages' = [Stages EXCEPT ![Writer] = "reaped"]
        BY <3>1, <3>2, StagesMove
      <3>4. Writer \in AllChildren
        BY DEF AllChildren
      <3> QED
        BY <1>2, <3>1, <3>3, <3>4
    <2>4. ASSUME NEW c \in Clients, StoreAnswer(c) PROVE Goal
      <3>1. /\ cpc[c] = "answer" /\ cpc' = [cpc EXCEPT ![c] = "store"] /\ wpc' = wpc
            /\ UNCHANGED signalVars
        BY <2>4 DEF StoreAnswer, WriteBack, writerVars
      <3> QED
        BY <1>4, <3>1
    <2>5. ASSUME NEW c \in Clients, ChildStore(c) PROVE Goal
      <3>1. /\ cpc[c] = "store" /\ cpc' = [cpc EXCEPT ![c] = "read"] /\ wpc' = wpc
            /\ UNCHANGED signalVars
        BY <2>5 DEF ChildStore
      <3> QED
        BY <1>4, <3>1
    <2> QED
      BY <1>6, <2>1, <2>2, <2>3, <2>4, <2>5 DEF Storing
  <1> QED
    BY <1>3, <1>5, <1>6, Steps

\* Both servers collect their children as ChildReaper does, the writer included
\* (echo_mpserv.c:105-111, echo_storeserv.c:165-171).
THEOREM ChildrenReaped == Spec => ReapsLikeDemo
  <1>1. TypeInv /\ [Next]_vars => [Reaper!ReaperNext]_(Reaper!reaperVars)
    <2>1. ASSUME UNCHANGED vars PROVE UNCHANGED Reaper!reaperVars
      <3>1. UNCHANGED <<cpc, wpc, pending, handling, merged>>
        BY <2>1 DEF vars, forkVars, writerVars, childVars, signalVars
      <3> QED
        BY <3>1 DEF Reaper!reaperVars, Stage
    <2> QED
      BY <2>1, ReaperStep DEF TypeInv
  <1> QED
    BY <1>1, TypesHold, PTL DEF Spec, ReapsLikeDemo
=============================================================================
