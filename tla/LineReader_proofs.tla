------------------------- MODULE LineReader_proofs -------------------------
(***************************************************************************)
(* Proofs about the receiving side of a line and its codec, for every set  *)
(* of messages and characters, every length of a message and of a line.    *)
(* A text is as long as it likes, so most of it is induction over the      *)
(* length of one, from Least (of natural numbers there is a smallest):     *)
(* Printable, Trim, the line of a terminator, buildParameters, the loop of *)
(* parseParameters from its last round to its first, and readLineImpl byte *)
(* by byte.  The results are RoundTrip and LinesAreHeard.                  *)
(***************************************************************************)
EXTENDS LineReader, TLAPS, SequenceTheorems, WellFoundedInduction

(* The smallest of some natural numbers, and the induction that follows.    *)
LEMMA Least ==
  ASSUME NEW T, T \subseteq Nat, T # {}
  PROVE  \E n \in T : \A m \in T : n <= m
<1>1. PICK n \in T : \A m \in T : ~(<<m, n>> \in OpToRel(<, Nat))
  BY NatLessThanWellFounded, WFMin, Zenon
<1>2. \A m \in T : ~(m < n)
  BY <1>1 DEF OpToRel
<1> QED BY <1>2

LEMMA Induction ==
  ASSUME NEW P, 0 \in P, \A n \in Nat : n \in P => n + 1 \in P
  PROVE  \A n \in Nat : n \in P
<1> SUFFICES ASSUME Nat \ P # {} PROVE FALSE
  OBVIOUS
<1>1. PICK n \in Nat \ P : \A m \in Nat \ P : n <= m
  BY Least
<1>2. n - 1 \in Nat /\ n - 1 \in P
  BY <1>1
<1> QED BY <1>1, <1>2

LEMMA LeastIsMin ==
  ASSUME NEW T, T \subseteq Nat, T # {}
  PROVE  Min(T) \in T /\ \A m \in T : Min(T) <= m
BY Least DEF Min

LEMMA GreatestIsMax ==
  ASSUME NEW n \in Nat, NEW T, T \subseteq 0..n, T # {}
  PROVE  Max(T) \in T /\ \A m \in T : m <= Max(T)
<1> DEFINE U == {n - m : m \in T}
<1>1. U \subseteq Nat /\ U # {}
  <2>1. ASSUME NEW m \in T PROVE n - m \in Nat
    OBVIOUS
  <2>2. PICK m : m \in T
    OBVIOUS
  <2>3. n - m \in U
    BY <2>2
  <2> QED BY <2>1, <2>3
<1>2. PICK u \in U : \A v \in U : u <= v
  BY <1>1, Least
<1>3. PICK t \in T : u = n - t
  BY <1>2
<1>4. ASSUME NEW m \in T PROVE t >= m
  <2>1. u <= n - m
    BY <1>2
  <2> QED BY <1>3, <2>1
<1>5. \E x \in T : \A y \in T : x >= y
  BY <1>3, <1>4
<1>6. Max(T) \in T /\ \A y \in T : Max(T) >= y
  BY <1>5 DEF Max
<1> QED BY <1>6

(* Values reached step by step from a first one.                            *)
Steps(S, base, N, next) ==
  \E f \in [0..N -> S] : f[0] = base /\ \A n \in 1..N : f[n] = next[<<n, f[n - 1]>>]

LEMMA Iteration ==
  ASSUME NEW S, NEW base \in S, NEW N \in Nat, NEW next \in [(1..N) \X S -> S]
  PROVE  Steps(S, base, N, next)
<1> DEFINE Good(f, m) == f[0] = base /\ \A n \in 1..m : f[n] = next[<<n, f[n - 1]>>]
           P == {m \in Nat : m <= N => \E f \in [0..m -> S] : Good(f, m)}
<1>1. 0 \in P
  <2> DEFINE f == [i \in 0..0 |-> base]
  <2>1. f \in [0..0 -> S] /\ Good(f, 0)
    OBVIOUS
  <2> QED BY <2>1
<1>2. ASSUME NEW m \in Nat, m \in P PROVE m + 1 \in P
  <2> SUFFICES ASSUME m + 1 <= N PROVE \E f \in [0..(m + 1) -> S] : Good(f, m + 1)
    OBVIOUS
  <2>1. PICK g \in [0..m -> S] : Good(g, m)
    BY <1>2
  <2> DEFINE f == [i \in 0..(m + 1) |-> IF i = m + 1 THEN next[<<m + 1, g[m]>>] ELSE g[i]]
  <2>2. g[m] \in S /\ m + 1 \in 1..N
    BY <2>1
  <2>3. next[<<m + 1, g[m]>>] \in S
    BY <2>2
  <2>4. f \in [0..(m + 1) -> S]
    BY <2>1, <2>3
  <2>5. f[0] = base
    BY <2>1
  <2>6. ASSUME NEW n \in 1..(m + 1) PROVE f[n] = next[<<n, f[n - 1]>>]
    <3>1. CASE n = m + 1
      BY <3>1
    <3>2. CASE n # m + 1
      <4>1. n \in 1..m /\ n - 1 \in 0..m /\ f[n] = g[n] /\ f[n - 1] = g[n - 1]
        BY <3>2
      <4> QED BY <2>1, <4>1
    <3> QED BY <3>1, <3>2
  <2> QED BY <2>4, <2>5, <2>6
<1> HIDE DEF P
<1>3. N \in P
  BY <1>1, <1>2, Induction
<1> QED BY <1>3 DEF P, Steps

-----------------------------------------------------------------------------
(* Texts are sequences.                                                     *)
LEMMA TextFacts ==
  /\ <<>> \in Text /\ Len(<<>>) = 0
  /\ \A t \in Text : /\ Len(t) \in Nat /\ DOMAIN t = 1..Len(t)
                      /\ \A i \in 1..Len(t) : t[i] \in Character
                      /\ Len(t) = 0 <=> t = <<>>
<1>1. <<>> \in Text
  BY EmptySeq DEF Text
<1>2. Len(<<>>) = 0
  OBVIOUS
<1> QED BY <1>1, <1>2 DEF Text

(* Printable, a character at a time.                                        *)
PrintsBy(f, text) ==
  /\ f \in [0..Len(text) -> Text] /\ f[0] = <<>>
  /\ \A i \in 1..Len(text) : f[i] = Keep(f[i - 1], text[i])

LEMMA PrintableSteps ==
  ASSUME NEW text \in Text
  PROVE  \E f : PrintsBy(f, text) /\ Printable(text) = f[Len(text)]
<1> DEFINE N == Len(text)
           next == [p \in (1..N) \X Text |-> Keep(p[2], text[p[1]])]
           Is(f) == f = [i \in 0..N |-> IF i = 0 THEN <<>> ELSE Keep(f[i - 1], text[i])]
<1>1. N \in Nat /\ (\A i \in 1..N : text[i] \in Character) /\ <<>> \in Text
  BY EmptySeq DEF Text
<1>2. \A i \in 1..N, x \in Text : Keep(x, text[i]) \in Text
  BY <1>1 DEF Keep, Text
<1> HIDE DEF N
<1>3. next \in [(1..N) \X Text -> Text]
  <2>1. ASSUME NEW p \in (1..N) \X Text PROVE Keep(p[2], text[p[1]]) \in Text
    BY <1>2
  <2> QED BY <2>1
<1>4. PICK f \in [0..N -> Text] : f[0] = <<>> /\ \A n \in 1..N : f[n] = next[<<n, f[n - 1]>>]
  <2> HIDE DEF next
  <2>1. Steps(Text, <<>>, N, next)
    BY <1>1, <1>3, Iteration
  <2> QED BY <2>1 DEF Steps
<1>5. ASSUME NEW n \in 1..N PROVE f[n] = Keep(f[n - 1], text[n])
  <2>1. <<n, f[n - 1]>> \in (1..N) \X Text
    BY <1>1, <1>4
  <2> QED BY <1>4, <2>1
<1> HIDE DEF next
<1>6. Is(f)
  BY <1>1, <1>4, <1>5
<1> DEFINE g == CHOOSE h : Is(h)
<1>7. Is(g)
  <2> HIDE DEF Is
  <2> QED BY <1>6
<1>8. Printable(text) = g[N]
  BY Zenon DEF Printable, N, g
<1> HIDE DEF g
<1>9. g[0] = <<>> /\ \A n \in 1..N : g[n] = Keep(g[n - 1], text[n])
  BY <1>1, <1>7
<1> HIDE DEF Is
<1> DEFINE P == {n \in Nat : n <= N => g[n] = f[n]}
<1>10. 0 \in P
  BY <1>4, <1>9
<1>11. ASSUME NEW n \in Nat, n \in P PROVE n + 1 \in P
  BY <1>1, <1>5, <1>9, <1>11
<1> HIDE DEF P
<1>12. N \in P
  BY <1>1, <1>10, <1>11, Induction
<1>13. g[N] = f[N]
  BY <1>1, <1>12 DEF P
<1> QED BY <1>4, <1>5, <1>8, <1>13 DEF PrintsBy, N

(* Two such sequences of values agree as far as their texts do.             *)
LEMMA PrintsByOne ==
  ASSUME NEW s \in Text, NEW t \in Text, NEW f, NEW g, PrintsBy(f, s), PrintsBy(g, t),
         NEW n \in Nat, n <= Len(s), n <= Len(t), \A i \in 1..n : s[i] = t[i]
  PROVE  f[n] = g[n]
<1> DEFINE P == {m \in Nat : m <= n => f[m] = g[m]}
<1>0. Len(s) \in Nat /\ Len(t) \in Nat
  BY DEF Text
<1>1. 0 \in P
  BY DEF PrintsBy
<1>2. ASSUME NEW m \in Nat, m \in P PROVE m + 1 \in P
  BY <1>0, <1>2 DEF PrintsBy
<1> HIDE DEF P
<1>3. n \in P
  BY <1>1, <1>2, Induction
<1> QED BY <1>3 DEF P

LEMMA PrintableIsText == ASSUME NEW text \in Text PROVE Printable(text) \in Text
<1>1. PICK f : PrintsBy(f, text) /\ Printable(text) = f[Len(text)]
  BY PrintableSteps
<1>2. Len(text) \in 0..Len(text)
  BY DEF Text
<1> QED BY <1>1, <1>2 DEF PrintsBy

LEMMA PrintableNothing == Printable(<<>>) = <<>>
<1>1. <<>> \in Text /\ Len(<<>>) = 0
  BY TextFacts
<1> QED BY <1>1, PrintableSteps DEF PrintsBy

LEMMA PrintableAppend ==
  ASSUME NEW text \in Text, NEW c \in Character
  PROVE  Printable(Append(text, c)) = Keep(Printable(text), c)
<1> DEFINE longer == Append(text, c)
<1>1. /\ longer \in Text /\ Len(text) \in Nat /\ Len(longer) = Len(text) + 1
      /\ longer[Len(text) + 1] = c /\ \A i \in 1..Len(text) : longer[i] = text[i]
  BY DEF Text
<1>2. PICK f : PrintsBy(f, text) /\ Printable(text) = f[Len(text)]
  BY PrintableSteps
<1> HIDE DEF longer
<1>3. PICK g : PrintsBy(g, longer) /\ Printable(longer) = g[Len(longer)]
  BY <1>1, PrintableSteps
<1>4. f[Len(text)] = g[Len(text)]
  BY <1>1, <1>2, <1>3, PrintsByOne
<1>5. g[Len(text) + 1] = Keep(g[Len(text)], c)
  <2>1. Len(text) + 1 \in 1..Len(longer) /\ (Len(text) + 1) - 1 = Len(text)
    BY <1>1
  <2> QED BY <1>1, <1>3, <2>1 DEF PrintsBy
<1> QED BY <1>1, <1>2, <1>3, <1>4, <1>5 DEF longer

LEMMA PrintableOnly ==
  ASSUME NEW text \in Text
  PROVE  \A i \in DOMAIN Printable(text) : Printable(text)[i] \notin Unprintable
<1>1. PICK f : PrintsBy(f, text) /\ Printable(text) = f[Len(text)]
  BY PrintableSteps
<1> DEFINE Clean(t) == t \in Text /\ \A i \in DOMAIN t : t[i] \notin Unprintable
           P == {n \in Nat : n <= Len(text) => Clean(f[n])}
<1>2. 0 \in P
  <2>1. f[0] = <<>>
    BY <1>1 DEF PrintsBy
  <2>2. <<>> \in Text
    BY EmptySeq DEF Text
  <2> QED BY <2>1, <2>2
<1>3. ASSUME NEW n \in Nat, n \in P PROVE n + 1 \in P
  <2> SUFFICES ASSUME n + 1 <= Len(text) PROVE Clean(f[n + 1])
    OBVIOUS
  <2>1. Len(text) \in Nat /\ text[n + 1] \in Character
    BY DEF Text
  <2>2. f[n + 1] = Keep(f[n], text[n + 1]) /\ Clean(f[n])
    BY <1>1, <1>3, <2>1 DEF PrintsBy
  <2> QED BY <2>1, <2>2 DEF Keep, Text
<1> HIDE DEF P
<1>4. Len(text) \in P
  <2>1. Len(text) \in Nat
    BY DEF Text
  <2> QED BY <1>2, <1>3, <2>1, Induction
<1>5. Len(text) \in Nat
  BY DEF Text
<1> QED BY <1>1, <1>4, <1>5 DEF P

(* A text all of whose characters are printable is as it is printed.        *)
LEMMA PrintableSame ==
  ASSUME NEW text \in Text, \A i \in DOMAIN text : text[i] \notin Unprintable
  PROVE  Printable(text) = text
<1>1. PICK f : PrintsBy(f, text) /\ Printable(text) = f[Len(text)]
  BY PrintableSteps
<1> DEFINE P == {n \in Nat : n <= Len(text) => f[n] = SubSeq(text, 1, n)}
<1>2. Len(text) \in Nat
  BY DEF Text
<1>3. 0 \in P
  <2>1. f[0] = <<>>
    BY <1>1 DEF PrintsBy
  <2>2. SubSeq(text, 1, 0) = <<>>
    BY DEF Text
  <2> QED BY <2>1, <2>2
<1>4. ASSUME NEW n \in Nat, n \in P PROVE n + 1 \in P
  <2> SUFFICES ASSUME n + 1 <= Len(text) PROVE f[n + 1] = SubSeq(text, 1, n + 1)
    OBVIOUS
  <2>1. text[n + 1] \notin Unprintable
    BY <1>2 DEF Text
  <2>2. f[n + 1] = Keep(f[n], text[n + 1]) /\ f[n] = SubSeq(text, 1, n)
    BY <1>1, <1>2, <1>4 DEF PrintsBy
  <2>3. SubSeq(text, 1, n + 1) = Append(SubSeq(text, 1, n), text[n + 1])
    BY <1>2 DEF Text
  <2> QED BY <2>1, <2>2, <2>3 DEF Keep
<1> HIDE DEF P
<1>5. f[Len(text)] = SubSeq(text, 1, Len(text))
  <2>1. Len(text) \in P
    BY <1>2, <1>3, <1>4, Induction
  <2> QED BY <1>2, <2>1 DEF P
<1>6. SubSeq(text, 1, Len(text)) = text
  BY DEF Text
<1> QED BY <1>1, <1>5, <1>6

-----------------------------------------------------------------------------
(* Trim.                                                                    *)
Solid(text) == {i \in DOMAIN text : text[i] # Blank}

(* What is trimmed away is blank, and what is left has no blank at its ends.*)
LEMMA TrimIs ==
  ASSUME NEW text \in Text, NEW a \in 1..Len(text), NEW b \in 1..Len(text),
         text[a] # Blank, text[b] # Blank,
         \A i \in 1..Len(text) : text[i] # Blank => a <= i /\ i <= b
  PROVE  Trim(text) = SubSeq(text, a, b)
<1>1. DOMAIN text = 1..Len(text) /\ Len(text) \in Nat
  BY DEF Text
<1>2. Solid(text) \subseteq 0..Len(text) /\ Solid(text) \subseteq Nat /\ a \in Solid(text) /\ b \in Solid(text)
  BY <1>1 DEF Solid
<1>3. Min(Solid(text)) \in Solid(text) /\ \A m \in Solid(text) : Min(Solid(text)) <= m
  BY <1>2, LeastIsMin
<1>4. Max(Solid(text)) \in Solid(text) /\ \A m \in Solid(text) : m <= Max(Solid(text))
  BY <1>1, <1>2, GreatestIsMax
<1>5. \A i \in Solid(text) : a <= i /\ i <= b /\ i \in Nat
  BY <1>1 DEF Solid
<1>6. Min(Solid(text)) = a /\ Max(Solid(text)) = b
  BY <1>2, <1>3, <1>4, <1>5
<1>7. Solid(text) # {}
  BY <1>2
<1>8. Trim(text) = IF Solid(text) = {} THEN <<>> ELSE SubSeq(text, Min(Solid(text)), Max(Solid(text)))
  BY DEF Trim, Solid
<1> QED BY <1>6, <1>7, <1>8

LEMMA TrimOfBlank ==
  ASSUME NEW text \in Text, \A i \in 1..Len(text) : text[i] = Blank
  PROVE  Trim(text) = <<>>
<1>1. DOMAIN text = 1..Len(text)
  BY DEF Text
<1> QED BY <1>1 DEF Trim

(* Every text is blank or has a first and a last solid character.           *)
LEMMA TrimCases ==
  ASSUME NEW text \in Text
  PROVE  \/ \A i \in 1..Len(text) : text[i] = Blank
         \/ \E a \in 1..Len(text), b \in 1..Len(text) :
              /\ a <= b /\ text[a] # Blank /\ text[b] # Blank
              /\ \A i \in 1..Len(text) : text[i] # Blank => a <= i /\ i <= b
<1> SUFFICES ASSUME NEW c \in 1..Len(text), text[c] # Blank
             PROVE  \E a \in 1..Len(text), b \in 1..Len(text) :
                      /\ a <= b /\ text[a] # Blank /\ text[b] # Blank
                      /\ \A i \in 1..Len(text) : text[i] # Blank => a <= i /\ i <= b
  OBVIOUS
<1>1. DOMAIN text = 1..Len(text) /\ Len(text) \in Nat
  BY DEF Text
<1>2. Solid(text) \subseteq 0..Len(text) /\ Solid(text) \subseteq Nat /\ c \in Solid(text)
  BY <1>1 DEF Solid
<1> DEFINE a == Min(Solid(text))
           b == Max(Solid(text))
<1>3. a \in Solid(text) /\ \A m \in Solid(text) : a <= m
  BY <1>2, LeastIsMin
<1>4. b \in Solid(text) /\ \A m \in Solid(text) : m <= b
  BY <1>1, <1>2, GreatestIsMax
<1> HIDE DEF a, b
<1>5. /\ a \in 1..Len(text) /\ b \in 1..Len(text) /\ a <= b /\ text[a] # Blank /\ text[b] # Blank
      /\ \A i \in 1..Len(text) : text[i] # Blank => a <= i /\ i <= b
  BY <1>1, <1>3, <1>4 DEF Solid
<1> QED BY <1>5

LEMMA TrimIsText == ASSUME NEW text \in Text PROVE Trim(text) \in Text
<1>1. CASE \A i \in 1..Len(text) : text[i] = Blank
  <2>1. <<>> \in Text
    BY EmptySeq DEF Text
  <2> QED BY <1>1, <2>1, TrimOfBlank
<1>2. ASSUME NEW a \in 1..Len(text), NEW b \in 1..Len(text),
             a <= b, text[a] # Blank, text[b] # Blank,
             \A i \in 1..Len(text) : text[i] # Blank => a <= i /\ i <= b
      PROVE  Trim(text) \in Text
  <2>1. Trim(text) = SubSeq(text, a, b)
    BY <1>2, TrimIs
  <2> QED BY <2>1, <1>2 DEF Text
<1> QED BY <1>1, <1>2, TrimCases

(* What has no blank at its ends stays as it is.                            *)
LEMMA TrimSame ==
  ASSUME NEW text \in Text, text # <<>>, text[1] # Blank, text[Len(text)] # Blank
  PROVE  Trim(text) = text
<1>1. Len(text) \in Nat /\ Len(text) # 0 /\ SubSeq(text, 1, Len(text)) = text
  BY DEF Text
<1> DEFINE last == Len(text)
<1>2. /\ 1 \in 1..last /\ last \in 1..Len(text)
      /\ \A i \in 1..Len(text) : text[i] # Blank => 1 <= i /\ i <= last
  BY <1>1
<1>3. Trim(text) = SubSeq(text, 1, last)
  <2> HIDE DEF last
  <2> QED BY <1>2, TrimIs DEF last
<1> QED BY <1>1, <1>3

LEMMA TrimTwice == ASSUME NEW text \in Text PROVE Trim(Trim(text)) = Trim(text)
<1>1. CASE \A i \in 1..Len(text) : text[i] = Blank
  <2>1. <<>> \in Text /\ \A i \in 1..Len(<<>>) : <<>>[i] = Blank
    BY EmptySeq DEF Text
  <2>2. Trim(<<>>) = <<>>
    BY <2>1, TrimOfBlank
  <2> QED BY <1>1, <2>2, TrimOfBlank
<1>2. ASSUME NEW a \in 1..Len(text), NEW b \in 1..Len(text),
             a <= b, text[a] # Blank, text[b] # Blank,
             \A i \in 1..Len(text) : text[i] # Blank => a <= i /\ i <= b
      PROVE  Trim(Trim(text)) = Trim(text)
  <2> DEFINE inner == SubSeq(text, a, b)
  <2>1. Trim(text) = inner
    BY <1>2, TrimIs
  <2>2. inner \in Text /\ Len(inner) = b - a + 1 /\ inner[1] = text[a] /\ inner[Len(inner)] = text[b]
        /\ inner # <<>>
    BY <1>2 DEF Text
  <2> HIDE DEF inner
  <2> QED BY <1>2, <2>1, <2>2, TrimSame
<1> QED BY <1>1, <1>2, TrimCases

(* Blanks at the end do not matter.                                         *)
LEMMA TrimOfStart ==
  ASSUME NEW text \in Text, NEW n \in 0..Len(text),
         \A i \in 1..Len(text) : i > n => text[i] = Blank
  PROVE  Trim(SubSeq(text, 1, n)) = Trim(text)
<1> DEFINE start == SubSeq(text, 1, n)
<1>1. /\ start \in Text /\ Len(start) = n /\ n \in Nat /\ Len(text) \in Nat
      /\ \A i \in 1..n : start[i] = text[i]
  BY DEF Text
<1>2. CASE \A i \in 1..Len(text) : text[i] = Blank
  <2>1. \A i \in 1..Len(start) : start[i] = Blank
    BY <1>1, <1>2
  <2> HIDE DEF start
  <2>2. Trim(start) = <<>>
    BY <1>1, <2>1, TrimOfBlank
  <2> QED BY <1>2, <2>2, TrimOfBlank DEF start
<1>3. ASSUME NEW a \in 1..Len(text), NEW b \in 1..Len(text),
             a <= b, text[a] # Blank, text[b] # Blank,
             \A i \in 1..Len(text) : text[i] # Blank => a <= i /\ i <= b
      PROVE  Trim(start) = Trim(text)
  <2>1. b <= n
    BY <1>1, <1>3
  <2>2. SubSeq(start, a, b) = SubSeq(text, a, b)
    BY <1>1, <1>3, <2>1 DEF Text
  <2> HIDE DEF start
  <2>3. Trim(start) = SubSeq(start, a, b)
    <3>1. /\ a \in 1..Len(start) /\ b \in 1..Len(start) /\ start[a] # Blank /\ start[b] # Blank
          /\ \A i \in 1..Len(start) : start[i] # Blank => a <= i /\ i <= b
      BY <1>1, <1>3, <2>1
    <3> QED BY <1>1, <3>1, TrimIs
  <2>4. Trim(text) = SubSeq(text, a, b)
    BY <1>3, TrimIs
  <2> QED BY <2>2, <2>3, <2>4
<1> QED BY <1>2, <1>3, TrimCases DEF start

(* The line a terminator would end: what follows the terminator before it.  *)
Starts(text, k, end) ==
  /\ k \in 0..(end - 1) /\ (k = 0 \/ text[k] \in Terminator)
  /\ \A i \in 1..(end - 1) : i > k => text[i] \notin Terminator

LEMMA LenIsNat == ASSUME NEW text \in Text PROVE Len(text) \in Nat
BY DEF Text

LEMMA LineUpToIs ==
  ASSUME NEW text \in Text, NEW end \in 1..(Len(text) + 1), NEW k, Starts(text, k, end)
  PROVE  LineUpTo(text, end) = SubSeq(text, k + 1, end - 1)
<1> DEFINE T == {0} \cup {i \in 1..(end - 1) : text[i] \in Terminator}
<1>1. end \in Nat /\ end - 1 \in Nat /\ T \subseteq 0..(end - 1) /\ 0 \in T
  BY DEF Text
<1>2. k \in T /\ \A i \in T : i <= k
  BY DEF Starts
<1>3. LineUpTo(text, end) = SubSeq(text, 1 + Max(T), end - 1)
  BY DEF LineUpTo
<1> HIDE DEF T
<1>4. Max(T) \in T /\ \A i \in T : i <= Max(T)
  BY <1>1, GreatestIsMax
<1>5. Max(T) = k
  <2>1. Max(T) \in Nat /\ k \in Nat
    <3>1. k \in 0..(end - 1) /\ Max(T) \in 0..(end - 1)
      BY <1>1, <1>2, <1>4
    <3> QED BY <3>1
  <2>2. Max(T) <= k /\ k <= Max(T)
    BY <1>2, <1>4
  <2> QED BY <2>1, <2>2
<1>6. 1 + k = k + 1
  BY <1>1, <1>2
<1> QED BY <1>3, <1>5, <1>6

LEMMA LineStarts ==
  ASSUME NEW text \in Text, NEW end \in 1..(Len(text) + 1)
  PROVE  \E k : Starts(text, k, end)
<1> DEFINE T == {0} \cup {i \in 1..(end - 1) : text[i] \in Terminator}
<1>1. end \in Nat /\ end - 1 \in Nat /\ T \subseteq 0..(end - 1) /\ 0 \in T
  BY DEF Text
<1>2. Max(T) \in T /\ \A i \in T : i <= Max(T)
  <2> HIDE DEF T
  <2> QED BY <1>1, GreatestIsMax
<1> DEFINE k == Max(T)
<1>3. k \in T /\ \A i \in T : i <= k
  BY <1>2
<1> HIDE DEF k
<1>4. Starts(text, k, end)
  BY <1>1, <1>3 DEF Starts
<1> QED BY <1>4

(* The line after the last terminator.                                      *)
Rest(text) == LineUpTo(text, Len(text) + 1)

LEMMA LineUpToAppend ==
  ASSUME NEW text \in Text, NEW c \in Character, NEW end \in 1..(Len(text) + 1)
  PROVE  LineUpTo(Append(text, c), end) = LineUpTo(text, end)
<1> DEFINE longer == Append(text, c)
<1>1. /\ longer \in Text /\ Len(text) \in Nat /\ Len(longer) = Len(text) + 1
      /\ \A i \in 1..Len(text) : longer[i] = text[i]
  BY DEF Text
<1>2. PICK k : Starts(text, k, end)
  BY LineStarts
<1>3. Starts(longer, k, end)
  BY <1>1, <1>2 DEF Starts
<1>4. end \in 1..(Len(longer) + 1)
  BY <1>1
<1>5. SubSeq(longer, k + 1, end - 1) = SubSeq(text, k + 1, end - 1)
  BY <1>2 DEF Starts, Text
<1> HIDE DEF longer
<1>6. LineUpTo(longer, end) = SubSeq(longer, k + 1, end - 1)
  BY <1>1, <1>3, <1>4, LineUpToIs
<1>7. LineUpTo(text, end) = SubSeq(text, k + 1, end - 1)
  BY <1>2, LineUpToIs
<1> QED BY <1>5, <1>6, <1>7 DEF longer

LEMMA LineUpToIsText ==
  ASSUME NEW text \in Text, NEW end \in 1..(Len(text) + 1)
  PROVE  LineUpTo(text, end) \in Text
<1>1. PICK k : Starts(text, k, end)
  BY LineStarts
<1>2. LineUpTo(text, end) = SubSeq(text, k + 1, end - 1)
  BY <1>1, LineUpToIs
<1> QED BY <1>1, <1>2 DEF Starts, Text

LEMMA RestIsText == ASSUME NEW text \in Text PROVE Rest(text) \in Text
<1>1. Len(text) + 1 \in 1..(Len(text) + 1)
  BY DEF Text
<1> QED BY <1>1, LineUpToIsText DEF Rest

LEMMA RestNothing == Rest(<<>>) = <<>>
<1>1. <<>> \in Text /\ Len(<<>>) = 0
  BY TextFacts
<1>2. Starts(<<>>, 0, 1)
  BY DEF Starts
<1>3. LineUpTo(<<>>, 1) = SubSeq(<<>>, 0 + 1, 1 - 1)
  BY <1>1, <1>2, LineUpToIs
<1>4. SubSeq(<<>>, 0 + 1, 1 - 1) = <<>>
  OBVIOUS
<1>5. Rest(<<>>) = LineUpTo(<<>>, 1)
  BY <1>1 DEF Rest
<1> QED BY <1>3, <1>4, <1>5

LEMMA AppendSub ==
  ASSUME NEW text \in Text, NEW c \in Character, NEW k \in 0..Len(text)
  PROVE  SubSeq(Append(text, c), k + 1, (Len(text) + 2) - 1)
           = Append(SubSeq(text, k + 1, (Len(text) + 1) - 1), c)
<1>1. Len(text) \in Nat /\ (Len(text) + 2) - 1 = Len(text) + 1 /\ (Len(text) + 1) - 1 = Len(text)
  BY LenIsNat
<1>2. SubSeq(Append(text, c), k + 1, Len(text) + 1) = Append(SubSeq(text, k + 1, Len(text)), c)
  <2> DEFINE longer == Append(text, c)
             one == SubSeq(longer, k + 1, Len(text) + 1)
             short == SubSeq(text, k + 1, Len(text))
             two == Append(short, c)
             m == Len(text) - k
  <2>1. /\ longer \in Seq(Character) /\ Len(longer) = Len(text) + 1 /\ longer[Len(text) + 1] = c
        /\ \A i \in 1..Len(text) : longer[i] = text[i]
    BY DEF Text
  <2>2. one \in Seq(Character) /\ Len(one) = m + 1 /\ \A i \in 1..(m + 1) : one[i] = longer[k + i]
    <3> HIDE DEF longer
    <3> QED BY <1>1, <2>1
  <2>3. short \in Seq(Character) /\ Len(short) = m /\ \A i \in 1..m : short[i] = text[k + i]
    <3>1. \A i \in (k + 1)..Len(text) : text[i] \in Character
      BY <1>1 DEF Text
    <3>2. /\ short \in Seq(Character)
          /\ Len(short) = IF k + 1 <= Len(text) THEN Len(text) - (k + 1) + 1 ELSE 0
          /\ \A i \in 1..(Len(text) - (k + 1) + 1) : short[i] = text[(k + 1) + i - 1]
      BY <1>1, <3>1, SubSeqProperties
    <3> HIDE DEF short
    <3>3. Len(short) = m
      <4>1. k \in Nat /\ k <= Len(text)
        BY <1>1
      <4>2. CASE k + 1 <= Len(text)
        <5>1. Len(text) - (k + 1) + 1 = m
          BY <1>1, <4>1
        <5> QED BY <3>2, <4>2, <5>1
      <4>3. CASE ~(k + 1 <= Len(text))
        <5>1. k = Len(text)
          <6> DEFINE n == Len(text)
          <6>1. n \in Nat /\ k <= n /\ ~(k + 1 <= n) /\ k \in Nat
            BY <1>1, <4>1, <4>3
          <6> HIDE DEF n
          <6>2. k = n
            BY <6>1
          <6> QED BY <6>2 DEF n
        <5>2. m = 0
          BY <1>1, <5>1
        <5>3. Len(short) = 0
          BY <3>2, <4>3
        <5> QED BY <5>2, <5>3
      <4> QED BY <4>2, <4>3
    <3>4. ASSUME NEW i \in 1..m PROVE short[i] = text[k + i]
      <4>1. i \in 1..(Len(text) - (k + 1) + 1) /\ (k + 1) + i - 1 = k + i
        BY <1>1
      <4> QED BY <3>2, <4>1
    <3> QED BY <3>2, <3>3, <3>4
  <2>4. /\ two \in Seq(Character) /\ Len(two) = m + 1 /\ two[m + 1] = c
        /\ \A i \in 1..m : two[i] = text[k + i]
    <3> HIDE DEF short, m
    <3>1. m \in Nat
      BY <1>1 DEF m
    <3> QED BY <2>3, <3>1
  <2> HIDE DEF longer, one, short, two
  <2>5. m \in Nat /\ k + (m + 1) = Len(text) + 1
    BY <1>1
  <2>6. ASSUME NEW i \in 1..(m + 1) PROVE one[i] = two[i]
    <3>1. CASE i = m + 1
      <4> HIDE DEF m
      <4> QED BY <2>1, <2>2, <2>4, <2>5, <3>1
    <3>2. CASE i # m + 1
      <4>1. i \in 1..m /\ k + i \in 1..Len(text)
        BY <1>1, <3>2
      <4> HIDE DEF m
      <4> QED BY <2>1, <2>2, <2>4, <4>1
    <3> QED BY <3>1, <3>2
  <2> HIDE DEF m
  <2>7. one = two
    BY <2>2, <2>4, <2>5, <2>6, SeqEqual
  <2> QED BY <2>7 DEF one, two, short, longer
<1> QED BY <1>1, <1>2

LEMMA RestAppend ==
  ASSUME NEW text \in Text, NEW c \in Character
  PROVE  Rest(Append(text, c)) = IF c \in Terminator THEN <<>> ELSE Append(Rest(text), c)
<1> DEFINE longer == Append(text, c)
           n == Len(text)
<1>1. /\ longer \in Text /\ n \in Nat /\ Len(longer) = n + 1
      /\ (\A i \in 1..n : longer[i] = text[i]) /\ longer[n + 1] = c
  BY DEF Text
<1>2. CASE c \in Terminator
  <2>1. Starts(longer, n + 1, n + 2)
    BY <1>1, <1>2 DEF Starts
  <2>2. SubSeq(longer, (n + 1) + 1, (n + 2) - 1) = <<>>
    BY <1>1 DEF Text
  <2>3. Rest(longer) = LineUpTo(longer, n + 2) /\ n + 2 \in 1..(Len(longer) + 1)
    BY <1>1 DEF Rest
  <2> HIDE DEF longer, n
  <2>4. LineUpTo(longer, n + 2) = SubSeq(longer, (n + 1) + 1, (n + 2) - 1)
    BY <1>1, <2>1, <2>3, LineUpToIs
  <2> QED BY <1>2, <2>2, <2>3, <2>4 DEF longer
<1>3. CASE c \notin Terminator
  <2>1. n + 1 \in 1..(Len(text) + 1)
    BY <1>1
  <2>2. PICK k : Starts(text, k, n + 1)
    BY <2>1, LineStarts
  <2>3. Starts(longer, k, n + 2)
    BY <1>1, <1>3, <2>2 DEF Starts
  <2>4. SubSeq(longer, k + 1, (n + 2) - 1) = Append(SubSeq(text, k + 1, (n + 1) - 1), c)
    <3>1. k \in 0..n
      BY <1>1, <2>2 DEF Starts
    <3> QED BY <3>1, AppendSub
  <2>5. Rest(longer) = LineUpTo(longer, n + 2) /\ n + 2 \in 1..(Len(longer) + 1)
    BY <1>1 DEF Rest
  <2>6. Rest(text) = LineUpTo(text, n + 1)
    BY DEF Rest
  <2> HIDE DEF longer, n
  <2>7. LineUpTo(longer, n + 2) = SubSeq(longer, k + 1, (n + 2) - 1)
    BY <1>1, <2>3, <2>5, LineUpToIs
  <2>8. LineUpTo(text, n + 1) = SubSeq(text, k + 1, (n + 1) - 1)
    BY <2>1, <2>2, LineUpToIs
  <2> QED BY <1>3, <2>4, <2>5, <2>6, <2>7, <2>8 DEF longer
<1> QED BY <1>2, <1>3

-----------------------------------------------------------------------------
(* A line is too long once a character follows a full one.                  *)
LEMMA KeepLen ==
  ASSUME NEW text \in Text, NEW c \in Character
  PROVE  Keep(text, c) \in Text /\ Len(text) <= Len(Keep(text, c)) /\ Len(Keep(text, c)) <= Len(text) + 1
BY DEF Keep, Text

LEMMA LastOf ==
  ASSUME NEW text \in Text, text # <<>>
  PROVE  \E start \in Text, c \in Character : text = Append(start, c)
<1> DEFINE start == SubSeq(text, 1, Len(text) - 1)
           c == text[Len(text)]
<1>1. Len(text) \in Nat /\ Len(text) # 0
  BY DEF Text
<1>2. start \in Text /\ c \in Character /\ text = Append(start, c)
  BY <1>1 DEF Text
<1> QED BY <1>2

LEMMA OversizedAppend ==
  ASSUME NEW text \in Text, NEW c \in Character
  PROVE  Oversized(Append(text, c)) <=> Len(Printable(text)) >= MaxLine
<1> DEFINE longer == Append(text, c)
<1>1. Len(text) \in Nat /\ Len(longer) = Len(text) + 1 /\ longer # <<>>
  BY DEF Text
<1>2. SubSeq(longer, 1, Len(longer) - 1) = text
  BY DEF Text
<1> HIDE DEF longer
<1>3. Oversized(longer) <=> Len(Printable(text)) >= MaxLine
  BY <1>1, <1>2 DEF Oversized
<1> QED BY <1>3 DEF longer

LEMMA OversizedGrows ==
  ASSUME NEW text \in Text, NEW c \in Character, Oversized(text)
  PROVE  Oversized(Append(text, c))
<1>1. text # <<>>
  BY DEF Oversized
<1>2. PICK start \in Text, d \in Character : text = Append(start, d)
  BY <1>1, LastOf
<1>3. Len(Printable(start)) >= MaxLine
  BY <1>2, OversizedAppend
<1>4. Printable(start) \in Text /\ Printable(text) = Keep(Printable(start), d)
  BY <1>2, PrintableIsText, PrintableAppend
<1>5. Len(Printable(start)) \in Nat /\ Len(Printable(text)) \in Nat /\ MaxLine \in Nat
  BY <1>4, PrintableIsText, LenIsNat, CodecAssumption
<1>6. Len(Printable(start)) <= Len(Printable(text))
  BY <1>4, KeepLen
<1> QED BY <1>3, <1>5, <1>6, OversizedAppend

LEMMA NotOversized ==
  ASSUME NEW text \in Text, ~Oversized(text)
  PROVE  Len(Printable(text)) <= MaxLine
<1>0. MaxLine \in Nat
  BY CodecAssumption
<1>1. CASE text = <<>>
  <2>1. Len(Printable(text)) = 0
    BY <1>1, PrintableNothing, TextFacts
  <2> QED BY <1>0, <2>1
<1>2. CASE text # <<>>
  <2>1. PICK start \in Text, d \in Character : text = Append(start, d)
    BY <1>2, LastOf
  <2>2. Printable(start) \in Text /\ Printable(text) = Keep(Printable(start), d)
    BY <2>1, PrintableIsText, PrintableAppend
  <2>3. Len(Printable(start)) \in Nat /\ Len(Printable(text)) \in Nat
    BY <2>2, PrintableIsText, LenIsNat
  <2>4. ~(Len(Printable(start)) >= MaxLine)
    BY <2>1, OversizedAppend
  <2>5. Len(Printable(text)) <= Len(Printable(start)) + 1
    BY <2>2, KeepLen
  <2> QED BY <1>0, <2>3, <2>4, <2>5
<1> QED BY <1>1, <1>2

-----------------------------------------------------------------------------
(* The codec: a field, the fields in the order of the keys, and the parser *)
(* that takes them back one by one.                                        *)

(* Find: the first place of a character from a cursor on.                   *)
LEMMA FindIs ==
  ASSUME NEW text \in Text, NEW c, NEW cursor \in Nat \ {0}, NEW e \in Nat,
         cursor <= e, e <= Len(text) + 1, e \in 1..Len(text) => text[e] = c,
         \A i \in 1..Len(text) : i >= cursor /\ i < e => text[i] # c
  PROVE  Find(text, c, cursor) = e
<1> DEFINE T == {i \in DOMAIN text : i >= cursor /\ text[i] = c} \cup {Len(text) + 1}
<1>1. Len(text) \in Nat /\ DOMAIN text = 1..Len(text)
  BY DEF Text
<1>2. T \subseteq Nat /\ Len(text) + 1 \in T
  BY <1>1
<1>3. Find(text, c, cursor) = Min(T)
  BY DEF Find
<1>4. e \in T
  <2>1. CASE e = Len(text) + 1
    BY <1>2, <2>1
  <2>2. CASE e # Len(text) + 1 /\ e # 0
    <3>1. e \in 1..Len(text)
      BY <1>1, <2>2
    <3> QED BY <1>1, <3>1
  <2>3. CASE e = 0
    BY <2>3
  <2> QED BY <2>1, <2>2, <2>3
<1>5. ASSUME NEW i \in T PROVE e <= i
  BY <1>1
<1> HIDE DEF T
<1>6. Min(T) \in T /\ \A m \in T : Min(T) <= m
  BY <1>2, LeastIsMin
<1>7. Min(T) <= e /\ e <= Min(T) /\ Min(T) \in Nat
  BY <1>2, <1>4, <1>5, <1>6
<1> QED BY <1>3, <1>7

LEMMA FindBounds ==
  ASSUME NEW text \in Text, NEW c, NEW cursor \in 1..Len(text)
  PROVE  Find(text, c, cursor) \in cursor..(Len(text) + 1)
<1> DEFINE T == {i \in DOMAIN text : i >= cursor /\ text[i] = c} \cup {Len(text) + 1}
<1>1. Len(text) \in Nat /\ DOMAIN text = 1..Len(text)
  BY DEF Text
<1>2. T \subseteq Nat /\ Len(text) + 1 \in T /\ T \subseteq cursor..(Len(text) + 1)
  BY <1>1
<1>3. Find(text, c, cursor) = Min(T)
  BY DEF Find
<1> HIDE DEF T
<1>4. Min(T) \in T
  BY <1>2, LeastIsMin
<1> QED BY <1>2, <1>3, <1>4

(* The loop of parseParameters, from each cursor on.                        *)
RoundFrom(text, from, cursor) ==
  IF cursor > Len(text) THEN Parsed(<<>>)
  ELSE Round(text, cursor, from[Find(text, Ampersand, cursor) + 1])

LEMMA RoundsIs ==
  ASSUME NEW text \in Text
  PROVE  \A cursor \in 1..(Len(text) + 2) :
           Rounds(text)[cursor] = RoundFrom(text, Rounds(text), cursor)
<1> DEFINE L == Len(text)
           Is(from, low) == from = [cursor \in low..(L + 2) |-> RoundFrom(text, from, cursor)]
           P == {n \in Nat : n <= L + 2 => \E from : Is(from, L + 3 - n)}
<1>1. L \in Nat
  BY LenIsNat
<1>2. ASSUME NEW cursor \in 1..L PROVE Find(text, Ampersand, cursor) + 1 \in (cursor + 1)..(L + 2)
  <2>1. Find(text, Ampersand, cursor) \in cursor..(L + 1)
    BY FindBounds
  <2> QED BY <1>1, <2>1
<1> HIDE DEF L
<1>3. 0 \in P
  <2> DEFINE none == [cursor \in (L + 3)..(L + 2) |-> 0]
  <2>1. (L + 3)..(L + 2) = {} /\ L + 3 - 0 = L + 3
    BY <1>1
  <2>2. Is(none, L + 3)
    BY <2>1
  <2> QED BY <2>1, <2>2
<1>4. ASSUME NEW n \in Nat, n \in P PROVE n + 1 \in P
  <2> SUFFICES ASSUME n + 1 <= L + 2 PROVE \E from : Is(from, L + 3 - (n + 1))
    OBVIOUS
  <2> DEFINE low == L + 3 - (n + 1)
  <2>1. low \in 1..(L + 2) /\ L + 3 - n = low + 1
    BY <1>1
  <2>2. PICK from : Is(from, low + 1)
    BY <1>1, <1>4, <2>1
  <2> HIDE DEF low
  <2> DEFINE longer == [cursor \in low..(L + 2) |->
                          IF cursor = low THEN RoundFrom(text, from, low) ELSE from[cursor]]
  <2>3. ASSUME NEW cursor \in low..(L + 2)
        PROVE  longer[cursor] = RoundFrom(text, longer, cursor)
    <3>1. RoundFrom(text, longer, cursor) = RoundFrom(text, from, cursor)
      <4>1. CASE cursor > L
        BY <4>1 DEF RoundFrom, L
      <4>2. CASE ~(cursor > L)
        <5> DEFINE m == Find(text, Ampersand, cursor) + 1
        <5>1. cursor \in 1..L
          BY <1>1, <2>1, <4>2
        <5>2. m \in (cursor + 1)..(L + 2)
          BY <1>2, <5>1
        <5>3. m \in low..(L + 2) /\ m # low
          BY <1>1, <2>1, <5>1, <5>2
        <5>4. longer[m] = from[m]
          BY <5>3
        <5> HIDE DEF longer
        <5> QED BY <4>2, <5>4 DEF RoundFrom, L
      <4> QED BY <4>1, <4>2
    <3>2. CASE cursor = low
      BY <3>1, <3>2
    <3>3. CASE cursor # low
      <4>1. cursor \in (low + 1)..(L + 2)
        BY <1>1, <2>1, <3>3
      <4>2. from[cursor] = RoundFrom(text, from, cursor)
        BY <2>2, <4>1
      <4> QED BY <3>1, <3>3, <4>2
    <3> QED BY <3>2, <3>3
  <2>4. Is(longer, low)
    <3> DEFINE same == [cursor \in low..(L + 2) |-> RoundFrom(text, longer, cursor)]
    <3>1. \A cursor \in low..(L + 2) : longer[cursor] = same[cursor]
      BY <2>3
    <3>2. longer = same
      BY <3>1
    <3> QED BY <3>2
  <2> QED BY <2>4 DEF low
<1> HIDE DEF P
<1>5. L + 2 \in P
  BY <1>1, <1>3, <1>4, Induction
<1>6. \E from : Is(from, 1)
  <2>1. L + 3 - (L + 2) = 1
    BY <1>1
  <2> QED BY <1>1, <1>5, <2>1 DEF P
<1> DEFINE g == CHOOSE from : Is(from, 1)
<1>7. Is(g, 1)
  <2> HIDE DEF Is
  <2> QED BY <1>6
<1>8. Rounds(text) = g
  BY Zenon DEF Rounds, RoundFrom, L, g
<1> HIDE DEF g
<1> QED BY <1>7, <1>8 DEF L

LEMMA SignsDiffer == Ampersand # Equals /\ Ampersand # Blank /\ Equals # Blank /\ Question # Blank
BY DEF Ampersand, Equals, Blank, Question

Lesser(a, b) == IF a <= b THEN a ELSE b

(* A part of a text, character by character.                                *)
LEMMA PartIs ==
  ASSUME NEW text \in Text, NEW part \in Text, NEW a \in Nat, a + Len(part) <= Len(text),
         \A i \in 1..Len(part) : text[a + i] = part[i]
  PROVE  SubSeq(text, a + 1, a + Len(part)) = part
<1> DEFINE m == Len(part)
           sub == SubSeq(text, a + 1, a + m)
<1>1. m \in Nat /\ Len(text) \in Nat
  BY LenIsNat
<1>2. \A i \in (a + 1)..(a + m) : text[i] \in Character
  <2> SUFFICES ASSUME NEW i \in (a + 1)..(a + m) PROVE text[i] \in Character
    OBVIOUS
  <2>1. i \in 1..Len(text)
    BY <1>1
  <2> QED BY <2>1 DEF Text
<1>3. /\ sub \in Seq(Character)
      /\ Len(sub) = IF a + 1 <= a + m THEN (a + m) - (a + 1) + 1 ELSE 0
      /\ \A i \in 1..((a + m) - (a + 1) + 1) : sub[i] = text[(a + 1) + i - 1]
  BY <1>1, <1>2, SubSeqProperties
<1> HIDE DEF m, sub
<1>4. Len(sub) = m
  <2>1. CASE m = 0
    <3>1. ~(a + 1 <= a + m)
      BY <1>1, <2>1
    <3> QED BY <1>3, <2>1, <3>1
  <2>2. CASE m # 0
    <3>1. a + 1 <= a + m /\ (a + m) - (a + 1) + 1 = m
      BY <1>1, <2>2
    <3> QED BY <1>3, <3>1
  <2> QED BY <2>1, <2>2
<1>5. ASSUME NEW i \in 1..m PROVE sub[i] = part[i]
  <2>1. i \in 1..((a + m) - (a + 1) + 1) /\ (a + 1) + i - 1 = a + i /\ i \in 1..Len(part)
    BY <1>1 DEF m
  <2> QED BY <1>3, <2>1
<1>6. sub = part
  BY <1>3, <1>4, <1>5, SeqEqual DEF Text, m
<1> QED BY <1>6 DEF sub, m

(* The field of k and v follows the first a characters and a sign.          *)
HasField(text, a, k, v) ==
  /\ a + 2 + Len(k) + Len(v) <= Len(text)
  /\ \A i \in 1..Len(k) : text[a + 1 + i] = k[i]
  /\ text[a + 2 + Len(k)] = Equals
  /\ \A i \in 1..Len(v) : text[a + 2 + Len(k) + i] = v[i]
  /\ a + 2 + Len(k) + Len(v) < Len(text) => text[a + 2 + Len(k) + Len(v) + 1] = Ampersand

LEMMA FieldParsed ==
  ASSUME NEW text \in Text, NEW n \in 1..Len(text), NEW a \in Nat, NEW k, NEW v, Key(k), Value(v),
         \A i \in 1..Len(text) : i > n => text[i] = Blank,
         HasField(text, a, k, v)
  PROVE  LET start == SubSeq(text, 1, n)
         IN /\ a + 2 <= n
            /\ Find(start, Ampersand, a + 2) = Lesser(a + 2 + Len(k) + Len(v), n) + 1
            /\ \A rest : rest # Refused =>
                 Round(start, a + 2, rest) = Parsed(Before(k, Trim(v), rest.fields))
<1> DEFINE start == SubSeq(text, 1, n)
           eq == a + 2 + Len(k)
           b == a + 2 + Len(k) + Len(v)
           e == Lesser(b, n)
<1>1. /\ k \in Text /\ v \in Text /\ k # <<>> /\ Trim(k) = k
      /\ Len(text) \in Nat /\ Len(k) \in Nat /\ Len(v) \in Nat /\ Len(k) # 0
      /\ \A i \in 1..Len(k) : k[i] # Ampersand /\ k[i] # Equals
      /\ \A i \in 1..Len(v) : v[i] # Ampersand
  <2>1. k \in Text /\ v \in Text /\ k # <<>> /\ Trim(k) = k
    BY DEF Key, Value
  <2>2. DOMAIN k = 1..Len(k) /\ DOMAIN v = 1..Len(v) /\ Len(k) # 0
        /\ Len(text) \in Nat /\ Len(k) \in Nat /\ Len(v) \in Nat
    BY <2>1 DEF Text
  <2> QED BY <2>1, <2>2 DEF Key, Value
<1>2. start \in Text /\ Len(start) = n /\ n \in Nat /\ \A i \in 1..n : start[i] = text[i]
  BY <1>1 DEF Text
<1>3. /\ b <= Len(text) /\ (\A i \in 1..Len(k) : text[a + 1 + i] = k[i]) /\ text[eq] = Equals
      /\ (\A i \in 1..Len(v) : text[eq + i] = v[i]) /\ (b < Len(text) => text[b + 1] = Ampersand)
  BY DEF HasField
<1>4. eq \in Nat /\ b \in Nat /\ b = eq + Len(v) /\ eq > a + 2 /\ b >= eq
  BY <1>1
<1>5. eq = a + 2 + Len(k)
  OBVIOUS
<1> HIDE DEF start, eq, b, e
<1>6. eq \in 1..n
  <2>1. eq \in 1..Len(text)
    BY <1>1, <1>3, <1>4
  <2>2. ~(eq > n)
    BY <1>3, <2>1, SignsDiffer
  <2> QED BY <1>2, <1>4, <2>1, <2>2
<1>7. /\ e \in Nat /\ e <= b /\ e <= n /\ eq <= e /\ (e = b \/ e = n)
  BY <1>2, <1>4, <1>6 DEF e, Lesser
<1>8. Find(start, Equals, a + 2) = eq
  <2>1. start[eq] = Equals
    BY <1>2, <1>3, <1>6
  <2>2. ASSUME NEW i \in 1..Len(start), i >= a + 2, i < eq PROVE start[i] # Equals
    <3>1. i - (a + 1) \in 1..Len(k) /\ a + 1 + (i - (a + 1)) = i /\ i \in 1..n
      BY <1>1, <1>2, <1>5, <2>2
    <3>2. start[i] = k[i - (a + 1)]
      BY <1>2, <1>3, <3>1
    <3> QED BY <1>1, <3>1, <3>2
  <2>3. a + 2 \in Nat \ {0} /\ a + 2 <= eq /\ eq <= Len(start) + 1
    BY <1>2, <1>4, <1>6
  <2> QED BY <1>2, <1>4, <2>1, <2>2, <2>3, FindIs
<1>9. Find(start, Ampersand, a + 2) = e + 1
  <2>1. ASSUME e + 1 \in 1..Len(start) PROVE start[e + 1] = Ampersand
    <3>1. e + 1 <= n
      BY <1>2, <2>1
    <3>2. e = b
      BY <1>2, <1>7, <3>1
    <3>3. b < Len(text) /\ b + 1 \in 1..n
      BY <1>1, <1>2, <1>4, <3>1, <3>2
    <3> QED BY <1>2, <1>3, <3>2, <3>3
  <2>2. ASSUME NEW i \in 1..Len(start), i >= a + 2, i < e + 1 PROVE start[i] # Ampersand
    <3>0. i \in 1..n /\ i <= b /\ start[i] = text[i]
      BY <1>2, <1>4, <1>7, <2>2
    <3>1. CASE i < eq
      <4>1. i - (a + 1) \in 1..Len(k) /\ a + 1 + (i - (a + 1)) = i
        BY <1>1, <1>2, <1>5, <2>2, <3>1
      <4>2. text[i] = k[i - (a + 1)]
        BY <1>3, <4>1
      <4> QED BY <1>1, <3>0, <4>1, <4>2
    <3>2. CASE i = eq
      BY <1>3, <3>0, <3>2, SignsDiffer
    <3>3. CASE i > eq
      <4>1. i - eq \in 1..Len(v) /\ eq + (i - eq) = i
        BY <1>1, <1>4, <3>0, <3>3
      <4>2. text[i] = v[i - eq]
        BY <1>3, <4>1
      <4> QED BY <1>1, <3>0, <4>1, <4>2
    <3> QED BY <1>4, <3>0, <3>1, <3>2, <3>3
  <2>3. a + 2 \in Nat \ {0} /\ a + 2 <= e + 1 /\ e + 1 <= Len(start) + 1 /\ e + 1 \in Nat
    BY <1>2, <1>4, <1>7
  <2> QED BY <1>2, <2>1, <2>2, <2>3, FindIs
<1>10. SubSeq(start, a + 2, eq - 1) = k
  <2>1. a + 1 \in Nat /\ (a + 1) + Len(k) <= Len(start)
    BY <1>1, <1>2, <1>5, <1>6
  <2>2. ASSUME NEW i \in 1..Len(k) PROVE start[(a + 1) + i] = k[i]
    <3>1. (a + 1) + i \in 1..n
      BY <1>1, <1>2, <2>1
    <3> QED BY <1>2, <1>3, <3>1
  <2>3. SubSeq(start, (a + 1) + 1, (a + 1) + Len(k)) = k
    BY <1>1, <1>2, <2>1, <2>2, PartIs
  <2>4. (a + 1) + 1 = a + 2 /\ (a + 1) + Len(k) = eq - 1
    BY <1>1, <1>5
  <2> QED BY <2>3, <2>4
<1>11. Trim(SubSeq(start, eq + 1, (e + 1) - 1)) = Trim(v)
  <2> DEFINE m == e - eq
             part == SubSeq(v, 1, m)
  <2>1. m \in 0..Len(v) /\ eq + m = e /\ (e + 1) - 1 = e
    BY <1>1, <1>4, <1>7
  <2> HIDE DEF m
  <2>2. part \in Text /\ Len(part) = m /\ \A i \in 1..m : part[i] = v[i]
    BY <1>1, <2>1 DEF Text
  <2> HIDE DEF part
  <2>3. ASSUME NEW i \in 1..Len(part) PROVE start[eq + i] = part[i]
    <3>1. i \in 1..m /\ i \in 1..Len(v) /\ eq + i \in 1..n
      BY <1>1, <1>2, <1>4, <1>7, <2>1, <2>2
    <3> QED BY <1>2, <1>3, <2>2, <3>1
  <2>4. eq + Len(part) <= Len(start)
    BY <1>2, <1>7, <2>1, <2>2
  <2>5. SubSeq(start, eq + 1, eq + Len(part)) = part
    BY <1>2, <1>4, <2>2, <2>3, <2>4, PartIs
  <2>6. ASSUME NEW i \in 1..Len(v), i > m PROVE v[i] = Blank
    <3>1. eq + i \in 1..Len(text) /\ eq + i > n
      BY <1>1, <1>2, <1>3, <1>4, <1>7, <2>1, <2>6
    <3> QED BY <1>3, <3>1
  <2>7. Trim(part) = Trim(v)
    BY <1>1, <2>1, <2>6, TrimOfStart DEF part
  <2> QED BY <2>1, <2>2, <2>5, <2>7
<1>12. ASSUME NEW rest, rest # Refused
       PROVE  Round(start, a + 2, rest) = Parsed(Before(k, Trim(v), rest.fields))
  <2>1. ~(eq <= a + 2) /\ ~(eq >= e + 1)
    BY <1>4, <1>7
  <2>2. Trim(SubSeq(start, a + 2, eq - 1)) = k /\ k # <<>>
    BY <1>1, <1>10
  <2> QED BY <1>8, <1>9, <1>11, <1>12, <2>1, <2>2 DEF Round
<1>13. a + 2 <= n
  BY <1>2, <1>4, <1>6
<1> QED BY <1>9, <1>12, <1>13 DEF start, e, b

(* Texts of printable characters.                                           *)
CleanText == {t \in Text : \A i \in DOMAIN t : t[i] \notin Unprintable}

LEMMA CleanIs ==
  ASSUME NEW t
  PROVE  t \in CleanText <=> t \in Text /\ \A i \in 1..Len(t) : t[i] \notin Unprintable
<1>1. t \in Text => DOMAIN t = 1..Len(t)
  BY DEF Text
<1> QED BY <1>1 DEF CleanText

LEMMA CleanOne == ASSUME NEW c \in Character \ Unprintable PROVE <<c>> \in CleanText
<1>1. <<c>> \in Text /\ Len(<<c>>) = 1 /\ <<c>>[1] = c
  BY DEF Text
<1> QED BY <1>1, CleanIs

LEMMA CleanConcat ==
  ASSUME NEW s \in CleanText, NEW t \in CleanText
  PROVE  s \o t \in CleanText
<1> DEFINE w == s \o t
<1>1. s \in Text /\ t \in Text /\ (\A i \in 1..Len(s) : s[i] \notin Unprintable)
      /\ (\A i \in 1..Len(t) : t[i] \notin Unprintable)
  BY CleanIs
<1>2. /\ w \in Text /\ Len(w) = Len(s) + Len(t)
      /\ \A i \in 1..(Len(s) + Len(t)) : w[i] = IF i <= Len(s) THEN s[i] ELSE t[i - Len(s)]
  BY <1>1, ConcatProperties DEF Text
<1>3. Len(s) \in Nat /\ Len(t) \in Nat
  BY <1>1, LenIsNat
<1> HIDE DEF w
<1>4. ASSUME NEW i \in 1..Len(w) PROVE w[i] \notin Unprintable
  <2>1. CASE i <= Len(s)
    BY <1>1, <1>2, <1>3, <2>1
  <2>2. CASE ~(i <= Len(s))
    <3>1. i - Len(s) \in 1..Len(t) /\ w[i] = t[i - Len(s)]
      BY <1>2, <1>3, <2>2
    <3> QED BY <1>1, <3>1
  <2> QED BY <2>1, <2>2
<1>5. w \in CleanText
  BY <1>2, <1>4, CleanIs
<1> QED BY <1>5 DEF w

(* Five pieces of text in one.                                              *)
Pieces(w, s, c, k, d, v) ==
  /\ w \in Text /\ Len(w) = Len(s) + 2 + Len(k) + Len(v)
  /\ \A i \in 1..Len(s) : w[i] = s[i]
  /\ w[Len(s) + 1] = c
  /\ \A i \in 1..Len(k) : w[Len(s) + 1 + i] = k[i]
  /\ w[Len(s) + 2 + Len(k)] = d
  /\ \A i \in 1..Len(v) : w[Len(s) + 2 + Len(k) + i] = v[i]

LEMMA Joined ==
  ASSUME NEW s \in Text, NEW k \in Text, NEW v \in Text, NEW c \in Character, NEW d \in Character
  PROVE  Pieces(s \o <<c>> \o k \o <<d>> \o v, s, c, k, d, v)
<1> DEFINE w1 == s \o <<c>>
           w2 == w1 \o k
           w3 == w2 \o <<d>>
           w == w3 \o v
<1>1. /\ s \in Seq(Character) /\ k \in Seq(Character) /\ v \in Seq(Character)
      /\ <<c>> \in Seq(Character) /\ <<d>> \in Seq(Character)
      /\ Len(<<c>>) = 1 /\ Len(<<d>>) = 1 /\ <<c>>[1] = c /\ <<d>>[1] = d
  BY DEF Text
<1>2. Len(s) \in Nat /\ Len(k) \in Nat /\ Len(v) \in Nat
  BY LenIsNat
<1>3. /\ w1 \in Seq(Character) /\ Len(w1) = Len(s) + 1
      /\ \A i \in 1..(Len(s) + 1) : w1[i] = IF i <= Len(s) THEN s[i] ELSE <<c>>[i - Len(s)]
  BY <1>1, ConcatProperties
<1> HIDE DEF w1
<1>4. /\ w2 \in Seq(Character) /\ Len(w2) = Len(w1) + Len(k)
      /\ \A i \in 1..(Len(w1) + Len(k)) : w2[i] = IF i <= Len(w1) THEN w1[i] ELSE k[i - Len(w1)]
  BY <1>1, <1>3, ConcatProperties
<1> HIDE DEF w2
<1>5. /\ w3 \in Seq(Character) /\ Len(w3) = Len(w2) + 1
      /\ w3[Len(w2) + 1] = d /\ \A i \in 1..Len(w2) : w3[i] = w2[i]
  <2>1. w2 \in Seq(Character)
    BY <1>4
  <2>2. w3 = Append(w2, d)
    BY <2>1, AppendIsConcat
  <2> HIDE DEF w3
  <2> QED BY <2>1, <2>2, AppendProperties
<1> HIDE DEF w3
<1>6. /\ w \in Seq(Character) /\ Len(w) = Len(w3) + Len(v)
      /\ \A i \in 1..(Len(w3) + Len(v)) : w[i] = IF i <= Len(w3) THEN w3[i] ELSE v[i - Len(w3)]
  <2>1. w3 \in Seq(Character) /\ v \in Seq(Character)
    BY <1>1, <1>5
  <2> QED BY <2>1, ConcatProperties
<1> HIDE DEF w
<1>7. Len(w1) = Len(s) + 1 /\ Len(w2) = Len(s) + 1 + Len(k) /\ Len(w3) = Len(s) + 2 + Len(k)
      /\ Len(w) = Len(s) + 2 + Len(k) + Len(v)
  BY <1>2, <1>3, <1>4, <1>5, <1>6
<1>8. ASSUME NEW i \in 1..Len(s) PROVE w[i] = s[i]
  <2>1. w[i] = w3[i]
    BY <1>2, <1>6, <1>7
  <2>2. w3[i] = w2[i]
    BY <1>2, <1>5, <1>7
  <2>3. w2[i] = w1[i]
    BY <1>2, <1>4, <1>7
  <2>4. w1[i] = s[i]
    BY <1>2, <1>3
  <2> QED BY <2>1, <2>2, <2>3, <2>4
<1>9. w[Len(s) + 1] = c
  <2> DEFINE i == Len(s) + 1
  <2>1. w[i] = w3[i]
    BY <1>2, <1>6, <1>7
  <2>2. w3[i] = w2[i]
    BY <1>2, <1>5, <1>7
  <2>3. w2[i] = w1[i]
    BY <1>2, <1>4, <1>7
  <2>4. w1[i] = <<c>>[1]
    <3>1. i - Len(s) = 1 /\ i \in 1..(Len(s) + 1) /\ ~(i <= Len(s))
      BY <1>2
    <3> QED BY <1>3, <3>1
  <2> QED BY <1>1, <2>1, <2>2, <2>3, <2>4
<1>10. ASSUME NEW i \in 1..Len(k) PROVE w[Len(s) + 1 + i] = k[i]
  <2> DEFINE j == Len(s) + 1 + i
  <2>1. w[j] = w3[j]
    BY <1>2, <1>6, <1>7
  <2>2. w3[j] = w2[j]
    BY <1>2, <1>5, <1>7
  <2>3. w2[j] = k[i]
    <3>1. j - Len(w1) = i /\ j \in 1..(Len(w1) + Len(k)) /\ ~(j <= Len(w1))
      BY <1>2, <1>7
    <3> QED BY <1>4, <3>1
  <2> QED BY <2>1, <2>2, <2>3
<1>11. w[Len(s) + 2 + Len(k)] = d
  <2> DEFINE j == Len(s) + 2 + Len(k)
  <2>1. w[j] = w3[j]
    BY <1>2, <1>6, <1>7
  <2>2. j = Len(w2) + 1
    BY <1>2, <1>7
  <2> QED BY <1>5, <2>1, <2>2
<1>12. ASSUME NEW i \in 1..Len(v) PROVE w[Len(s) + 2 + Len(k) + i] = v[i]
  <2> DEFINE j == Len(s) + 2 + Len(k) + i
  <2>1. j - Len(w3) = i /\ j \in 1..(Len(w3) + Len(v)) /\ ~(j <= Len(w3))
    BY <1>2, <1>7
  <2> QED BY <1>6, <2>1
<1>13. w \in Text
  BY <1>6 DEF Text
<1>14. Pieces(w, s, c, k, d, v)
  BY <1>7, <1>8, <1>9, <1>10, <1>11, <1>12, <1>13 DEF Pieces
<1> QED BY <1>14 DEF w, w3, w2, w1

-----------------------------------------------------------------------------
(* A text that another starts with, a field following if it goes on.        *)
Extends(w, s) ==
  /\ Len(s) <= Len(w) /\ \A i \in 1..Len(s) : w[i] = s[i]
  /\ Len(s) < Len(w) => w[Len(s) + 1] = Ampersand

LEMMA SignsAre ==
  /\ Ampersand \in Character \ Unprintable /\ Equals \in Character \ Unprintable
  /\ Question \in Character \ Unprintable
BY LineReaderAssumption

LEMMA KeysAre ==
  /\ Len(Keys) \in Nat /\ DOMAIN Keys = 1..Len(Keys)
  /\ \A i \in 1..Len(Keys) : Key(Keys[i])
  /\ \A i, j \in 1..Len(Keys) : Keys[i] = Keys[j] => i = j
<1>1. Len(Keys) \in Nat /\ DOMAIN Keys = 1..Len(Keys)
  BY LineReaderAssumption
<1>2. \A i \in DOMAIN Keys : Key(Keys[i]) /\ \A j \in DOMAIN Keys : Keys[i] = Keys[j] => i = j
  BY LineReaderAssumption
<1> QED BY <1>1, <1>2

LEMMA KeyIsClean == ASSUME NEW k, Key(k) PROVE k \in CleanText
<1>1. k \in Text /\ \A i \in DOMAIN k : k[i] \notin Unprintable
  BY DEF Key
<1> QED BY <1>1 DEF CleanText

LEMMA ValueIsClean == ASSUME NEW v, Value(v) PROVE v \in CleanText
<1>1. v \in Text /\ \A i \in DOMAIN v : v[i] \notin Unprintable
  BY DEF Value
<1> QED BY <1>1 DEF CleanText

LEMMA AddFieldIs ==
  ASSUME NEW s \in CleanText, NEW fields, Parameters(fields), NEW k, Key(k)
  PROVE  /\ AddField(s, fields, k) \in CleanText
         /\ Extends(AddField(s, fields, k), s)
         /\ IF k \in DOMAIN fields
            THEN /\ Len(AddField(s, fields, k)) = Len(s) + 2 + Len(k) + Len(fields[k])
                 /\ HasField(AddField(s, fields, k), Len(s), k, fields[k])
            ELSE AddField(s, fields, k) = s
<1> DEFINE w == AddField(s, fields, k)
           v == fields[k]
<1>1. s \in Text /\ k \in Text /\ k \in CleanText /\ Len(s) \in Nat /\ Len(k) \in Nat
  BY KeyIsClean, LenIsNat DEF CleanText
<1>2. CASE k \in DOMAIN fields
  <2>1. Value(v) /\ v \in CleanText /\ v \in Text /\ Len(v) \in Nat
    <3>1. Value(v)
      BY <1>2 DEF Parameters
    <3>2. v \in CleanText
      BY <3>1, ValueIsClean
    <3> QED BY <3>1, <3>2, LenIsNat DEF CleanText
  <2> HIDE DEF v
  <2>2. w = s \o <<Ampersand>> \o k \o <<Equals>> \o v
    BY <1>2 DEF AddField, v
  <2>3. /\ w \in Text /\ Len(w) = Len(s) + 2 + Len(k) + Len(v)
        /\ \A i \in 1..Len(s) : w[i] = s[i]
        /\ w[Len(s) + 1] = Ampersand
        /\ \A i \in 1..Len(k) : w[Len(s) + 1 + i] = k[i]
        /\ w[Len(s) + 2 + Len(k)] = Equals
        /\ \A i \in 1..Len(v) : w[Len(s) + 2 + Len(k) + i] = v[i]
    <3>1. Ampersand \in Character /\ Equals \in Character
      BY SignsAre
    <3>2. Pieces(s \o <<Ampersand>> \o k \o <<Equals>> \o v, s, Ampersand, k, Equals, v)
      BY <1>1, <2>1, <3>1, Joined
    <3> HIDE DEF w
    <3>3. Pieces(w, s, Ampersand, k, Equals, v)
      BY <2>2, <3>2
    <3> QED BY <3>3 DEF Pieces
  <2>4. w \in CleanText
    <3>1. <<Ampersand>> \in CleanText /\ <<Equals>> \in CleanText
      BY SignsAre, CleanOne
    <3>2. s \o <<Ampersand>> \in CleanText
      BY <3>1, CleanConcat
    <3>3. s \o <<Ampersand>> \o k \in CleanText
      BY <1>1, <3>2, CleanConcat
    <3>4. s \o <<Ampersand>> \o k \o <<Equals>> \in CleanText
      BY <3>1, <3>3, CleanConcat
    <3> QED BY <2>1, <2>2, <3>4, CleanConcat
  <2> HIDE DEF w
  <2>5. Extends(w, s)
    BY <1>1, <2>1, <2>3 DEF Extends
  <2>6. HasField(w, Len(s), k, v)
    BY <1>1, <2>1, <2>3 DEF HasField
  <2> QED BY <1>2, <2>3, <2>4, <2>5, <2>6 DEF w, v
<1>3. CASE k \notin DOMAIN fields
  <2>1. w = s
    BY <1>3 DEF AddField
  <2>2. Extends(s, s)
    BY <1>1 DEF Extends
  <2> QED BY <1>3, <2>1, <2>2
<1> QED BY <1>2, <1>3

(* Fields, a key at a time.                                                 *)
FieldsBy(f, fields) ==
  /\ f \in [0..Len(Keys) -> CleanText] /\ f[0] = <<>>
  /\ \A i \in 1..Len(Keys) : f[i] = AddField(f[i - 1], fields, Keys[i])

LEMMA FieldsSteps ==
  ASSUME NEW fields, Parameters(fields)
  PROVE  \E f : FieldsBy(f, fields) /\ Fields(fields, Keys) = f[Len(Keys)]
<1> DEFINE N == Len(Keys)
           next == [p \in (1..N) \X CleanText |-> AddField(p[2], fields, Keys[p[1]])]
           Is(f) == f = [i \in 0..N |->
                           IF i = 0 THEN <<>> ELSE AddField(f[i - 1], fields, Keys[i])]
<1>1. N \in Nat
  BY KeysAre
<1>0. <<>> \in CleanText
  BY TextFacts, CleanIs
<1>2. \A i \in 1..N, x \in CleanText : AddField(x, fields, Keys[i]) \in CleanText
  BY KeysAre, AddFieldIs
<1> HIDE DEF N
<1>3. next \in [(1..N) \X CleanText -> CleanText]
  <2>1. ASSUME NEW p \in (1..N) \X CleanText PROVE AddField(p[2], fields, Keys[p[1]]) \in CleanText
    BY <1>2
  <2> QED BY <2>1
<1>4. PICK f \in [0..N -> CleanText] :
        f[0] = <<>> /\ \A n \in 1..N : f[n] = next[<<n, f[n - 1]>>]
  <2> HIDE DEF next
  <2>1. Steps(CleanText, <<>>, N, next)
    BY <1>0, <1>1, <1>3, Iteration
  <2> QED BY <2>1 DEF Steps
<1>5. ASSUME NEW n \in 1..N PROVE f[n] = AddField(f[n - 1], fields, Keys[n])
  <2>1. <<n, f[n - 1]>> \in (1..N) \X CleanText
    BY <1>1, <1>4
  <2> QED BY <1>4, <2>1
<1> HIDE DEF next
<1>6. Is(f)
  BY <1>1, <1>4, <1>5
<1> DEFINE g == CHOOSE h : Is(h)
<1>7. Is(g)
  <2> HIDE DEF Is
  <2> QED BY <1>6
<1>8. Fields(fields, Keys) = g[N]
  BY Zenon DEF Fields, N, g
<1> HIDE DEF g
<1>9. g[0] = <<>> /\ \A n \in 1..N : g[n] = AddField(g[n - 1], fields, Keys[n])
  BY <1>1, <1>7
<1> HIDE DEF Is
<1> DEFINE P == {n \in Nat : n <= N => g[n] = f[n]}
<1>10. 0 \in P
  BY <1>4, <1>9
<1>11. ASSUME NEW n \in Nat, n \in P PROVE n + 1 \in P
  BY <1>1, <1>5, <1>9, <1>11
<1> HIDE DEF P
<1>12. N \in P
  BY <1>1, <1>10, <1>11, Induction
<1>13. g[N] = f[N]
  BY <1>1, <1>12 DEF P
<1> QED BY <1>4, <1>5, <1>8, <1>13 DEF FieldsBy, N

LEMMA FieldsStep ==
  ASSUME NEW fields, Parameters(fields), NEW f, FieldsBy(f, fields), NEW i \in 1..Len(Keys)
  PROVE  /\ f[i] \in CleanText /\ f[i] \in Text /\ f[i - 1] \in CleanText /\ f[i - 1] \in Text
         /\ Len(f[i]) \in Nat /\ Len(f[i - 1]) \in Nat /\ Extends(f[i], f[i - 1])
         /\ IF Keys[i] \in DOMAIN fields
            THEN /\ Len(f[i]) = Len(f[i - 1]) + 2 + Len(Keys[i]) + Len(fields[Keys[i]])
                 /\ HasField(f[i], Len(f[i - 1]), Keys[i], fields[Keys[i]])
            ELSE f[i] = f[i - 1]
<1>1. i \in 0..Len(Keys) /\ i - 1 \in 0..Len(Keys) /\ Key(Keys[i])
  BY KeysAre
<1>2. f[i] \in CleanText /\ f[i - 1] \in CleanText /\ f[i] = AddField(f[i - 1], fields, Keys[i])
  BY <1>1 DEF FieldsBy
<1>3. f[i] \in Text /\ f[i - 1] \in Text
  BY <1>2 DEF CleanText
<1> DEFINE s == f[i - 1]
           k == Keys[i]
           w == AddField(s, fields, k)
<1>4. s \in CleanText /\ Key(k) /\ f[i] = w
  BY <1>1, <1>2
<1> HIDE DEF s, k
<1>5. /\ Extends(w, s)
      /\ IF k \in DOMAIN fields
         THEN /\ Len(w) = Len(s) + 2 + Len(k) + Len(fields[k])
              /\ HasField(w, Len(s), k, fields[k])
         ELSE w = s
  BY <1>4, AddFieldIs
<1> HIDE DEF w
<1>6. Len(f[i]) \in Nat /\ Len(s) \in Nat
  BY <1>3, LenIsNat DEF s
<1> QED BY <1>2, <1>3, <1>4, <1>5, <1>6 DEF s, k

LEMMA ExtendsOn ==
  ASSUME NEW u \in Text, NEW t \in Text, NEW s \in Text, Extends(u, t), Extends(t, s)
  PROVE  Extends(u, s)
<1>1. Len(u) \in Nat /\ Len(t) \in Nat /\ Len(s) \in Nat
  BY LenIsNat
<1>2. /\ Len(t) <= Len(u) /\ (\A i \in 1..Len(t) : u[i] = t[i])
      /\ (Len(t) < Len(u) => u[Len(t) + 1] = Ampersand)
      /\ Len(s) <= Len(t) /\ (\A i \in 1..Len(s) : t[i] = s[i])
      /\ (Len(s) < Len(t) => t[Len(s) + 1] = Ampersand)
  BY DEF Extends
<1>3. ASSUME NEW i \in 1..Len(s) PROVE u[i] = s[i]
  BY <1>1, <1>2
<1>4. ASSUME Len(s) < Len(u) PROVE u[Len(s) + 1] = Ampersand
  <2>1. CASE Len(s) < Len(t)
    <3>1. Len(s) + 1 \in 1..Len(t)
      BY <1>1, <2>1
    <3> QED BY <1>2, <2>1, <3>1
  <2>2. CASE ~(Len(s) < Len(t))
    <3>1. Len(s) = Len(t)
      BY <1>1, <1>2, <2>2
    <3> QED BY <1>2, <1>4, <3>1
  <2> QED BY <2>1, <2>2
<1>5. Len(s) <= Len(u)
  BY <1>1, <1>2
<1> QED BY <1>3, <1>4, <1>5 DEF Extends

LEMMA FieldsExtend ==
  ASSUME NEW fields, Parameters(fields), NEW f, FieldsBy(f, fields), NEW i \in 0..Len(Keys)
  PROVE  f[i] \in Text /\ f[Len(Keys)] \in Text /\ Extends(f[Len(Keys)], f[i])
<1> DEFINE N == Len(Keys)
           P == {m \in Nat : m <= N - i => Extends(f[i + m], f[i])}
<1>1. N \in Nat /\ i \in Nat /\ i <= N
  BY KeysAre
<1>2. ASSUME NEW j \in 0..N PROVE f[j] \in Text
  BY <1>2 DEF FieldsBy, CleanText
<1>3. 0 \in P
  <2>1. f[i] \in Text /\ i + 0 = i
    BY <1>1, <1>2
  <2>2. Len(f[i]) \in Nat
    BY <2>1, LenIsNat
  <2> QED BY <2>1, <2>2 DEF Extends
<1>4. ASSUME NEW m \in Nat, m \in P PROVE m + 1 \in P
  <2> SUFFICES ASSUME m + 1 <= N - i PROVE Extends(f[i + (m + 1)], f[i])
    OBVIOUS
  <2> DEFINE j == i + (m + 1)
  <2>1. j \in 1..N /\ j - 1 = i + m /\ j \in 0..N /\ i + m \in 0..N /\ m <= N - i
    BY <1>1
  <2>2. Extends(f[i + m], f[i])
    BY <1>4, <2>1
  <2> HIDE DEF j
  <2>3. Extends(f[j], f[j - 1])
    BY <2>1, FieldsStep
  <2>4. Extends(f[j], f[i])
    BY <1>2, <2>1, <2>2, <2>3, ExtendsOn
  <2> QED BY <2>4 DEF j
<1> HIDE DEF P
<1>5. N - i \in P
  <2>1. N - i \in Nat
    BY <1>1
  <2> QED BY <1>3, <1>4, <2>1, Induction
<1>6. Extends(f[N], f[i])
  <2>1. N - i \in Nat /\ i + (N - i) = N
    BY <1>1
  <2> QED BY <1>5, <2>1 DEF P
<1>7. f[N] \in Text /\ f[i] \in Text
  BY <1>1, <1>2
<1> QED BY <1>6, <1>7

-----------------------------------------------------------------------------
(* The fields of the keys that come later, as they are parsed.              *)
LaterKeys(fields, i) == {Keys[j] : j \in (i + 1)..Len(Keys)} \cap DOMAIN fields
Later(fields, i) == [k \in LaterKeys(fields, i) |-> Trim(fields[k])]

(* A text that holds the fields after its first p characters, of which      *)
(* the first may be another sign.                                           *)
Holding(text, p, f) ==
  /\ p \in Nat /\ Len(text) = p + Len(f[Len(Keys)])
  /\ \A j \in 1..Len(f[Len(Keys)]) : p + j >= 2 => text[p + j] = f[Len(Keys)][j]

LEMMA HoldingField ==
  ASSUME NEW fields, Parameters(fields), NEW f, FieldsBy(f, fields), NEW i \in 1..Len(Keys),
         NEW text \in Text, NEW p, Holding(text, p, f), Keys[i] \in DOMAIN fields
  PROVE  HasField(text, p + Len(f[i - 1]), Keys[i], fields[Keys[i]])
<1> DEFINE k == Keys[i]
           v == fields[Keys[i]]
           a == Len(f[i - 1])
           w == f[Len(Keys)]
           b == a + 2 + Len(k) + Len(v)
<1>1. /\ f[i] \in Text /\ a \in Nat /\ Len(f[i]) = b /\ HasField(f[i], a, k, v)
  BY FieldsStep
<1>2. w \in Text /\ Extends(w, f[i])
  BY FieldsExtend
<1>3. Key(k) /\ Value(v)
  BY KeysAre DEF Parameters
<1>4. Len(k) \in Nat /\ Len(v) \in Nat /\ Len(w) \in Nat /\ p \in Nat /\ Len(text) \in Nat
  BY <1>2, <1>3, LenIsNat DEF Key, Value, Holding
<1>5. /\ Len(text) = p + Len(w) /\ \A j \in 1..Len(w) : p + j >= 2 => text[p + j] = w[j]
  BY DEF Holding
<1>6. /\ b <= Len(w) /\ (\A j \in 1..b : w[j] = f[i][j]) /\ (b < Len(w) => w[b + 1] = Ampersand)
  BY <1>1, <1>2 DEF Extends
<1>7. /\ (\A j \in 1..Len(k) : f[i][a + 1 + j] = k[j]) /\ f[i][a + 2 + Len(k)] = Equals
      /\ (\A j \in 1..Len(v) : f[i][a + 2 + Len(k) + j] = v[j])
  BY <1>1 DEF HasField
<1>8. b = a + 2 + Len(k) + Len(v)
  OBVIOUS
<1> HIDE DEF k, v, a, w, b
<1>9. ASSUME NEW j \in 2..b PROVE text[p + j] = f[i][j]
  <2>1. j \in 1..Len(w) /\ p + j >= 2 /\ j \in 1..b
    BY <1>1, <1>4, <1>6, <1>8
  <2> QED BY <1>5, <1>6, <2>1
<1>10. (p + a) + 2 + Len(k) + Len(v) = p + b /\ p + b <= Len(text)
  BY <1>1, <1>4, <1>5, <1>6, <1>8
<1>11. ASSUME NEW j \in 1..Len(k) PROVE text[(p + a) + 1 + j] = k[j]
  <2>1. a + 1 + j \in 2..b /\ (p + a) + 1 + j = p + (a + 1 + j)
    BY <1>1, <1>4, <1>8
  <2> QED BY <1>7, <1>9, <2>1
<1>12. text[(p + a) + 2 + Len(k)] = Equals
  <2>1. a + 2 + Len(k) \in 2..b /\ (p + a) + 2 + Len(k) = p + (a + 2 + Len(k))
    BY <1>1, <1>4, <1>8
  <2> QED BY <1>7, <1>9, <2>1
<1>13. ASSUME NEW j \in 1..Len(v) PROVE text[(p + a) + 2 + Len(k) + j] = v[j]
  <2>1. a + 2 + Len(k) + j \in 2..b /\ (p + a) + 2 + Len(k) + j = p + (a + 2 + Len(k) + j)
    BY <1>1, <1>4, <1>8
  <2> QED BY <1>7, <1>9, <2>1
<1>14. ASSUME p + b < Len(text) PROVE text[p + b + 1] = Ampersand
  <2>1. b < Len(w) /\ b + 1 \in 1..Len(w) /\ p + (b + 1) >= 2 /\ p + b + 1 = p + (b + 1)
    BY <1>1, <1>4, <1>5, <1>8, <1>14
  <2> QED BY <1>5, <1>6, <2>1
<1>15. HasField(text, p + a, k, v)
  BY <1>10, <1>11, <1>12, <1>13, <1>14 DEF HasField
<1> QED BY <1>15 DEF a, k, v

LEMMA NothingLater == ASSUME NEW fields PROVE Later(fields, Len(Keys)) = <<>>
<1>1. LaterKeys(fields, Len(Keys)) = {}
  <2>1. (Len(Keys) + 1)..Len(Keys) = {}
    BY KeysAre
  <2> QED BY <2>1 DEF LaterKeys
<1> QED BY <1>1 DEF Later

LEMMA OneLater ==
  ASSUME NEW fields, NEW i \in 1..Len(Keys), Keys[i] \in DOMAIN fields
  PROVE  Before(Keys[i], Trim(fields[Keys[i]]), Later(fields, i)) = Later(fields, i - 1)
<1> DEFINE k == Keys[i]
           D == LaterKeys(fields, i)
           E == LaterKeys(fields, i - 1)
<1>1. Len(Keys) \in Nat /\ \A j, m \in 1..Len(Keys) : Keys[j] = Keys[m] => j = m
  BY KeysAre
<1>2. k \notin D
  <2>1. ASSUME NEW j \in (i + 1)..Len(Keys), k = Keys[j] PROVE FALSE
    <3>1. j \in 1..Len(Keys) /\ i # j
      BY <1>1
    <3> QED BY <1>1, <2>1, <3>1
  <2> QED BY <2>1 DEF LaterKeys
<1>3. E = {k} \cup D
  <2>1. (i - 1) + 1 = i /\ i..Len(Keys) = {i} \cup ((i + 1)..Len(Keys))
    BY <1>1
  <2>2. {Keys[j] : j \in i..Len(Keys)} = {k} \cup {Keys[j] : j \in (i + 1)..Len(Keys)}
    BY <2>1
  <2> QED BY <2>1, <2>2 DEF LaterKeys
<1>4. DOMAIN Later(fields, i) = D /\ \A x \in D : Later(fields, i)[x] = Trim(fields[x])
  BY DEF Later
<1>5. Later(fields, i - 1) = [x \in E |-> Trim(fields[x])]
  BY DEF Later
<1> HIDE DEF k, D, E
<1>6. Before(k, Trim(fields[k]), Later(fields, i))
        = [x \in {k} \cup D |-> IF x \in D THEN Later(fields, i)[x] ELSE Trim(fields[k])]
  BY <1>4 DEF Before
<1>7. [x \in {k} \cup D |-> IF x \in D THEN Later(fields, i)[x] ELSE Trim(fields[k])]
        = [x \in {k} \cup D |-> Trim(fields[x])]
  BY <1>2, <1>4
<1> QED BY <1>3, <1>5, <1>6, <1>7 DEF k

LEMMA NotLater ==
  ASSUME NEW fields, NEW i \in 1..Len(Keys), Keys[i] \notin DOMAIN fields
  PROVE  Later(fields, i) = Later(fields, i - 1)
<1>1. (i - 1) + 1 = i /\ i..Len(Keys) = {i} \cup ((i + 1)..Len(Keys))
  BY KeysAre
<1>2. LaterKeys(fields, i) = LaterKeys(fields, i - 1)
  BY <1>1 DEF LaterKeys
<1> QED BY <1>2 DEF Later

LEMMA ParsedIsNotRefused == ASSUME NEW fields PROVE Parsed(fields) # Refused /\ Parsed(fields).fields = fields
BY DEF Parsed, Refused

(* parseParameters from the cursor after the fields of the first i keys on. *)
LEMMA FieldsParsed ==
  ASSUME NEW fields, Parameters(fields), NEW f, FieldsBy(f, fields),
         NEW text \in Text, NEW p, Holding(text, p, f),
         NEW n \in 1..Len(text), \A i \in 1..Len(text) : i > n => text[i] = Blank,
         NEW at \in 0..Len(Keys)
  PROVE  Rounds(SubSeq(text, 1, n))[Lesser(p + Len(f[at]), n) + 2] = Parsed(Later(fields, at))
<1> DEFINE start == SubSeq(text, 1, n)
           N == Len(Keys)
           Right(i) == Rounds(start)[Lesser(p + Len(f[i]), n) + 2] = Parsed(Later(fields, i))
           P == {m \in Nat : m <= N => Right(N - m)}
<1>1. N \in Nat /\ p \in Nat /\ Len(text) \in Nat /\ Len(text) = p + Len(f[N]) /\ n \in Nat
  BY KeysAre, LenIsNat DEF Holding
<1>2. start \in Text /\ Len(start) = n
  BY <1>1 DEF Text
<1>3. \A cursor \in 1..(n + 2) : Rounds(start)[cursor] = RoundFrom(start, Rounds(start), cursor)
  <2> HIDE DEF start
  <2>1. \A cursor \in 1..(Len(start) + 2) :
           Rounds(start)[cursor] = RoundFrom(start, Rounds(start), cursor)
    BY <1>2, RoundsIs
  <2> QED BY <1>2, <2>1
<1> HIDE DEF start
<1>4. 0 \in P
  <2>1. Lesser(p + Len(f[N]), n) = n
    BY <1>1 DEF Lesser
  <2>2. Rounds(start)[n + 2] = RoundFrom(start, Rounds(start), n + 2)
    <3>1. n + 2 \in 1..(n + 2)
      BY <1>1
    <3> QED BY <1>3, <3>1
  <2>3. n + 2 > Len(start)
    BY <1>1, <1>2
  <2>4. Rounds(start)[n + 2] = Parsed(Later(fields, N))
    BY <2>2, <2>3, NothingLater DEF RoundFrom
  <2>5. N - 0 = N
    BY <1>1
  <2>6. Right(N)
    BY <2>1, <2>4
  <2> HIDE DEF Right
  <2> QED BY <2>5, <2>6
<1>5. ASSUME NEW m \in Nat, m \in P PROVE m + 1 \in P
  <2> SUFFICES ASSUME m + 1 <= N PROVE Right(N - (m + 1))
    OBVIOUS
  <2> DEFINE i == N - m
             k == Keys[i]
             v == fields[k]
             a == p + Len(f[i - 1])
  <2>1. i \in 1..N /\ i - 1 = N - (m + 1) /\ m <= N
    BY <1>1
  <2>2. Right(i)
    BY <1>5, <2>1
  <2> HIDE DEF i
  <2>3. Rounds(start)[Lesser(p + Len(f[i]), n) + 2] = Parsed(Later(fields, i))
    BY <2>2
  <2>4. CASE k \in DOMAIN fields
    <3>1. /\ Len(f[i]) = Len(f[i - 1]) + 2 + Len(k) + Len(v) /\ Len(f[i - 1]) \in Nat
          /\ HasField(text, a, k, v)
      BY <2>1, <2>4, FieldsStep, HoldingField
    <3>2. Key(k) /\ Value(v)
      BY <2>1, <2>4, KeysAre DEF Parameters
    <3>3. a \in Nat
      BY <1>1, <3>1
    <3>4. Len(k) \in Nat /\ Len(v) \in Nat
      BY <3>2, LenIsNat DEF Key, Value
    <3>5. k = Keys[i] /\ v = fields[Keys[i]] /\ a = p + Len(f[i - 1])
      OBVIOUS
    <3> HIDE DEF a, k, v
    <3>6. /\ a + 2 <= n
          /\ Find(start, Ampersand, a + 2) = Lesser(a + 2 + Len(k) + Len(v), n) + 1
          /\ \A rest : rest # Refused =>
               Round(start, a + 2, rest) = Parsed(Before(k, Trim(v), rest.fields))
      BY <3>1, <3>2, <3>3, FieldParsed DEF start
    <3>7. a + 2 + Len(k) + Len(v) = p + Len(f[i])
      <4> DEFINE x == Len(f[i - 1])
                 y == Len(f[i])
                 lk == Len(k)
                 lv == Len(v)
      <4>1. /\ x \in Nat /\ p \in Nat /\ lk \in Nat /\ lv \in Nat
            /\ y = x + 2 + lk + lv /\ a = p + x
        BY <1>1, <3>1, <3>4, <3>5
      <4> HIDE DEF x, y, lk, lv
      <4>2. a + 2 + lk + lv = p + y
        BY <4>1
      <4> QED BY <4>2 DEF y, lk, lv
    <3>8. Find(start, Ampersand, a + 2) + 1 = Lesser(p + Len(f[i]), n) + 2
      <4>1. Lesser(p + Len(f[i]), n) \in Nat
        BY <1>1, <3>3, <3>4, <3>7 DEF Lesser
      <4> QED BY <3>6, <3>7, <4>1
    <3>9. Rounds(start)[a + 2] = Round(start, a + 2, Parsed(Later(fields, i)))
      <4>1. a + 2 \in 1..(n + 2) /\ ~(a + 2 > Len(start))
        BY <1>1, <1>2, <3>3, <3>6
      <4>2. Rounds(start)[a + 2] = RoundFrom(start, Rounds(start), a + 2)
        BY <1>3, <4>1
      <4> QED BY <2>3, <3>8, <4>1, <4>2 DEF RoundFrom
    <3>10. Rounds(start)[a + 2] = Parsed(Before(k, Trim(v), Later(fields, i)))
      BY <3>6, <3>9, ParsedIsNotRefused
    <3>11. Before(k, Trim(v), Later(fields, i)) = Later(fields, i - 1)
      BY <2>1, <2>4, <3>5, OneLater
    <3>12. Lesser(a, n) = a
      BY <1>1, <3>3, <3>6 DEF Lesser
    <3>13. Right(i - 1)
      BY <3>5, <3>10, <3>11, <3>12
    <3> QED BY <2>1, <3>13
  <2>5. CASE k \notin DOMAIN fields
    <3>1. f[i] = f[i - 1]
      BY <2>1, <2>5, FieldsStep
    <3>2. Later(fields, i) = Later(fields, i - 1)
      BY <2>1, <2>5, NotLater
    <3>3. Right(i - 1)
      BY <2>3, <3>1, <3>2
    <3> QED BY <2>1, <3>3
  <2> QED BY <2>4, <2>5
<1> HIDE DEF P
<1>6. N - at \in P
  <2>1. N - at \in Nat
    BY <1>1
  <2> QED BY <1>4, <1>5, <2>1, Induction
<1>7. Right(at)
  <2>1. N - at \in Nat /\ N - at <= N /\ N - (N - at) = at
    BY <1>1
  <2>2. Right(N - (N - at))
    BY <1>6, <2>1 DEF P
  <2> HIDE DEF Right
  <2> QED BY <2>1, <2>2
<1> QED BY <1>7 DEF start

LEMMA NamedKeys ==
  /\ TypeKey # StatusKey /\ StatusKey # ErrorKey
  /\ \A k \in {TypeKey, StatusKey, ErrorKey} :
       Key(k) /\ k \in Text /\ Len(k) \in Nat /\ \E i \in 1..Len(Keys) : k = Keys[i]
<1>1. TypeKey # StatusKey /\ StatusKey # ErrorKey
  BY DEF TypeKey, StatusKey, ErrorKey
<1>2. ASSUME NEW k \in {TypeKey, StatusKey, ErrorKey}
      PROVE  Key(k) /\ k \in Text /\ Len(k) \in Nat /\ \E i \in 1..Len(Keys) : k = Keys[i]
  <2>1. PICK i \in DOMAIN Keys : k = Keys[i]
    BY LineReaderAssumption
  <2>2. i \in 1..Len(Keys) /\ Key(k)
    BY <2>1, KeysAre
  <2>3. k \in Text
    BY <2>2 DEF Key
  <2> QED BY <2>1, <2>2, <2>3, LenIsNat
<1> QED BY <1>1, <1>2

LEMMA AllLater ==
  ASSUME NEW fields, Parameters(fields)
  PROVE  Later(fields, 0) = [k \in DOMAIN fields |-> Trim(fields[k])]
<1>1. \A k \in DOMAIN fields : \E i \in 1..Len(Keys) : k = Keys[i]
  BY KeysAre DEF Parameters
<1>2. LaterKeys(fields, 0) = DOMAIN fields
  <2>1. LaterKeys(fields, 0) = {Keys[i] : i \in 1..Len(Keys)} \cap DOMAIN fields
    BY DEF LaterKeys
  <2>2. \A k \in DOMAIN fields : k \in {Keys[i] : i \in 1..Len(Keys)}
    BY <1>1
  <2> QED BY <2>1, <2>2
<1> QED BY <1>2 DEF Later

(* What is stripped of a message: the blanks it ends with.                  *)
LEMMA StripOfBuilt ==
  ASSUME NEW text \in CleanText, text # <<>>, text[1] = Question
  PROVE  \E n \in 1..Len(text) :
           /\ Strip(text) = SubSeq(text, 1, n)
           /\ \A i \in 1..Len(text) : i > n => text[i] = Blank
<1>1. text \in Text /\ Len(text) \in Nat /\ Len(text) # 0 /\ 1 \in 1..Len(text)
  <2>1. text \in Text
    BY CleanIs
  <2>2. Len(text) \in Nat /\ Len(text) # 0
    BY <2>1 DEF Text
  <2> QED BY <2>1, <2>2
<1>2. Strip(text) = Trim(text)
  BY <1>1, PrintableSame DEF CleanText, Strip
<1>3. text[1] # Blank
  BY SignsDiffer
<1>4. PICK a \in 1..Len(text), b \in 1..Len(text) :
        /\ a <= b /\ text[a] # Blank /\ text[b] # Blank
        /\ \A i \in 1..Len(text) : text[i] # Blank => a <= i /\ i <= b
  BY <1>1, <1>3, TrimCases
<1>5. a = 1
  <2>1. a <= 1
    BY <1>1, <1>3, <1>4
  <2> QED BY <2>1
<1>6. Trim(text) = SubSeq(text, 1, b)
  BY <1>1, <1>4, <1>5, TrimIs
<1>7. \A i \in 1..Len(text) : i > b => text[i] = Blank
  BY <1>1, <1>4
<1> QED BY <1>2, <1>6, <1>7

LEMMA ParametersParsed ==
  ASSUME NEW text \in Text, NEW n \in 1..Len(text), n <= MaxLine, text[1] = Question
  PROVE  ParseParameters(SubSeq(text, 1, n)) = Rounds(SubSeq(text, 1, n))[2]
<1> DEFINE start == SubSeq(text, 1, n)
<1>1. start \in Text /\ Len(start) = n /\ start # <<>> /\ Head(start) = Question
  <2>1. start \in Text /\ Len(start) = n /\ start[1] = text[1]
    BY DEF Text
  <2> HIDE DEF start
  <2>2. start # <<>>
    BY <2>1
  <2> QED BY <2>1, <2>2 DEF Text
<1>2. ~(Len(start) > MaxLine)
  BY <1>1, LenIsNat, CodecAssumption
<1> HIDE DEF start
<1>3. ParseParameters(start) = Rounds(start)[2]
  BY <1>1, <1>2 DEF ParseParameters
<1> QED BY <1>3 DEF start

-----------------------------------------------------------------------------
(* Requests.                                                                *)
LEMMA RequestIs ==
  ASSUME NEW q \in Request
  PROVE  /\ Parameters(q) /\ TypeKey \in DOMAIN q /\ Value(q[TypeKey])
         /\ q[TypeKey] \in CleanText /\ q[TypeKey] \in Text /\ Len(q[TypeKey]) \in Nat
<1>1. Parameters(q) /\ TypeKey \in DOMAIN q
  BY LineReaderAssumption
<1>2. Value(q[TypeKey])
  BY <1>1 DEF Parameters
<1>3. q[TypeKey] \in CleanText
  BY <1>2, ValueIsClean
<1>4. q[TypeKey] \in Text
  BY <1>3, CleanIs
<1> QED BY <1>1, <1>2, <1>3, <1>4, LenIsNat

Others(q) == [k \in DOMAIN q \ {TypeKey} |-> q[k]]
TypeText(q) == <<Question>> \o TypeKey \o <<Equals>> \o q[TypeKey]

LEMMA OthersAre == ASSUME NEW q \in Request PROVE Parameters(Others(q))
<1>1. Parameters(q)
  BY RequestIs
<1>2. DOMAIN Others(q) \subseteq DOMAIN q /\ \A k \in DOMAIN Others(q) : Others(q)[k] = q[k]
  BY DEF Others
<1> QED BY <1>1, <1>2 DEF Parameters

LEMMA TypeTextIs ==
  ASSUME NEW q \in Request
  PROVE  /\ Pieces(TypeText(q), <<>>, Question, TypeKey, Equals, q[TypeKey])
         /\ TypeText(q) \in CleanText
<1>1. /\ <<Question>> \in CleanText /\ <<Equals>> \in CleanText
      /\ Question \in Character /\ Equals \in Character
  BY SignsAre, CleanOne
<1>2. TypeKey \in Text /\ TypeKey \in CleanText
  BY NamedKeys, KeyIsClean
<1>3. <<>> \in Text /\ <<>> \o <<Question>> = <<Question>>
  <2>1. <<Question>> \in Seq(Character)
    BY <1>1 DEF CleanText, Text
  <2> QED BY <2>1, TextFacts, ConcatEmptySeq
<1>4. q[TypeKey] \in CleanText /\ q[TypeKey] \in Text
  BY RequestIs
<1>5. Pieces(<<>> \o <<Question>> \o TypeKey \o <<Equals>> \o q[TypeKey],
             <<>>, Question, TypeKey, Equals, q[TypeKey])
  BY <1>1, <1>2, <1>3, <1>4, Joined
<1>6. TypeText(q) \in CleanText
  <2>1. <<Question>> \o TypeKey \in CleanText
    BY <1>1, <1>2, CleanConcat
  <2>2. <<Question>> \o TypeKey \o <<Equals>> \in CleanText
    BY <1>1, <2>1, CleanConcat
  <2> QED BY <1>4, <2>2, CleanConcat DEF TypeText
<1> QED BY <1>3, <1>5, <1>6 DEF TypeText

LEMMA RequestText ==
  ASSUME NEW q \in Request, NEW f, FieldsBy(f, Others(q)), Fields(Others(q), Keys) = f[Len(Keys)]
  PROVE  LET text == BuildRequest(q, Keys)
             p == 2 + Len(TypeKey) + Len(q[TypeKey])
         IN /\ text \in CleanText /\ text \in Text /\ text # <<>> /\ text[1] = Question
            /\ Holding(text, p, f) /\ HasField(text, 0, TypeKey, q[TypeKey])
<1> DEFINE text == BuildRequest(q, Keys)
           s == TypeText(q)
           k == TypeKey
           v == q[TypeKey]
           p == 2 + Len(k) + Len(v)
           w == f[Len(Keys)]
<1>1. text = s \o w
  BY DEF BuildRequest, TypeText, Others
<1>2. s \in CleanText /\ s \in Text /\ Pieces(s, <<>>, Question, k, Equals, v)
  BY TypeTextIs, CleanIs
<1>3. w \in CleanText /\ w \in Text /\ f[0] = <<>> /\ Extends(w, f[0])
  <2>1. Len(Keys) \in 0..Len(Keys) /\ 0 \in 0..Len(Keys)
    BY KeysAre
  <2>2. w \in CleanText /\ f[0] = <<>>
    BY <2>1 DEF FieldsBy
  <2>3. Extends(w, f[0])
    BY <2>1, OthersAre, FieldsExtend
  <2> QED BY <2>2, <2>3, CleanIs
<1>4. Len(k) \in Nat /\ Len(v) \in Nat /\ Len(w) \in Nat /\ Len(s) \in Nat /\ Len(<<>>) = 0
  <2>1. Len(k) \in Nat
    BY NamedKeys
  <2>2. Len(v) \in Nat
    BY RequestIs
  <2>3. Len(w) \in Nat /\ Len(s) \in Nat
    BY <1>2, <1>3, LenIsNat
  <2> QED BY <2>1, <2>2, <2>3, TextFacts
<1>5. p \in Nat /\ p >= 2 /\ p = 2 + Len(k) + Len(v)
  <2> DEFINE lk == Len(k)
             lv == Len(v)
  <2>1. lk \in Nat /\ lv \in Nat
    BY <1>4
  <2> HIDE DEF lk, lv
  <2>2. 2 + lk + lv \in Nat /\ 2 + lk + lv >= 2
    BY <2>1
  <2> QED BY <2>2 DEF lk, lv
<1> HIDE DEF k, v, p, s, w, text
<1>6. /\ Len(s) = p /\ s[1] = Question
      /\ (\A i \in 1..Len(k) : s[1 + i] = k[i]) /\ s[2 + Len(k)] = Equals
      /\ (\A i \in 1..Len(v) : s[2 + Len(k) + i] = v[i])
  <2>1. /\ Len(s) = 0 + 2 + Len(k) + Len(v) /\ s[0 + 1] = Question
        /\ (\A i \in 1..Len(k) : s[0 + 1 + i] = k[i]) /\ s[0 + 2 + Len(k)] = Equals
        /\ (\A i \in 1..Len(v) : s[0 + 2 + Len(k) + i] = v[i])
    BY <1>2, <1>4 DEF Pieces
  <2> QED BY <1>4, <1>5, <2>1
<1>7. text \in CleanText /\ text \in Text
  BY <1>1, <1>2, <1>3, CleanConcat, CleanIs
<1>8. /\ Len(text) = p + Len(w)
      /\ \A i \in 1..(p + Len(w)) : text[i] = IF i <= p THEN s[i] ELSE w[i - p]
  BY <1>1, <1>2, <1>3, <1>6, ConcatProperties DEF Text
<1>9. ASSUME NEW i \in 1..p PROVE text[i] = s[i]
  BY <1>4, <1>5, <1>8
<1>10. ASSUME NEW i \in 1..Len(w) PROVE text[p + i] = w[i]
  <2>1. p + i \in 1..(p + Len(w)) /\ ~(p + i <= p) /\ (p + i) - p = i
    BY <1>4, <1>5
  <2> QED BY <1>8, <2>1
<1>11. text # <<>> /\ text[1] = Question
  <2>1. Len(text) # 0 /\ 1 \in 1..p
    BY <1>4, <1>5, <1>8
  <2> QED BY <1>6, <1>9, <2>1
<1>12. Holding(text, p, f)
  BY <1>5, <1>8, <1>10 DEF Holding, w
<1>13. HasField(text, 0, k, v)
  <2>1. 0 + 2 + Len(k) + Len(v) = p /\ p <= Len(text)
    BY <1>4, <1>5, <1>8
  <2>2. ASSUME NEW i \in 1..Len(k) PROVE text[0 + 1 + i] = k[i]
    <3>1. 1 + i \in 1..p /\ 0 + 1 + i = 1 + i
      BY <1>4, <1>5
    <3> QED BY <1>6, <1>9, <3>1
  <2>3. text[0 + 2 + Len(k)] = Equals
    <3>1. 2 + Len(k) \in 1..p /\ 0 + 2 + Len(k) = 2 + Len(k)
      BY <1>4, <1>5
    <3> QED BY <1>6, <1>9, <3>1
  <2>4. ASSUME NEW i \in 1..Len(v) PROVE text[0 + 2 + Len(k) + i] = v[i]
    <3>1. 2 + Len(k) + i \in 1..p /\ 0 + 2 + Len(k) + i = 2 + Len(k) + i
      BY <1>4, <1>5
    <3> QED BY <1>6, <1>9, <3>1
  <2>5. ASSUME p < Len(text) PROVE text[p + 1] = Ampersand
    <3>1. Len(f[0]) = 0 /\ 0 < Len(w) /\ 1 \in 1..Len(w)
      BY <1>3, <1>4, <1>5, <1>8, <2>5
    <3>2. w[0 + 1] = Ampersand
      BY <1>3, <3>1 DEF Extends
    <3> QED BY <1>10, <3>1, <3>2
  <2> QED BY <2>1, <2>2, <2>3, <2>4, <2>5 DEF HasField
<1> QED BY <1>7, <1>11, <1>12, <1>13 DEF k, v, p, text

LEMMA RequestRound ==
  ASSUME NEW q \in Request, Len(Strip(BuildRequest(q, Keys))) <= MaxLine
  PROVE  ParseRequest(Strip(BuildRequest(q, Keys)))
           = [kind |-> "parsed", fields |-> [k \in DOMAIN q |-> Trim(q[k])]]
<1> DEFINE text == BuildRequest(q, Keys)
           v == q[TypeKey]
           p == 2 + Len(TypeKey) + Len(v)
           others == Others(q)
<1>1. PICK f : FieldsBy(f, others) /\ Fields(others, Keys) = f[Len(Keys)]
  BY OthersAre, FieldsSteps
<1>2. /\ text \in CleanText /\ text \in Text /\ text # <<>> /\ text[1] = Question
      /\ Holding(text, p, f) /\ HasField(text, 0, TypeKey, v)
  BY <1>1, RequestText
<1>3. p \in Nat
  BY <1>2 DEF Holding
<1>4. Key(TypeKey) /\ Value(v) /\ TypeKey \in DOMAIN q /\ Parameters(others)
  BY NamedKeys, RequestIs, OthersAre
<1>5. 0 + 2 + Len(TypeKey) + Len(v) = p
  <2>1. Len(TypeKey) \in Nat /\ Len(v) \in Nat
    BY NamedKeys, RequestIs
  <2> DEFINE lk == Len(TypeKey)
             lv == Len(v)
  <2>2. lk \in Nat /\ lv \in Nat
    BY <2>1
  <2> HIDE DEF lk, lv
  <2>3. 0 + 2 + lk + lv = 2 + lk + lv
    BY <2>2
  <2> QED BY <2>3 DEF lk, lv
<1> HIDE DEF text, p, others, v
<1>6. PICK n \in 1..Len(text) :
        Strip(text) = SubSeq(text, 1, n) /\ \A i \in 1..Len(text) : i > n => text[i] = Blank
  BY <1>2, StripOfBuilt
<1> DEFINE start == SubSeq(text, 1, n)
<1>7. start \in Text /\ Len(start) = n /\ n \in Nat /\ Len(text) \in Nat
  BY <1>2 DEF Text
<1>8. n <= MaxLine
  BY <1>6, <1>7 DEF text
<1>9. ParseParameters(start) = Rounds(start)[2]
  BY <1>2, <1>8, ParametersParsed
<1>10. Rounds(start)[Lesser(p + Len(f[0]), n) + 2] = Parsed(Later(others, 0))
  <2>1. 0 \in 0..Len(Keys)
    BY KeysAre
  <2> QED BY <1>1, <1>2, <1>4, <1>6, <2>1, FieldsParsed
<1>11. p + Len(f[0]) = p
  <2>1. f[0] = <<>>
    BY <1>1 DEF FieldsBy
  <2>2. Len(f[0]) = 0
    BY <2>1, TextFacts
  <2> QED BY <1>3, <2>2
<1>12. /\ 0 + 2 <= n
       /\ Find(start, Ampersand, 0 + 2) = Lesser(0 + 2 + Len(TypeKey) + Len(v), n) + 1
       /\ \A rest : rest # Refused =>
            Round(start, 0 + 2, rest) = Parsed(Before(TypeKey, Trim(v), rest.fields))
  <2>1. 0 \in Nat
    OBVIOUS
  <2> QED BY <1>2, <1>4, <1>6, <2>1, FieldParsed
<1> HIDE DEF start
<1>13. Find(start, Ampersand, 2) + 1 = Lesser(p, n) + 2
  <2>1. Lesser(p, n) \in Nat
    BY <1>3, <1>7 DEF Lesser
  <2> QED BY <1>5, <1>12, <2>1
<1>14. Rounds(start)[2] = Round(start, 2, Parsed(Later(others, 0)))
  <2>1. 2 \in 1..(Len(start) + 2) /\ ~(2 > Len(start))
    BY <1>7, <1>12
  <2>2. Rounds(start)[2] = RoundFrom(start, Rounds(start), 2)
    BY <1>7, <2>1, RoundsIs
  <2> QED BY <1>10, <1>11, <1>13, <2>1, <2>2 DEF RoundFrom
<1>15. Rounds(start)[2] = Parsed(Before(TypeKey, Trim(v), Later(others, 0)))
  BY <1>12, <1>14, ParsedIsNotRefused
<1> DEFINE all == [k \in DOMAIN q |-> Trim(q[k])]
<1>16. Before(TypeKey, Trim(v), Later(others, 0)) = all
  <2> DEFINE D == DOMAIN q \ {TypeKey}
  <2>1. DOMAIN others = D /\ \A k \in D : others[k] = q[k]
    BY DEF Others, others
  <2>2. Later(others, 0) = [k \in DOMAIN others |-> Trim(others[k])]
    BY <1>4, AllLater
  <2>3. Later(others, 0) = [k \in D |-> Trim(q[k])]
    BY <2>1, <2>2
  <2>4. DOMAIN Later(others, 0) = D /\ \A k \in D : Later(others, 0)[k] = Trim(q[k])
    BY <2>3
  <2>5. Before(TypeKey, Trim(v), Later(others, 0))
          = [k \in {TypeKey} \cup D |-> IF k \in D THEN Later(others, 0)[k] ELSE Trim(v)]
    BY <2>4 DEF Before
  <2>6. {TypeKey} \cup D = DOMAIN q
    BY <1>4
  <2>7. [k \in {TypeKey} \cup D |-> IF k \in D THEN Later(others, 0)[k] ELSE Trim(v)] = all
    BY <2>4, <2>6 DEF v
  <2> QED BY <2>5, <2>7
<1> HIDE DEF all
<1>17. ParseParameters(start) = [kind |-> "parsed", fields |-> all]
  BY <1>9, <1>15, <1>16 DEF Parsed
<1>18. TypeKey \in DOMAIN all
  BY <1>4 DEF all
<1>19. ParseParameters(start).fields = all
  BY <1>17
<1>20. ParseRequest(start) = [kind |-> "parsed", fields |-> all]
  BY <1>17, <1>18, <1>19 DEF ParseRequest
<1> QED BY <1>6, <1>20 DEF start, text, all

-----------------------------------------------------------------------------
(* Responses.                                                               *)
LEMMA ResponseFieldsAre ==
  ASSUME NEW q \in Response
  PROVE  /\ Parameters(ResponseFields(q)) /\ StatusKey \in DOMAIN ResponseFields(q)
         /\ q.ok \in BOOLEAN
         /\ ResponseFields(q)[StatusKey] = IF q.ok THEN Succeeded ELSE Failed
<1> DEFINE error == IF ~q.ok /\ q.error # <<>> THEN {ErrorKey} ELSE {}
           rf == ResponseFields(q)
           D == DOMAIN q.parameters \cup {StatusKey} \cup error
<1>1. /\ q.ok \in BOOLEAN /\ Value(q.error) /\ Parameters(q.parameters)
      /\ Value(Succeeded) /\ Value(Failed)
  BY LineReaderAssumption
<1>2. rf = [k \in D |->
              IF k \in error THEN q.error
              ELSE IF k = StatusKey THEN (IF q.ok THEN Succeeded ELSE Failed)
              ELSE q.parameters[k]]
  BY DEF ResponseFields
<1>3. error \subseteq {ErrorKey} /\ StatusKey \notin error
  BY NamedKeys
<1> HIDE DEF rf
<1>4. DOMAIN rf = D
  BY <1>2
<1>5. ASSUME NEW k \in D PROVE Value(rf[k]) /\ \E i \in DOMAIN Keys : k = Keys[i]
  <2>1. CASE k \in error
    <3>1. rf[k] = q.error /\ k = ErrorKey
      BY <1>2, <1>3, <2>1
    <3> QED BY <1>1, <3>1, LineReaderAssumption
  <2>2. CASE k \notin error /\ k = StatusKey
    <3>1. rf[k] = IF q.ok THEN Succeeded ELSE Failed
      BY <1>2, <2>2
    <3> QED BY <1>1, <2>2, <3>1, LineReaderAssumption
  <2>3. CASE k \notin error /\ k # StatusKey
    <3>1. rf[k] = q.parameters[k] /\ k \in DOMAIN q.parameters
      BY <1>2, <2>3
    <3> QED BY <1>1, <3>1 DEF Parameters
  <2> QED BY <2>1, <2>2, <2>3
<1>6. Parameters(rf)
  BY <1>4, <1>5 DEF Parameters
<1>7. StatusKey \in D /\ rf[StatusKey] = IF q.ok THEN Succeeded ELSE Failed
  BY <1>2, <1>3
<1> QED BY <1>1, <1>4, <1>6, <1>7 DEF rf

LEMMA ResponseText ==
  ASSUME NEW q \in Response, NEW f, FieldsBy(f, ResponseFields(q)),
         Fields(ResponseFields(q), Keys) = f[Len(Keys)]
  PROVE  LET text == BuildResponse(q, Keys)
         IN /\ text \in CleanText /\ text \in Text /\ text # <<>> /\ text[1] = Question
            /\ Holding(text, 0, f)
<1> DEFINE fields == ResponseFields(q)
           text == BuildResponse(q, Keys)
           w == f[Len(Keys)]
<1>1. Parameters(fields) /\ StatusKey \in DOMAIN fields
  BY ResponseFieldsAre
<1>2. PICK i \in 1..Len(Keys) : StatusKey = Keys[i]
  BY NamedKeys
<1>3. f[i] \in Text /\ Len(f[i]) \in Nat /\ Len(f[i]) # 0
  <2> HIDE DEF fields
  <2>1. /\ f[i] \in Text /\ f[i - 1] \in Text /\ HasField(f[i], Len(f[i - 1]), StatusKey, fields[StatusKey])
        /\ Value(fields[StatusKey])
    BY <1>1, <1>2, FieldsStep DEF fields, Parameters
  <2> DEFINE x == Len(f[i - 1])
             lk == Len(StatusKey)
             lv == Len(fields[StatusKey])
             l == Len(f[i])
  <2>2. x \in Nat /\ lk \in Nat /\ lv \in Nat /\ l \in Nat
    BY <2>1, NamedKeys, LenIsNat DEF Value
  <2>3. x + 2 + lk + lv <= l
    BY <2>1 DEF HasField
  <2> HIDE DEF x, lk, lv, l
  <2>4. l # 0
    BY <2>2, <2>3
  <2> QED BY <2>1, <2>2, <2>4 DEF l
<1>4. w \in Text /\ w \in CleanText /\ Extends(w, f[i])
  <2>1. i \in 0..Len(Keys) /\ Len(Keys) \in 0..Len(Keys)
    BY KeysAre
  <2>2. w \in CleanText
    BY <2>1 DEF FieldsBy
  <2>3. w \in Text /\ Extends(w, f[i])
    BY <1>1, <2>1, FieldsExtend
  <2> QED BY <2>2, <2>3
<1>5. Len(w) \in Nat /\ Len(w) # 0 /\ w # <<>>
  <2>1. Len(w) \in Nat
    BY <1>4, LenIsNat
  <2>2. Len(w) # 0
    BY <1>3, <1>4, <2>1 DEF Extends
  <2>3. w # <<>>
    BY <2>2, TextFacts
  <2> QED BY <2>1, <2>2, <2>3
<1>6. text = <<Question>> \o Tail(w)
  BY DEF BuildResponse
<1> HIDE DEF w, text, fields
<1> DEFINE t == Tail(w)
<1>7. /\ t \in Text /\ Len(t) = Len(w) - 1 /\ \A j \in 1..Len(t) : t[j] = w[j + 1]
  BY <1>4, <1>5, HeadTailProperties DEF Text
<1>8. t \in CleanText
  <2>1. ASSUME NEW j \in 1..Len(t) PROVE t[j] \notin Unprintable
    <3>1. j + 1 \in 1..Len(w)
      BY <1>5, <1>7
    <3> QED BY <1>4, <1>7, <3>1, CleanIs
  <2> QED BY <1>7, <2>1, CleanIs
<1> HIDE DEF t
<1> DEFINE one == <<Question>>
<1>9. one \in CleanText /\ one \in Text /\ Len(one) = 1 /\ one[1] = Question
  BY SignsAre, CleanOne, CleanIs
<1> HIDE DEF one
<1>10. text = one \o t
  BY <1>6 DEF one, t
<1>11. text \in CleanText /\ text \in Text
  BY <1>8, <1>9, <1>10, CleanConcat, CleanIs
<1>12. /\ Len(text) = 1 + Len(t)
       /\ \A j \in 1..(1 + Len(t)) : text[j] = IF j <= 1 THEN one[j] ELSE t[j - 1]
  <2>1. one \in Seq(Character) /\ t \in Seq(Character)
    BY <1>7, <1>9 DEF Text
  <2>2. /\ Len(one \o t) = Len(one) + Len(t)
        /\ \A j \in 1..(Len(one) + Len(t)) :
             (one \o t)[j] = IF j <= Len(one) THEN one[j] ELSE t[j - Len(one)]
    BY <2>1, ConcatProperties
  <2>3. /\ Len(text) = Len(one) + Len(t)
        /\ \A j \in 1..(Len(one) + Len(t)) :
             text[j] = IF j <= Len(one) THEN one[j] ELSE t[j - Len(one)]
    BY <1>10, <2>2
  <2>4. Len(one) = 1
    BY <1>9
  <2> QED BY <2>3, <2>4
<1>13. Len(text) = Len(w)
  BY <1>5, <1>7, <1>12
<1>14. text # <<>> /\ text[1] = Question
  <2>1. 1 \in 1..(1 + Len(t)) /\ Len(text) # 0
    BY <1>5, <1>7, <1>13
  <2> QED BY <1>9, <1>12, <2>1
<1>15. ASSUME NEW j \in 1..Len(w), j >= 2 PROVE text[j] = w[j]
  <2>1. j \in 1..(1 + Len(t)) /\ ~(j <= 1) /\ j - 1 \in 1..Len(t) /\ (j - 1) + 1 = j
    BY <1>5, <1>7, <1>15
  <2> QED BY <1>7, <1>12, <2>1
<1>16. Holding(text, 0, f)
  <2>1. 0 + Len(w) = Len(w) /\ \A j \in 1..Len(w) : 0 + j = j
    BY <1>5
  <2> QED BY <1>13, <1>15, <2>1 DEF Holding, w
<1> QED BY <1>11, <1>14, <1>16 DEF text

LEMMA StatusesDiffer == Trim(Succeeded) = Succeeded /\ Trim(Failed) = Failed /\ Succeeded # Failed
<1>1. Succeeded \in Text /\ Failed \in Text
  BY LineReaderAssumption DEF Value
<1>2. /\ Succeeded # <<>> /\ Len(Succeeded) = 1 /\ Succeeded[1] # Blank
      /\ Failed # <<>> /\ Len(Failed) = 1 /\ Failed[1] # Blank
      /\ Succeeded # Failed
  BY DEF Succeeded, Failed, Blank
<1> QED BY <1>1, <1>2, TrimSame

LEMMA ResponseRound ==
  ASSUME NEW q \in Response, Len(Strip(BuildResponse(q, Keys))) <= MaxLine
  PROVE  ParseResponse(Strip(BuildResponse(q, Keys)))
           = [kind |-> IF q.ok THEN "ok" ELSE "failed",
              fields |-> [k \in DOMAIN ResponseFields(q) |-> Trim(ResponseFields(q)[k])]]
<1> DEFINE text == BuildResponse(q, Keys)
           rf == ResponseFields(q)
<1>1. PICK f : FieldsBy(f, rf) /\ Fields(rf, Keys) = f[Len(Keys)]
  BY ResponseFieldsAre, FieldsSteps
<1>2. /\ text \in CleanText /\ text \in Text /\ text # <<>> /\ text[1] = Question
      /\ Holding(text, 0, f)
  BY <1>1, ResponseText
<1>3. /\ Parameters(rf) /\ StatusKey \in DOMAIN rf /\ q.ok \in BOOLEAN
      /\ rf[StatusKey] = IF q.ok THEN Succeeded ELSE Failed
  BY ResponseFieldsAre
<1> HIDE DEF text, rf
<1>4. PICK n \in 1..Len(text) :
        Strip(text) = SubSeq(text, 1, n) /\ \A i \in 1..Len(text) : i > n => text[i] = Blank
  BY <1>2, StripOfBuilt
<1> DEFINE start == SubSeq(text, 1, n)
<1>5. start \in Text /\ Len(start) = n /\ n \in Nat /\ Len(text) \in Nat
  BY <1>2 DEF Text
<1>6. n <= MaxLine
  BY <1>4, <1>5 DEF text
<1>7. ParseParameters(start) = Rounds(start)[2]
  BY <1>2, <1>6, ParametersParsed
<1>8. Rounds(start)[Lesser(0 + Len(f[0]), n) + 2] = Parsed(Later(rf, 0))
  <2>1. 0 \in 0..Len(Keys)
    BY KeysAre
  <2> QED BY <1>1, <1>2, <1>3, <1>4, <2>1, FieldsParsed
<1> HIDE DEF start
<1>9. Lesser(0 + Len(f[0]), n) + 2 = 2
  <2>1. f[0] = <<>>
    BY <1>1 DEF FieldsBy
  <2>2. Len(f[0]) = 0
    BY <2>1, TextFacts
  <2>3. 0 + Len(f[0]) = 0
    BY <2>2
  <2>4. Lesser(0, n) = 0
    BY <1>5 DEF Lesser
  <2> QED BY <2>3, <2>4
<1> DEFINE all == [k \in DOMAIN rf |-> Trim(rf[k])]
<1>10. Later(rf, 0) = all
  BY <1>3, AllLater
<1>11. StatusKey \in DOMAIN all /\ all[StatusKey] = Trim(rf[StatusKey])
  BY <1>3
<1> HIDE DEF all
<1>12. ParseParameters(start).fields = all
  BY <1>7, <1>8, <1>9, <1>10, ParsedIsNotRefused
<1>13. all[StatusKey] = Succeeded <=> q.ok
  BY <1>3, <1>11, StatusesDiffer
<1>14. ParseResponse(start)
         = [kind |-> IF all[StatusKey] = Succeeded THEN "ok" ELSE "failed", fields |-> all]
  BY <1>11, <1>12 DEF ParseResponse
<1>15. ParseResponse(start) = [kind |-> IF q.ok THEN "ok" ELSE "failed", fields |-> all]
  BY <1>13, <1>14
<1> QED BY <1>4, <1>15 DEF start, text, all, rf

-----------------------------------------------------------------------------
LEMMA BuildIsText ==
  ASSUME NEW reader, NEW message \in Message(reader)
  PROVE  Build(reader, message) \in Text
<1>1. CASE reader = "server"
  <2>1. message \in Request /\ Build(reader, message) = BuildRequest(message, Keys)
    BY <1>1 DEF Message, Build
  <2>2. PICK f : FieldsBy(f, Others(message)) /\ Fields(Others(message), Keys) = f[Len(Keys)]
    BY <2>1, OthersAre, FieldsSteps
  <2> QED BY <2>1, <2>2, RequestText
<1>2. CASE reader # "server"
  <2>1. message \in Response /\ Build(reader, message) = BuildResponse(message, Keys)
    BY <1>2 DEF Message, Build
  <2>2. PICK f : /\ FieldsBy(f, ResponseFields(message))
                 /\ Fields(ResponseFields(message), Keys) = f[Len(Keys)]
    BY <2>1, ResponseFieldsAre, FieldsSteps
  <2> QED BY <2>1, <2>2, ResponseText
<1> QED BY <1>1, <1>2

(* A message that fits a line is parsed to the fields it was written with, *)
(* trimmed: no field is lost, mixed up with another, split or made up.     *)
THEOREM RoundTrip ==
  ASSUME NEW reader, NEW message \in Message(reader),
         Len(Strip(Build(reader, message))) <= MaxLine
  PROVE  Parse(reader, Strip(Build(reader, message))) = AsWritten(reader, message)
<1>1. CASE reader = "server"
  <2>1. message \in Request /\ Build(reader, message) = BuildRequest(message, Keys)
    BY <1>1 DEF Message, Build
  <2>2. Parse(reader, Strip(Build(reader, message))) = ParseRequest(Strip(BuildRequest(message, Keys)))
    BY <1>1, <2>1 DEF Parse
  <2>3. AsWritten(reader, message)
          = [kind |-> "parsed", fields |-> [k \in DOMAIN message |-> Trim(message[k])]]
    BY <1>1 DEF AsWritten
  <2> QED BY <2>1, <2>2, <2>3, RequestRound
<1>2. CASE reader # "server"
  <2>1. message \in Response /\ Build(reader, message) = BuildResponse(message, Keys)
    BY <1>2 DEF Message, Build
  <2>2. Parse(reader, Strip(Build(reader, message))) = ParseResponse(Strip(BuildResponse(message, Keys)))
    BY <1>2, <2>1 DEF Parse
  <2>3. AsWritten(reader, message)
          = [kind |-> IF message.ok THEN "ok" ELSE "failed",
             fields |-> [k \in DOMAIN ResponseFields(message) |-> Trim(ResponseFields(message)[k])]]
    BY <1>2 DEF AsWritten
  <2> QED BY <2>1, <2>2, <2>3, ResponseRound
<1> QED BY <1>1, <1>2

LEMMA TrimLen == ASSUME NEW text \in Text PROVE Len(Trim(text)) \in Nat /\ Len(Trim(text)) <= Len(text)
<1>1. Len(text) \in Nat
  BY LenIsNat
<1>2. CASE \A i \in 1..Len(text) : text[i] = Blank
  <2>1. Len(Trim(text)) = 0
    BY <1>2, TrimOfBlank, TextFacts
  <2> QED BY <1>1, <2>1
<1>3. ASSUME NEW a \in 1..Len(text), NEW b \in 1..Len(text),
             a <= b, text[a] # Blank, text[b] # Blank,
             \A i \in 1..Len(text) : text[i] # Blank => a <= i /\ i <= b
      PROVE  Len(Trim(text)) \in Nat /\ Len(Trim(text)) <= Len(text)
  <2>1. Trim(text) = SubSeq(text, a, b)
    BY <1>3, TrimIs
  <2>2. Len(SubSeq(text, a, b)) = b - a + 1
    BY <1>3 DEF Text
  <2> QED BY <1>1, <1>3, <2>1, <2>2
<1> QED BY <1>2, <1>3, TrimCases

(* What a line means is what its bytes are parsed to.                       *)
LEMMA MeaningOfLine ==
  ASSUME NEW reader, NEW line \in Text, ~Oversized(line)
  PROVE  Meaning(reader, line) =
           IF Trim(Printable(line)) = <<>> THEN <<>>
           ELSE <<Parse(reader, Strip(Printable(line)))>>
<1> DEFINE bytes == Printable(line)
           text == Strip(line)
           written == {q \in Message(reader) : text = Strip(Build(reader, q))}
           q == CHOOSE m \in written : TRUE
<1>1. bytes \in Text /\ text = Trim(bytes) /\ Len(bytes) <= MaxLine
  BY PrintableIsText, NotOversized DEF Strip
<1>2. Printable(bytes) = bytes
  <2>1. \A i \in DOMAIN bytes : bytes[i] \notin Unprintable
    BY PrintableOnly
  <2> HIDE DEF bytes
  <2> QED BY <1>1, <2>1, PrintableSame
<1>3. Strip(bytes) = text
  BY <1>1, <1>2 DEF Strip
<1>4. Len(text) <= MaxLine
  <2>1. Len(bytes) \in Nat /\ MaxLine \in Nat /\ Len(Trim(bytes)) \in Nat
        /\ Len(Trim(bytes)) <= Len(bytes)
    BY <1>1, LenIsNat, TrimLen, CodecAssumption
  <2> HIDE DEF bytes, text
  <2> QED BY <1>1, <2>1
<1>5. Meaning(reader, line) =
        IF text = <<>> THEN <<>>
        ELSE IF written # {} THEN <<AsWritten(reader, q)>> ELSE <<Parse(reader, text)>>
  <2>1. Meaning(reader, line) =
          IF Oversized(line) THEN <<TooLong>>
          ELSE IF text = <<>> THEN <<>>
          ELSE IF written # {} THEN <<AsWritten(reader, q)>> ELSE <<Parse(reader, text)>>
    BY Zenon DEF Meaning
  <2> HIDE DEF text, written, q
  <2> QED BY <2>1
<1> HIDE DEF bytes, text
<1>6. ASSUME written # {} PROVE AsWritten(reader, q) = Parse(reader, text)
  <2>1. q \in written
    <3> HIDE DEF written
    <3> QED BY <1>6
  <2>2. q \in Message(reader) /\ text = Strip(Build(reader, q))
    BY <2>1
  <2> HIDE DEF q
  <2> QED BY <1>4, <2>2, RoundTrip
<1> HIDE DEF written, q
<1> QED BY <1>1, <1>3, <1>5, <1>6 DEF bytes

-----------------------------------------------------------------------------
(* What a reader hears.                                                     *)

(* What a reader may hear.                                                  *)
Outcome(reader) ==
  {TooLong} \cup {Parse(reader, text) : text \in Text}
    \cup {AsWritten(reader, q) : q \in Message(reader)}

Hearing(reader) == Seq(Outcome(reader))

LEMMA StripIsText == ASSUME NEW text \in Text PROVE Strip(text) \in Text
BY PrintableIsText, TrimIsText DEF Strip

LEMMA OneHeard ==
  ASSUME NEW reader, NEW o \in Outcome(reader)
  PROVE  <<o>> \in Hearing(reader)
BY DEF Hearing

LEMMA NothingHeard == ASSUME NEW reader PROVE <<>> \in Hearing(reader)
BY EmptySeq DEF Hearing

LEMMA MeaningIsHearing ==
  ASSUME NEW reader, NEW line \in Text
  PROVE  Meaning(reader, line) \in Hearing(reader)
<1> DEFINE written == {q \in Message(reader) : Strip(line) = Strip(Build(reader, q))}
           q == CHOOSE p \in written : TRUE
<1>1. <<TooLong>> \in Hearing(reader)
  BY OneHeard DEF Outcome
<1>2. <<Parse(reader, Strip(line))>> \in Hearing(reader)
  BY StripIsText, OneHeard DEF Outcome
<1>3. ASSUME written # {} PROVE <<AsWritten(reader, q)>> \in Hearing(reader)
  <2>1. q \in written
    <3> HIDE DEF written
    <3> QED BY <1>3
  <2>2. q \in Message(reader)
    BY <2>1
  <2> HIDE DEF q
  <2>3. AsWritten(reader, q) \in Outcome(reader)
    BY <2>2 DEF Outcome
  <2> QED BY <2>3, OneHeard
<1>4. Meaning(reader, line) =
        IF Oversized(line) THEN <<TooLong>>
        ELSE IF Strip(line) = <<>> THEN <<>>
        ELSE IF written # {} THEN <<AsWritten(reader, q)>>
        ELSE <<Parse(reader, Strip(line))>>
  BY Zenon DEF Meaning
<1> HIDE DEF written, q
<1> QED BY <1>1, <1>2, <1>3, <1>4, NothingHeard

(* Said, a byte at a time.                                                  *)
SaidBy(f, reader, text) ==
  /\ f \in [0..Len(text) -> Hearing(reader)] /\ f[0] = <<>>
  /\ \A i \in 1..Len(text) : f[i] = After(reader, text, i, f[i - 1])

LEMMA SaidSteps ==
  ASSUME NEW reader, NEW text \in Text
  PROVE  \E f : SaidBy(f, reader, text) /\ Said(reader, text) = f[Len(text)]
<1> DEFINE N == Len(text)
           H == Hearing(reader)
           next == [p \in (1..N) \X H |-> After(reader, text, p[1], p[2])]
           Is(f) == f = [i \in 0..N |->
                           IF i = 0 THEN <<>> ELSE After(reader, text, i, f[i - 1])]
<1>1. N \in Nat
  BY LenIsNat
<1>2. ASSUME NEW i \in 1..N, NEW x \in H PROVE After(reader, text, i, x) \in H
  <2>1. i \in 1..(Len(text) + 1)
    BY <1>1
  <2>2. Meaning(reader, LineUpTo(text, i)) \in Seq(Outcome(reader))
    BY <2>1, LineUpToIsText, MeaningIsHearing DEF Hearing
  <2>3. x \in Seq(Outcome(reader))
    BY DEF Hearing
  <2>4. x \o Meaning(reader, LineUpTo(text, i)) \in Seq(Outcome(reader))
    BY <2>2, <2>3, ConcatProperties
  <2> QED BY <2>4 DEF After, Hearing
<1> HIDE DEF N, H
<1>3. next \in [(1..N) \X H -> H]
  <2>1. ASSUME NEW p \in (1..N) \X H PROVE After(reader, text, p[1], p[2]) \in H
    BY <1>2
  <2> QED BY <2>1
<1>0. <<>> \in H
  BY NothingHeard DEF H
<1>4. PICK f \in [0..N -> H] : f[0] = <<>> /\ \A n \in 1..N : f[n] = next[<<n, f[n - 1]>>]
  <2> HIDE DEF next
  <2>1. Steps(H, <<>>, N, next)
    BY <1>0, <1>1, <1>3, Iteration
  <2> QED BY <2>1 DEF Steps
<1>5. ASSUME NEW n \in 1..N PROVE f[n] = After(reader, text, n, f[n - 1])
  <2>1. <<n, f[n - 1]>> \in (1..N) \X H
    BY <1>1, <1>4
  <2> QED BY <1>4, <2>1
<1> HIDE DEF next
<1>6. Is(f)
  BY <1>1, <1>4, <1>5
<1> DEFINE g == CHOOSE h : Is(h)
<1>7. Is(g)
  <2> HIDE DEF Is
  <2> QED BY <1>6
<1>8. Said(reader, text) = g[N]
  BY Zenon DEF Said, N, g
<1> HIDE DEF g
<1>9. g[0] = <<>> /\ \A n \in 1..N : g[n] = After(reader, text, n, g[n - 1])
  BY <1>1, <1>7
<1> HIDE DEF Is
<1> DEFINE P == {n \in Nat : n <= N => g[n] = f[n]}
<1>10. 0 \in P
  BY <1>4, <1>9
<1>11. ASSUME NEW n \in Nat, n \in P PROVE n + 1 \in P
  BY <1>1, <1>5, <1>9, <1>11
<1> HIDE DEF P
<1>12. N \in P
  BY <1>1, <1>10, <1>11, Induction
<1>13. g[N] = f[N]
  BY <1>1, <1>12 DEF P
<1> QED BY <1>4, <1>5, <1>8, <1>13 DEF SaidBy, N, H

LEMMA SaidNothing == ASSUME NEW reader PROVE Said(reader, <<>>) = <<>>
<1>1. <<>> \in Text /\ Len(<<>>) = 0
  BY TextFacts
<1> QED BY <1>1, SaidSteps DEF SaidBy

LEMMA SaidIsHearing ==
  ASSUME NEW reader, NEW text \in Text PROVE Said(reader, text) \in Hearing(reader)
<1>1. PICK f : SaidBy(f, reader, text) /\ Said(reader, text) = f[Len(text)]
  BY SaidSteps
<1>2. Len(text) \in 0..Len(text)
  BY LenIsNat
<1> QED BY <1>1, <1>2 DEF SaidBy

LEMMA SaidAppend ==
  ASSUME NEW reader, NEW text \in Text, NEW c \in Character
  PROVE  Said(reader, Append(text, c)) =
           IF c \in Terminator THEN Said(reader, text) \o Meaning(reader, Rest(text))
           ELSE Said(reader, text)
<1> DEFINE longer == Append(text, c)
           n == Len(text)
<1>1. /\ longer \in Text /\ n \in Nat /\ Len(longer) = n + 1
      /\ (\A i \in 1..n : longer[i] = text[i]) /\ longer[n + 1] = c
  BY DEF Text
<1>2. \A i \in 1..(n + 1) : LineUpTo(longer, i) = LineUpTo(text, i)
  BY LineUpToAppend
<1>3. PICK f : SaidBy(f, reader, text) /\ Said(reader, text) = f[n]
  BY SaidSteps
<1> HIDE DEF longer
<1>4. PICK g : SaidBy(g, reader, longer) /\ Said(reader, longer) = g[Len(longer)]
  BY <1>1, SaidSteps
<1>5. f[0] = <<>> /\ \A i \in 1..n : f[i] = After(reader, text, i, f[i - 1])
  BY <1>3 DEF SaidBy
<1>6. g[0] = <<>> /\ \A i \in 1..(n + 1) : g[i] = After(reader, longer, i, g[i - 1])
  BY <1>1, <1>4 DEF SaidBy
<1>7. \A i \in 1..n : \A x : After(reader, longer, i, x) = After(reader, text, i, x)
  <2> SUFFICES ASSUME NEW i \in 1..n, NEW x
               PROVE  After(reader, longer, i, x) = After(reader, text, i, x)
    OBVIOUS
  <2>1. longer[i] = text[i] /\ LineUpTo(longer, i) = LineUpTo(text, i)
    BY <1>1, <1>2
  <2> QED BY <2>1 DEF After
<1> HIDE DEF n
<1> DEFINE P == {i \in Nat : i <= n => g[i] = f[i]}
<1>8. 0 \in P
  BY <1>5, <1>6
<1>9. ASSUME NEW i \in Nat, i \in P PROVE i + 1 \in P
  <2> SUFFICES ASSUME i + 1 <= n PROVE g[i + 1] = f[i + 1]
    OBVIOUS
  <2>1. i + 1 \in 1..n /\ i + 1 \in 1..(n + 1) /\ (i + 1) - 1 = i /\ g[i] = f[i]
    BY <1>1, <1>9
  <2>2. g[i + 1] = After(reader, longer, i + 1, g[i])
    BY <1>6, <2>1
  <2>3. f[i + 1] = After(reader, text, i + 1, f[i])
    BY <1>5, <2>1
  <2> QED BY <1>7, <2>1, <2>2, <2>3
<1> HIDE DEF P
<1>10. n \in P
  BY <1>1, <1>8, <1>9, Induction
<1>11. g[n] = f[n]
  BY <1>1, <1>10 DEF P
<1>12. g[n + 1] = After(reader, longer, n + 1, g[n])
  <2>1. n + 1 \in 1..(n + 1) /\ (n + 1) - 1 = n
    BY <1>1
  <2> QED BY <1>6, <2>1
<1>13. n + 1 \in 1..(n + 1)
  BY <1>1
<1>14. LineUpTo(longer, n + 1) = Rest(text)
  BY <1>2, <1>13 DEF Rest, n
<1>15. g[n + 1] = IF c \in Terminator THEN f[n] \o Meaning(reader, Rest(text)) ELSE f[n]
  BY <1>1, <1>11, <1>12, <1>14 DEF After
<1> QED BY <1>1, <1>3, <1>4, <1>15 DEF longer

-----------------------------------------------------------------------------
(* The reader: what it has taken of a line, and what it owes for it.        *)

(* What the buffer holds of an unfinished line.                             *)
Holds(line, bytes, over) ==
  over = Oversized(line) /\ bytes = IF over THEN <<>> ELSE Printable(line)

Reads == [buffer : Text, overflowed : BOOLEAN, detected : BOOLEAN,
          result : Hearing(side), read : Nat]

(* Inside the loop: nothing to report yet; a desktop transport owes or has  *)
(* reported the overlong line it is in.                                     *)
Owed(over) == IF over THEN <<TooLong>> ELSE <<>>

Ongoing(r, text, old) ==
  /\ r.result = <<>> /\ Holds(Rest(text), r.buffer, r.overflowed)
  /\ (r.detected => r.overflowed)
  /\ old = Said(side, text) \o Owed(eager /\ r.overflowed /\ ~r.detected)

Done(r, text, old) ==
  /\ r.result # <<>> /\ Rest(text) = <<>> /\ r.buffer = <<>> /\ r.overflowed = FALSE
  /\ old \o r.result = Said(side, text)

LEMMA NothingOwed ==
  ASSUME NEW reader, NEW h \in Hearing(reader) PROVE h \o Owed(FALSE) = h
BY ConcatEmptySeq DEF Hearing, Owed

LEMMA NothingHolds == Holds(<<>>, <<>>, FALSE)
BY PrintableNothing DEF Holds, Oversized

LEMMA LineEndsRight ==
  ASSUME eager \in BOOLEAN, NEW r \in Reads, NEW c \in Terminator, c \in Character,
         NEW text \in Text, NEW old, Ongoing(r, text, old)
  PROVE  /\ LineEnds(r) \in Reads /\ LineEnds(r).read = r.read
         /\ Ongoing(LineEnds(r), Append(text, c), old) \/ Done(LineEnds(r), Append(text, c), old)
<1> DEFINE longer == Append(text, c)
           s == LineEnds(r)
           line == Rest(text)
           M == Meaning(side, line)
<1>1. longer \in Text /\ Rest(longer) = <<>> /\ Said(side, longer) = Said(side, text) \o M
  BY RestAppend, SaidAppend, TextFacts DEF Text
<1>2. /\ Said(side, text) \in Hearing(side) /\ Said(side, longer) \in Hearing(side)
      /\ line \in Text /\ M \in Hearing(side)
  BY <1>1, SaidIsHearing, RestIsText, MeaningIsHearing
<1>3. /\ r.buffer \in Text /\ r.overflowed \in BOOLEAN /\ r.detected \in BOOLEAN
      /\ r.result = <<>> /\ r.read \in Nat /\ Holds(line, r.buffer, r.overflowed)
      /\ (r.detected => r.overflowed)
      /\ old = Said(side, text) \o Owed(eager /\ r.overflowed /\ ~r.detected)
  BY DEF Reads, Ongoing
<1>4. <<>> \in Text /\ <<>> \in Hearing(side) /\ <<TooLong>> \in Hearing(side)
  BY TextFacts, NothingHeard, OneHeard DEF Outcome
<1> HIDE DEF longer
<1>5. CASE r.overflowed
  <2>1. M = <<TooLong>> /\ r.buffer = <<>>
    BY <1>3, <1>5 DEF Meaning, Holds
  <2>2. CASE ~eager \/ r.detected
    <3>1. s = [r EXCEPT !.overflowed = FALSE, !.result = <<TooLong>>]
      BY <1>5, <2>2 DEF LineEnds
    <3>2. /\ s \in Reads /\ s.read = r.read /\ s.buffer = r.buffer /\ s.overflowed = FALSE
          /\ s.result = <<TooLong>>
      BY <1>4, <3>1 DEF Reads
    <3>3. (eager /\ r.overflowed /\ ~r.detected) = FALSE
      BY <1>3, <2>2
    <3>4. old = Said(side, text)
      BY <1>2, <1>3, <3>3, NothingOwed
    <3>5. s.result # <<>>
      BY <3>2
    <3> HIDE DEF s
    <3>6. Done(s, longer, old)
      BY <1>1, <2>1, <3>2, <3>4, <3>5 DEF Done
    <3> QED BY <3>2, <3>6 DEF s, longer
  <2>3. CASE ~(~eager \/ r.detected)
    <3>1. s = [r EXCEPT !.overflowed = FALSE, !.result = <<>>]
      BY <1>5, <2>3 DEF LineEnds
    <3>2. /\ s \in Reads /\ s.read = r.read /\ s.buffer = r.buffer /\ s.overflowed = FALSE
          /\ s.result = <<>> /\ s.detected = r.detected
      BY <1>4, <3>1 DEF Reads
    <3>3. (eager /\ r.overflowed /\ ~r.detected) = TRUE /\ r.detected = FALSE
      BY <1>3, <1>5, <2>3
    <3>4. old = Said(side, text) \o <<TooLong>>
      BY <1>3, <3>3 DEF Owed
    <3>5. old = Said(side, longer) \o Owed(FALSE)
      BY <1>1, <1>2, <2>1, <3>4, NothingOwed
    <3> HIDE DEF s
    <3>6. (eager /\ s.overflowed /\ ~s.detected) = FALSE
      BY <3>2
    <3>7. Ongoing(s, longer, old)
      BY <1>1, <2>1, <3>2, <3>3, <3>5, <3>6, NothingHolds DEF Ongoing
    <3> QED BY <3>2, <3>7 DEF s, longer
  <2> QED BY <2>2, <2>3
<1>6. CASE ~r.overflowed
  <2>1. r.buffer = Printable(line) /\ ~Oversized(line) /\ r.detected = FALSE
    BY <1>3, <1>6 DEF Holds
  <2>2. (eager /\ r.overflowed /\ ~r.detected) = FALSE
    BY <1>3, <1>6
  <2>3. old = Said(side, text)
    BY <1>2, <1>3, <2>2, NothingOwed
  <2>4. M = IF Trim(r.buffer) = <<>> THEN <<>> ELSE <<Parse(side, Strip(r.buffer))>>
    <3> HIDE DEF line
    <3>1. M = IF Trim(Printable(line)) = <<>> THEN <<>>
              ELSE <<Parse(side, Strip(Printable(line)))>>
      BY <1>2, <2>1, MeaningOfLine
    <3> QED BY <2>1, <3>1
  <2>5. s = [r EXCEPT !.buffer = <<>>, !.result = M]
    <3> HIDE DEF M
    <3> QED BY <1>6, <2>4 DEF LineEnds
  <2> HIDE DEF M
  <2>6. /\ s \in Reads /\ s.read = r.read /\ s.buffer = <<>> /\ s.overflowed = r.overflowed
        /\ s.result = M /\ s.detected = r.detected
    BY <1>2, <1>4, <2>5 DEF Reads
  <2>7. s.overflowed = FALSE
    BY <1>3, <1>6, <2>6
  <2> HIDE DEF s
  <2>8. CASE M = <<>>
    <3>1. Said(side, longer) = Said(side, text)
      BY <1>1, <1>2, <2>8, ConcatEmptySeq DEF Hearing
    <3>2. old = Said(side, longer) \o Owed(FALSE)
      BY <1>2, <2>3, <3>1, NothingOwed
    <3>3. (eager /\ s.overflowed /\ ~s.detected) = FALSE
      BY <2>7
    <3>4. Ongoing(s, longer, old)
      BY <1>1, <2>1, <2>6, <2>7, <2>8, <3>2, <3>3, NothingHolds DEF Ongoing
    <3> QED BY <2>6, <3>4 DEF s, longer
  <2>9. CASE M # <<>>
    <3>1. Done(s, longer, old)
      BY <1>1, <2>3, <2>6, <2>7, <2>9 DEF Done
    <3> QED BY <2>6, <3>1 DEF s, longer
  <2> QED BY <2>8, <2>9
<1> QED BY <1>3, <1>5, <1>6

LEMMA TakeByteRight ==
  ASSUME eager \in BOOLEAN, NEW r \in Reads, NEW c \in Character,
         NEW text \in Text, NEW old, Ongoing(r, text, old)
  PROVE  /\ TakeByte(r, c) \in Reads /\ TakeByte(r, c).read = r.read
         /\ Ongoing(TakeByte(r, c), Append(text, c), old) \/ Done(TakeByte(r, c), Append(text, c), old)
<1> DEFINE longer == Append(text, c)
           s == TakeByte(r, c)
           line == Rest(text)
<1>1. CASE c \in Terminator
  <2>1. s = LineEnds(r)
    BY <1>1 DEF TakeByte
  <2> QED BY <1>1, <2>1, LineEndsRight
<1>2. CASE c \notin Terminator
  <2>1. longer \in Text /\ Rest(longer) = Append(line, c) /\ Said(side, longer) = Said(side, text)
    BY <1>2, RestAppend, SaidAppend DEF Text
  <2>2. line \in Text /\ Said(side, text) \in Hearing(side)
    BY RestIsText, SaidIsHearing
  <2>3. /\ r.buffer \in Text /\ r.overflowed \in BOOLEAN /\ r.detected \in BOOLEAN
        /\ r.result = <<>> /\ r.read \in Nat /\ Holds(line, r.buffer, r.overflowed)
        /\ (r.detected => r.overflowed)
        /\ old = Said(side, text) \o Owed(eager /\ r.overflowed /\ ~r.detected)
    BY DEF Reads, Ongoing
  <2> HIDE DEF longer, line
  <2>4. CASE r.overflowed
    <3>1. s = r
      BY <1>2, <2>4 DEF TakeByte
    <3>2. Oversized(line) /\ r.buffer = <<>>
      BY <2>3, <2>4 DEF Holds
    <3>3. Oversized(Rest(longer))
      BY <2>1, <2>2, <3>2, OversizedGrows
    <3>4. Holds(Rest(longer), r.buffer, r.overflowed)
      BY <2>3, <2>4, <3>2, <3>3 DEF Holds
    <3>5. Ongoing(r, longer, old)
      BY <2>1, <2>3, <3>4 DEF Ongoing
    <3> QED BY <3>1, <3>5 DEF longer
  <2>5. CASE ~r.overflowed
    <3>1. ~Oversized(line) /\ r.buffer = Printable(line) /\ r.detected = FALSE
      BY <2>3, <2>5 DEF Holds
    <3>2. Oversized(Rest(longer)) <=> Len(r.buffer) >= MaxLine
      BY <2>1, <2>2, <3>1, OversizedAppend
    <3>3. (eager /\ r.overflowed /\ ~r.detected) = FALSE
      BY <2>3, <2>5
    <3>4. old = Said(side, longer) \o Owed(FALSE)
      BY <2>1, <2>3, <3>3
    <3>5. <<>> \in Text
      BY TextFacts
    <3>6. CASE Len(r.buffer) >= MaxLine
      <4>1. s = [r EXCEPT !.buffer = <<>>, !.overflowed = TRUE, !.detected = TRUE]
        BY <1>2, <2>5, <3>6 DEF TakeByte
      <4>2. /\ s \in Reads /\ s.read = r.read /\ s.buffer = <<>> /\ s.overflowed = TRUE
            /\ s.detected = TRUE /\ s.result = <<>>
        BY <2>3, <3>5, <4>1 DEF Reads
      <4> HIDE DEF s
      <4>3. Holds(Rest(longer), s.buffer, s.overflowed)
        BY <3>2, <3>6, <4>2 DEF Holds
      <4>4. (eager /\ s.overflowed /\ ~s.detected) = FALSE
        BY <4>2
      <4>5. Ongoing(s, longer, old)
        BY <3>4, <4>2, <4>3, <4>4 DEF Ongoing
      <4> QED BY <4>2, <4>5 DEF s, longer
    <3>7. CASE ~(Len(r.buffer) >= MaxLine)
      <4>1. s = [r EXCEPT !.buffer = Keep(r.buffer, c)]
        BY <1>2, <2>5, <3>7 DEF TakeByte
      <4>2. Keep(r.buffer, c) \in Text
        BY <2>3, KeepLen
      <4>3. /\ s \in Reads /\ s.read = r.read /\ s.buffer = Keep(r.buffer, c)
            /\ s.overflowed = r.overflowed /\ s.detected = r.detected /\ s.result = <<>>
        BY <2>3, <4>1, <4>2 DEF Reads
      <4>4. Printable(Rest(longer)) = Keep(r.buffer, c)
        BY <2>1, <2>2, <3>1, PrintableAppend
      <4> HIDE DEF s
      <4>5. s.overflowed = FALSE /\ s.detected = FALSE
        BY <2>3, <2>5, <3>1, <4>3
      <4>6. Holds(Rest(longer), s.buffer, s.overflowed)
        <5>1. ~Oversized(Rest(longer))
          BY <3>2, <3>7
        <5>2. s.overflowed = Oversized(Rest(longer))
          BY <4>5, <5>1 DEF Oversized
        <5>3. s.buffer = IF s.overflowed THEN <<>> ELSE Printable(Rest(longer))
          BY <4>3, <4>4, <4>5
        <5> QED BY <5>2, <5>3 DEF Holds
      <4>7. (eager /\ s.overflowed /\ ~s.detected) = FALSE
        BY <4>5
      <4>8. Ongoing(s, longer, old)
        BY <3>4, <4>3, <4>5, <4>6, <4>7 DEF Ongoing
      <4> QED BY <4>3, <4>8 DEF s, longer
    <3> QED BY <3>6, <3>7
  <2> QED BY <2>3, <2>4, <2>5
<1> QED BY <1>1, <1>2

LEMMA LineEndsTyped == ASSUME NEW r \in Reads PROVE LineEnds(r) \in Reads
<1>1. /\ r.buffer \in Text /\ r.overflowed \in BOOLEAN /\ r.detected \in BOOLEAN
      /\ <<>> \in Text /\ <<>> \in Hearing(side) /\ <<TooLong>> \in Hearing(side)
  BY TextFacts, NothingHeard, OneHeard DEF Outcome, Reads
<1>2. <<Parse(side, Strip(r.buffer))>> \in Hearing(side)
  BY <1>1, StripIsText, OneHeard DEF Outcome
<1>3. CASE r.overflowed
  <2> DEFINE o == IF ~eager \/ r.detected THEN <<TooLong>> ELSE <<>>
  <2>1. LineEnds(r) = [r EXCEPT !.overflowed = FALSE, !.result = o]
    BY <1>3 DEF LineEnds
  <2>2. o \in Hearing(side)
    BY <1>1
  <2> HIDE DEF o
  <2> QED BY <2>1, <2>2 DEF Reads
<1>4. CASE ~r.overflowed
  <2> DEFINE o == IF Trim(r.buffer) = <<>> THEN <<>> ELSE <<Parse(side, Strip(r.buffer))>>
  <2>1. LineEnds(r) = [r EXCEPT !.buffer = <<>>, !.result = o]
    BY <1>4 DEF LineEnds
  <2>2. o \in Hearing(side)
    BY <1>1, <1>2
  <2> HIDE DEF o
  <2> QED BY <1>1, <2>1, <2>2 DEF Reads
<1> QED BY <1>1, <1>3, <1>4

LEMMA StepTyped ==
  ASSUME NEW r \in Reads, NEW c \in Character PROVE Step(r, c) \in Reads
<1>1. TakeByte(r, c) \in Reads
  <2>1. CASE c \in Terminator
    BY <2>1, LineEndsTyped DEF TakeByte
  <2>2. CASE c \notin Terminator
    <3>1. Keep(r.buffer, c) \in Text /\ <<>> \in Text
      BY KeepLen, TextFacts DEF Reads
    <3>2. /\ [r EXCEPT !.buffer = <<>>, !.overflowed = TRUE, !.detected = TRUE] \in Reads
          /\ [r EXCEPT !.buffer = Keep(r.buffer, c)] \in Reads
      BY <3>1 DEF Reads
    <3> QED BY <2>2, <3>2 DEF TakeByte
  <2> QED BY <2>1, <2>2
<1> DEFINE s == TakeByte(r, c)
<1>2. Step(r, c) = IF r.result # <<>> THEN r ELSE [s EXCEPT !.read = s.read + 1]
  BY DEF Step
<1> HIDE DEF s
<1>3. s \in Reads
  BY <1>1 DEF s
<1>4. [s EXCEPT !.read = s.read + 1] \in Reads
  BY <1>3 DEF Reads
<1> QED BY <1>2, <1>4

(* readLineImpl, a byte at a time.                                          *)
ReadBy(f, available) ==
  /\ f \in [0..Len(available) -> Reads] /\ f[0] = Reading
  /\ \A i \in 1..Len(available) : f[i] = Step(f[i - 1], available[i])

Ending(r) ==
  IF r.result = <<>> /\ eager /\ r.detected THEN [r EXCEPT !.result = <<TooLong>>] ELSE r

LEMMA ReadSteps ==
  ASSUME NEW available \in Text, buffer \in Text, overflowed \in BOOLEAN
  PROVE  \E f : ReadBy(f, available) /\ ReadLine(available) = Ending(f[Len(available)])
<1> DEFINE N == Len(available)
           next == [p \in (1..N) \X Reads |-> Step(p[2], available[p[1]])]
           Is(f) == f = [n \in 0..N |-> IF n = 0 THEN Reading ELSE Step(f[n - 1], available[n])]
<1>1. N \in Nat /\ (\A i \in 1..N : available[i] \in Character)
  BY DEF Text
<1>0. Reading \in Reads
  <2>1. <<>> \in Hearing(side)
    BY NothingHeard
  <2> QED BY <2>1 DEF Reading, Reads
<1>2. \A i \in 1..N, x \in Reads : Step(x, available[i]) \in Reads
  BY <1>1, StepTyped
<1> HIDE DEF N
<1>3. next \in [(1..N) \X Reads -> Reads]
  <2>1. ASSUME NEW p \in (1..N) \X Reads PROVE Step(p[2], available[p[1]]) \in Reads
    BY <1>2
  <2> QED BY <2>1
<1>4. PICK f \in [0..N -> Reads] :
        f[0] = Reading /\ \A n \in 1..N : f[n] = next[<<n, f[n - 1]>>]
  <2> HIDE DEF next
  <2>1. Steps(Reads, Reading, N, next)
    BY <1>0, <1>1, <1>3, Iteration
  <2> QED BY <2>1 DEF Steps
<1>5. ASSUME NEW n \in 1..N PROVE f[n] = Step(f[n - 1], available[n])
  <2>1. <<n, f[n - 1]>> \in (1..N) \X Reads
    BY <1>1, <1>4
  <2> QED BY <1>4, <2>1
<1> HIDE DEF next
<1>6. Is(f)
  BY <1>1, <1>4, <1>5
<1> DEFINE g == CHOOSE h : Is(h)
<1>7. Is(g)
  <2> HIDE DEF Is
  <2> QED BY <1>6
<1>8. ReadLine(available) = Ending(g[N])
  BY Zenon DEF ReadLine, Ending, N, g
<1> HIDE DEF g
<1>9. g[0] = Reading /\ \A n \in 1..N : g[n] = Step(g[n - 1], available[n])
  BY <1>1, <1>7
<1> HIDE DEF Is
<1> DEFINE P == {n \in Nat : n <= N => g[n] = f[n]}
<1>10. 0 \in P
  BY <1>4, <1>9
<1>11. ASSUME NEW n \in Nat, n \in P PROVE n + 1 \in P
  BY <1>1, <1>5, <1>9, <1>11
<1> HIDE DEF P
<1>12. N \in P
  BY <1>1, <1>10, <1>11, Induction
<1>13. g[N] = f[N]
  BY <1>1, <1>12 DEF P
<1> QED BY <1>4, <1>5, <1>8, <1>13 DEF ReadBy, N

(* What has been read once n more bytes of those available are.             *)
Upto(read, available, n) == read \o SubSeq(available, 1, n)

LEMMA UptoNext ==
  ASSUME NEW read \in Text, NEW available \in Text, NEW n \in 1..Len(available)
  PROVE  Upto(read, available, n) = Append(Upto(read, available, n - 1), available[n])
<1>1. read \in Seq(Character) /\ available \in Seq(Character) /\ 1 \in 1..Len(available)
  BY DEF Text
<1>2. SubSeq(available, 1, n) = SubSeq(available, 1, n - 1) \o <<available[n]>>
  BY <1>1, SubSeqRecursiveSecond
<1>3. SubSeq(available, 1, n - 1) \in Seq(Character) /\ <<available[n]>> \in Seq(Character)
  BY <1>1
<1>4. available[n] \in Character
  BY <1>1
<1> DEFINE start == SubSeq(available, 1, n - 1)
<1>5. read \o (start \o <<available[n]>>) = (read \o start) \o <<available[n]>>
  BY <1>1, <1>3, ConcatAssociative
<1>6. read \o start \in Seq(Character)
  BY <1>1, <1>3, ConcatProperties
<1> HIDE DEF start
<1>7. Append(read \o start, available[n]) = (read \o start) \o <<available[n]>>
  BY <1>4, <1>6, AppendIsConcat
<1> QED BY <1>2, <1>5, <1>7 DEF Upto, start

LEMMA UptoIsText ==
  ASSUME NEW read \in Text, NEW available \in Text, NEW n \in 0..Len(available)
  PROVE  Upto(read, available, n) \in Text /\ Upto(read, available, 0) = read
<1>1. read \in Seq(Character) /\ SubSeq(available, 1, n) \in Seq(Character)
  BY DEF Text
<1>2. SubSeq(available, 1, 0) = <<>>
  BY SubSeqEmpty
<1> QED BY <1>1, <1>2, ConcatProperties, ConcatEmptySeq DEF Upto, Text

(* One read.                                                                *)
Progress(r, read, available, old) ==
  \/ Ongoing(r, Upto(read, available, r.read), old)
  \/ Done(r, Upto(read, available, r.read), old)

LEMMA ReadLineRight ==
  ASSUME eager \in BOOLEAN, buffer \in Text, overflowed \in BOOLEAN,
         NEW read \in Text, NEW available \in Text,
         Holds(Rest(read), buffer, overflowed),
         heard = Said(side, read) \o Owed(eager /\ overflowed)
  PROVE  LET r == ReadLine(available)
             text == Upto(read, available, r.read)
         IN /\ r.read \in 0..Len(available) /\ r.buffer \in Text /\ r.overflowed \in BOOLEAN
            /\ Holds(Rest(text), r.buffer, r.overflowed)
            /\ heard \o r.result = Said(side, text) \o Owed(eager /\ r.overflowed)
<1> DEFINE N == Len(available)
<1>1. PICK f : ReadBy(f, available) /\ ReadLine(available) = Ending(f[N])
  BY ReadSteps
<1>2. N \in Nat /\ \A i \in 1..N : available[i] \in Character
  BY DEF Text
<1>3. /\ \A i \in 0..N : f[i] \in Reads
      /\ f[0] = Reading /\ \A i \in 1..N : f[i] = Step(f[i - 1], available[i])
  BY <1>1 DEF ReadBy
<1> DEFINE Right(n) == /\ f[n].read \in 0..n /\ Progress(f[n], read, available, heard)
                       /\ f[n].result = <<>> => f[n].read = n
           P == {n \in Nat : n <= N => Right(n)}
<1>4. 0 \in P
  <2>1. /\ Reading.result = <<>> /\ Reading.buffer = buffer /\ Reading.overflowed = overflowed
        /\ Reading.detected = FALSE /\ Reading.read = 0
    BY DEF Reading
  <2>2. Upto(read, available, 0) = read
    BY <1>2, UptoIsText
  <2>3. (eager /\ overflowed /\ ~Reading.detected) = (eager /\ overflowed)
    BY <2>1
  <2>4. Ongoing(Reading, read, heard)
    BY <2>1, <2>3 DEF Ongoing
  <2>5. Progress(Reading, read, available, heard)
    BY <2>1, <2>2, <2>4 DEF Progress
  <2> QED BY <1>3, <2>1, <2>5
<1>5. ASSUME NEW n \in Nat, n \in P PROVE n + 1 \in P
  <2> SUFFICES ASSUME n + 1 <= N PROVE Right(n + 1)
    OBVIOUS
  <2> DEFINE r == f[n]
             c == available[n + 1]
             s == TakeByte(r, c)
  <2>1. n \in 0..N /\ n + 1 \in 1..N /\ (n + 1) - 1 = n
    BY <1>2
  <2>2. Right(n)
    BY <1>5, <2>1
  <2>3. r \in Reads /\ c \in Character /\ f[n + 1] = Step(r, c)
    BY <1>2, <1>3, <2>1
  <2>4. r.read \in 0..n /\ Progress(r, read, available, heard) /\ (r.result = <<>> => r.read = n)
    BY <2>2
  <2> HIDE DEF r, c
  <2>5. CASE r.result # <<>>
    <3>1. f[n + 1] = r
      BY <2>3, <2>5 DEF Step
    <3>2. r.read \in 0..(n + 1)
      BY <2>4
    <3> QED BY <2>4, <2>5, <3>1, <3>2
  <2>6. CASE r.result = <<>>
    <3> DEFINE text == Upto(read, available, n)
               longer == Upto(read, available, n + 1)
    <3>1. text \in Text /\ longer = Append(text, c)
      BY <2>1, UptoIsText, UptoNext DEF c
    <3>2. Ongoing(r, text, heard)
      BY <2>4, <2>6 DEF Progress, Done
    <3> HIDE DEF text, longer
    <3>3. /\ s \in Reads /\ s.read = n
          /\ Ongoing(s, longer, heard) \/ Done(s, longer, heard)
      BY <2>3, <2>4, <2>6, <3>1, <3>2, TakeByteRight
    <3> HIDE DEF s
    <3>4. f[n + 1] = [s EXCEPT !.read = n + 1]
      BY <2>3, <2>6, <3>3 DEF Step, s
    <3> DEFINE t == [s EXCEPT !.read = n + 1]
    <3>5. /\ t.read = n + 1 /\ t.buffer = s.buffer /\ t.overflowed = s.overflowed
          /\ t.detected = s.detected /\ t.result = s.result
      BY <3>3 DEF Reads
    <3> HIDE DEF t
    <3>6. Ongoing(t, longer, heard) \/ Done(t, longer, heard)
      BY <3>3, <3>5 DEF Ongoing, Done
    <3>7. Progress(t, read, available, heard)
      BY <3>5, <3>6 DEF Progress, longer
    <3>8. f[n + 1] = t
      BY <3>4 DEF t
    <3> QED BY <3>5, <3>7, <3>8
  <2> QED BY <2>5, <2>6
<1> HIDE DEF P
<1>6. N \in P
  BY <1>2, <1>4, <1>5, Induction
<1> DEFINE e == f[N]
           r == ReadLine(available)
<1>7. e \in Reads /\ Right(N)
  BY <1>2, <1>3, <1>6 DEF P
<1>8. e.read \in 0..N /\ Progress(e, read, available, heard)
  BY <1>7
<1>9. r = Ending(e)
  BY <1>1
<1> HIDE DEF e, r, N
<1> DEFINE text == Upto(read, available, e.read)
<1>10. /\ r.read = e.read /\ r.buffer = e.buffer /\ r.overflowed = e.overflowed
       /\ r.result = IF e.result = <<>> /\ eager /\ e.detected THEN <<TooLong>> ELSE e.result
  BY <1>7, <1>9 DEF Ending, Reads
<1>11. e.buffer \in Text /\ e.overflowed \in BOOLEAN /\ e.detected \in BOOLEAN
  BY <1>7 DEF Reads
<1>12. text \in Text
  BY <1>8, UptoIsText DEF N
<1> SUFFICES /\ Holds(Rest(text), e.buffer, e.overflowed)
             /\ heard \o r.result = Said(side, text) \o Owed(eager /\ e.overflowed)
  BY <1>8, <1>10, <1>11 DEF r, N
<1>13. Ongoing(e, text, heard) \/ Done(e, text, heard)
  BY <1>8 DEF Progress
<1> HIDE DEF text
<1>14. Said(side, text) \in Hearing(side)
  BY <1>12, SaidIsHearing
<1>15. CASE Done(e, text, heard)
  <2>1. e.result # <<>> /\ Rest(text) = <<>> /\ e.buffer = <<>> /\ e.overflowed = FALSE
        /\ heard \o e.result = Said(side, text)
    BY <1>15 DEF Done
  <2>2. (eager /\ e.overflowed) = FALSE
    BY <2>1
  <2>3. Said(side, text) \o Owed(FALSE) = Said(side, text)
    BY <1>14, NothingOwed
  <2> QED BY <1>10, <2>1, <2>2, <2>3, NothingHolds
<1>16. CASE Ongoing(e, text, heard)
  <2>1. /\ e.result = <<>> /\ Holds(Rest(text), e.buffer, e.overflowed)
        /\ (e.detected => e.overflowed)
        /\ heard = Said(side, text) \o Owed(eager /\ e.overflowed /\ ~e.detected)
    BY <1>16 DEF Ongoing
  <2>2. CASE eager /\ e.detected
    <3>1. /\ (eager /\ e.overflowed /\ ~e.detected) = FALSE
          /\ (eager /\ e.overflowed) = TRUE
      BY <1>11, <2>1, <2>2
    <3>2. heard = Said(side, text)
      BY <1>14, <2>1, <3>1, NothingOwed
    <3>3. r.result = <<TooLong>>
      BY <1>10, <2>1, <2>2
    <3>4. Owed(TRUE) = <<TooLong>>
      BY DEF Owed
    <3> QED BY <2>1, <3>1, <3>2, <3>3, <3>4
  <2>3. CASE ~(eager /\ e.detected)
    <3>1. (eager /\ e.overflowed /\ ~e.detected) = (eager /\ e.overflowed)
      BY <1>11, <2>3
    <3>2. r.result = <<>>
      BY <1>10, <2>1, <2>3
    <3>3. heard \in Seq(Outcome(side))
      <4>1. Said(side, text) \in Seq(Outcome(side))
        BY <1>14 DEF Hearing
      <4>2. \A b : Owed(b) \in Seq(Outcome(side))
        BY NothingHeard, OneHeard DEF Owed, Outcome, Hearing
      <4> QED BY <2>1, <4>1, <4>2, ConcatProperties
    <3>4. heard \o <<>> = heard
      BY <3>3, ConcatEmptySeq
    <3> QED BY <2>1, <3>1, <3>2, <3>4
  <2> QED BY <2>2, <2>3
<1> QED BY <1>13, <1>15, <1>16

-----------------------------------------------------------------------------
(* The specification.                                                       *)

(* All that was read was understood, and the rest is on the wire.           *)
Understood(read) ==
  /\ sent = read \o wire /\ Holds(Rest(read), buffer, overflowed)
  /\ heard = Said(side, read) \o Owed(eager /\ overflowed)

LineInv ==
  /\ eager \in BOOLEAN /\ overflowed \in BOOLEAN
  /\ buffer \in Text /\ wire \in Text
  /\ \E read \in Text : Understood(read)

LEMMA ConcatIsText ==
  ASSUME NEW s \in Text, NEW t \in Text
  PROVE  s \o t \in Text
BY ConcatProperties DEF Text

LEMMA MoreOnTheWire ==
  ASSUME LineInv, NEW more \in Text, wire' = wire \o more, sent' = sent \o more,
         UNCHANGED <<side, eager, buffer, overflowed, heard>>
  PROVE  LineInv'
<1>1. PICK read \in Text : Understood(read)
  BY DEF LineInv
<1>2. (read \o wire) \o more = read \o (wire \o more)
  BY ConcatAssociative DEF Text, LineInv
<1>3. sent' = read \o wire'
  BY <1>1, <1>2 DEF Understood
<1>4. Understood(read)'
  BY <1>1, <1>3 DEF Understood
<1>5. wire' \in Text
  BY ConcatIsText DEF LineInv
<1> QED BY <1>4, <1>5 DEF LineInv

LEMMA SplitText ==
  ASSUME NEW text \in Text, NEW n \in 0..Len(text)
  PROVE  /\ SubSeq(text, 1, n) \in Text /\ SubSeq(text, n + 1, Len(text)) \in Text
         /\ Len(SubSeq(text, 1, n)) = n
         /\ text = SubSeq(text, 1, n) \o SubSeq(text, n + 1, Len(text))
<1>1. text \in Seq(Character) /\ Len(text) \in Nat
  BY DEF Text
<1>2. SubSeq(text, 1, n) \in Text /\ SubSeq(text, n + 1, Len(text)) \in Text
  BY DEF Text
<1>3. Len(SubSeq(text, 1, n)) = n
  BY DEF Text
<1>4. 1 \in 1..(Len(text) + 1) /\ n \in (1 - 1)..Len(text) /\ Len(text) \in n..Len(text)
  BY <1>1
<1>5. SubSeq(text, 1, n) \o SubSeq(text, n + 1, Len(text)) = SubSeq(text, 1, Len(text))
  BY <1>1, <1>4, ConcatAdjacentSubSeq
<1> QED BY <1>1, <1>2, <1>3, <1>5, SubSeqFull

LEMMA StartOfStart ==
  ASSUME NEW text \in Text, NEW n \in 0..Len(text), NEW m \in 0..n
  PROVE  SubSeq(SubSeq(text, 1, n), 1, m) = SubSeq(text, 1, m)
<1>1. text \in Seq(Character) /\ Len(text) \in Nat
  BY DEF Text
<1>2. CASE m = 0
  BY <1>2, SubSeqEmpty
<1>3. CASE m # 0
  <2>1. 1 \in 1..Len(text) /\ n \in 1..Len(text) /\ 1 \in 1..(n - 1 + 1) /\ m \in 1..(n - 1 + 1)
        /\ 1 + 1 - 1 = 1 /\ 1 + m - 1 = m
    BY <1>1, <1>3
  <2>2. SubSeq(SubSeq(text, 1, n), 1, m) = SubSeq(text, 1 + 1 - 1, 1 + m - 1)
    BY <1>1, <2>1, SubSeqOfSubSeq
  <2> QED BY <2>1, <2>2
<1> QED BY <1>2, <1>3

LEMMA PollKeeps == ASSUME LineInv, NEW n \in 1..Len(wire), Poll(n) PROVE LineInv'
<1> DEFINE available == SubSeq(wire, 1, n)
           r == ReadLine(available)
           m == r.read
<1>1. PICK read \in Text : Understood(read)
  BY DEF LineInv
<1>2. wire \in Text /\ eager \in BOOLEAN /\ buffer \in Text /\ overflowed \in BOOLEAN
  BY DEF LineInv
<1>3. n \in 0..Len(wire) /\ Len(wire) \in Nat
  BY <1>2, LenIsNat
<1>4. available \in Text /\ Len(available) = n
  BY <1>2, <1>3, SplitText
<1>5. /\ buffer' = r.buffer /\ overflowed' = r.overflowed /\ wire' = SubSeq(wire, m + 1, Len(wire))
      /\ heard' = heard \o r.result /\ UNCHANGED <<side, eager, sent>>
  BY DEF Poll
<1>6. Holds(Rest(read), buffer, overflowed) /\ heard = Said(side, read) \o Owed(eager /\ overflowed)
      /\ sent = read \o wire
  BY <1>1 DEF Understood
<1> HIDE DEF available
<1> DEFINE text == Upto(read, available, m)
<1>7. /\ m \in 0..Len(available) /\ r.buffer \in Text /\ r.overflowed \in BOOLEAN
      /\ Holds(Rest(text), r.buffer, r.overflowed)
      /\ heard \o r.result = Said(side, text) \o Owed(eager /\ r.overflowed)
  BY <1>2, <1>4, <1>6, ReadLineRight
<1> HIDE DEF r, m
<1>8. text \in Text
  BY <1>4, <1>7, UptoIsText
<1>9. m \in 0..n /\ m \in 0..Len(wire)
  BY <1>3, <1>4, <1>7
<1>10. text = read \o SubSeq(wire, 1, m)
  BY <1>2, <1>3, <1>9, StartOfStart DEF Upto, available
<1>11. /\ SubSeq(wire, 1, m) \in Text /\ wire' \in Text
       /\ wire = SubSeq(wire, 1, m) \o wire'
  BY <1>2, <1>5, <1>9, SplitText
<1>12. PICK start \in Text : start = SubSeq(wire, 1, m)
  BY <1>11
<1>13. PICK now \in Text : now = text
  BY <1>8
<1> HIDE DEF text
<1>14. (read \o start) \o wire' = read \o (start \o wire')
  <2>1. PICK rest \in Text : rest = wire'
    BY <1>11
  <2>2. (read \o start) \o rest = read \o (start \o rest)
    BY ConcatAssociative DEF Text
  <2> QED BY <2>1, <2>2
<1>15. sent' = now \o wire'
  BY <1>5, <1>6, <1>10, <1>11, <1>12, <1>13, <1>14
<1>16. Understood(now)'
  <2>1. Holds(Rest(now), buffer', overflowed')
    BY <1>5, <1>7, <1>13
  <2>2. heard' = Said(side', now) \o Owed(eager' /\ overflowed')
    BY <1>5, <1>7, <1>13
  <2> QED BY <1>15, <2>1, <2>2 DEF Understood
<1>17. buffer' \in Text /\ overflowed' \in BOOLEAN /\ eager' \in BOOLEAN
  BY <1>2, <1>5, <1>7
<1> QED BY <1>11, <1>16, <1>17 DEF LineInv

LEMMA ClearInputKeeps ==
  ASSUME LineInv, NEW n \in 0..Len(wire), ClearInput(n) PROVE LineInv'
<1>1. /\ ~eager /\ buffer' = <<>> /\ overflowed' = FALSE /\ wire' = SubSeq(wire, n + 1, Len(wire))
      /\ sent' = wire' /\ heard' = <<>> /\ UNCHANGED <<side, eager>>
  BY DEF ClearInput
<1>2. wire' \in Text /\ <<>> \in Text
  BY <1>1, SplitText, TextFacts DEF LineInv
<1>3. <<>> \o wire' = wire'
  BY <1>2, ConcatEmptySeq DEF Text
<1>4. Holds(Rest(<<>>), <<>>, FALSE)
  BY RestNothing, NothingHolds
<1>5. Said(side, <<>>) \o Owed(FALSE) = <<>>
  BY SaidNothing, NothingHeard, NothingOwed
<1>6. (eager' /\ overflowed') = FALSE
  BY <1>1
<1>7. Understood(<<>>)'
  <2>1. heard' = Said(side', <<>>) \o Owed(eager' /\ overflowed')
    BY <1>1, <1>5, <1>6
  <2> QED BY <1>1, <1>3, <1>4, <2>1 DEF Understood
<1> QED BY <1>1, <1>2, <1>7 DEF LineInv

LEMMA LineInvInit == ASSUME Init PROVE LineInv
<1>1. /\ buffer = <<>> /\ overflowed = FALSE /\ wire = <<>> /\ sent = <<>> /\ heard = <<>>
      /\ eager \in BOOLEAN
  BY DEF Init
<1>2. <<>> \in Text
  BY TextFacts
<1>3. <<>> \o wire = wire
  BY <1>1, <1>2, ConcatEmptySeq DEF Text
<1>4. Holds(Rest(<<>>), <<>>, FALSE)
  BY RestNothing, NothingHolds
<1>5. Said(side, <<>>) \o Owed(FALSE) = <<>>
  BY SaidNothing, NothingHeard, NothingOwed
<1>6. (eager /\ overflowed) = FALSE
  BY <1>1
<1>7. Understood(<<>>)
  BY <1>1, <1>3, <1>4, <1>5, <1>6 DEF Understood
<1> QED BY <1>1, <1>2, <1>7 DEF LineInv

LEMMA LineInvNext == ASSUME LineInv, [Next]_vars PROVE LineInv'
<1>1. ASSUME NEW message \in Message(side), Write(message) PROVE LineInv'
  <2> DEFINE line == Strip(Build(side, message)) \o <<NewLine>>
  <2>1. Strip(Build(side, message)) \in Text
    BY BuildIsText, StripIsText
  <2>2. <<NewLine>> \in Text
    BY LineReaderAssumption DEF Text
  <2>3. line \in Text
    BY <2>1, <2>2, ConcatIsText
  <2>4. /\ wire' = wire \o line /\ sent' = sent \o line
        /\ UNCHANGED <<side, eager, buffer, overflowed, heard>>
    BY <1>1 DEF Write
  <2> HIDE DEF line
  <2> QED BY <2>3, <2>4, MoreOnTheWire
<1>2. ASSUME NEW c \in Noise, Disturb(c) PROVE LineInv'
  <2>1. <<c>> \in Text /\ c \in Character
    BY LineReaderAssumption DEF Text
  <2>2. wire \in Text /\ sent \in Text
    <3>1. PICK read \in Text : sent = read \o wire
      BY DEF LineInv, Understood
    <3> QED BY <3>1, ConcatIsText DEF LineInv
  <2>3. Append(wire, c) = wire \o <<c>> /\ Append(sent, c) = sent \o <<c>>
    BY <2>1, <2>2, AppendIsConcat DEF Text
  <2>4. /\ wire' = wire \o <<c>> /\ sent' = sent \o <<c>>
        /\ UNCHANGED <<side, eager, buffer, overflowed, heard>>
    BY <1>2, <2>3 DEF Disturb
  <2> QED BY <2>1, <2>4, MoreOnTheWire
<1>3. ASSUME NEW n \in 1..Len(wire), Poll(n) PROVE LineInv'
  BY <1>3, PollKeeps
<1>4. ASSUME NEW n \in 0..Len(wire), ClearInput(n) PROVE LineInv'
  BY <1>4, ClearInputKeeps
<1>5. CASE UNCHANGED vars
  BY <1>5 DEF LineInv, Understood, vars
<1> QED BY <1>1, <1>2, <1>3, <1>4, <1>5 DEF Next

LEMMA LineInvMeans == ASSUME LineInv PROVE EveryLineOnce
<1>1. PICK read \in Text : Understood(read)
  BY DEF LineInv
<1>2. sent = read \o wire /\ wire \in Text
  BY <1>1 DEF Understood, LineInv
<1>3. SubSeq(sent, 1, Len(sent) - Len(wire)) = read
  <2>1. Len(read) \in Nat /\ Len(wire) \in Nat /\ Len(sent) = Len(read) + Len(wire)
    BY <1>2, ConcatProperties DEF Text
  <2>2. Len(sent) - Len(wire) = Len(read)
    BY <2>1
  <2>3. SubSeq(sent, 1, Len(read)) = read
    <3>1. SubSeq(sent, 1, Len(read)) \in Text /\ Len(SubSeq(sent, 1, Len(read))) = Len(read)
      <4>1. sent \in Text /\ Len(read) \in 0..Len(sent)
        BY <1>2, <2>1, ConcatIsText
      <4> QED BY <4>1, SplitText
    <3>2. ASSUME NEW i \in 1..Len(read) PROVE SubSeq(sent, 1, Len(read))[i] = read[i]
      <4>1. \A j \in 1..Len(read) : sent[j] = read[j]
        BY <1>2, <2>1, ConcatProperties DEF Text
      <4>2. \A j \in 1..Len(read) : sent[j] \in Character
        BY <4>1 DEF Text
      <4>3. \A j \in 1..(Len(read) - 1 + 1) : SubSeq(sent, 1, Len(read))[j] = sent[1 + j - 1]
        BY <2>1, <4>2, SubSeqProperties
      <4>4. i \in 1..(Len(read) - 1 + 1) /\ 1 + i - 1 = i
        BY <2>1
      <4> QED BY <4>1, <4>3, <4>4
    <3> QED BY <3>1, <3>2, SeqEqual DEF Text
  <2> QED BY <2>2, <2>3
<1>4. heard = Said(side, read) \o Owed(eager /\ Oversized(Rest(read)))
  BY <1>1 DEF Understood, Holds
<1>5. (eager /\ Oversized(Rest(read))) \in BOOLEAN
  OBVIOUS
<1> DEFINE tail == LineUpTo(read, Len(read) + 1)
<1>6. heard = Said(side, read) \o IF eager /\ Oversized(tail) THEN <<TooLong>> ELSE <<>>
  BY <1>4 DEF Owed, Rest
<1> HIDE DEF tail
<1> QED BY <1>3, <1>6 DEF EveryLineOnce, tail

THEOREM LinesAreHeard == Spec => []EveryLineOnce
<1>1. Spec => []LineInv
  BY LineInvInit, LineInvNext, PTL DEF Spec
<1>2. LineInv => EveryLineOnce
  BY LineInvMeans
<1> QED BY <1>1, <1>2, PTL
=============================================================================
