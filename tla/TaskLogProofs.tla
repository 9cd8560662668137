---------------------------- MODULE TaskLogProofs ----------------------------
(***************************************************************************)
(* Proofs about TaskLog, and about the run that checks it beside the step   *)
(* runner, for any number of bytes, any window, any cap and any tail.       *)
(*                                                                         *)
(* The log reads byte by byte and remembers a line; TailIsTrue speaks of    *)
(* the whole file.  Keeps says what each field of the log is of the file up *)
(* to the byte it has read; that a byte more keeps it so is one lemma for   *)
(* the fields of the line and one for the lines that have ended.  First the *)
(* largest of a set of numbers and the members of one in order, then the    *)
(* lines of the file, then the runes in them, then the log.                 *)
(***************************************************************************)
EXTENDS StepRunnerProofs, MCTaskRun

-----------------------------------------------------------------------------
(* The largest of a set of numbers, and the smaller of two.                  *)

(* A set of numbers that is bounded and not empty has a largest member.      *)
LEMMA MaxIs ==
  ASSUME NEW n \in Nat, NEW S \in SUBSET (0..n), S # {}
  PROVE  Max(S) \in S /\ \A k \in S : k <= Max(S)
<1> DEFINE T == {k \in Nat : k <= n /\ n - k \in S}
<1>1. T \in SUBSET Nat /\ T # {}
  <2>1. PICK x \in S : TRUE
    OBVIOUS
  <2>2. x \in 0..n /\ n - x \in Nat /\ n - x <= n /\ n - (n - x) = x
    BY <2>1
  <2> QED BY <2>1, <2>2
<1>2. PICK t \in T : \A m \in T : t <= m
  BY <1>1, LeastIs
<1>3. n - t \in S
  BY <1>2
<1>4. \A k \in S : n - t >= k
  <2> TAKE k \in S
  <2>1. k \in 0..n /\ n - k \in Nat /\ n - k <= n /\ n - (n - k) = k
    OBVIOUS
  <2>2. n - k \in T
    BY <2>1
  <2>3. t <= n - k /\ t \in Nat
    BY <1>2, <2>2
  <2> QED BY <2>1, <2>3
<1>5. \E x \in S : \A y \in S : x >= y
  BY <1>3, <1>4
<1>6. Max(S) \in S /\ \A y \in S : Max(S) >= y
  BY <1>5 DEF Max
<1> QED BY <1>6

(* It is the only one.                                                       *)
LEMMA MaxOf ==
  ASSUME NEW n \in Nat, NEW S \in SUBSET (0..n), NEW m \in S, \A k \in S : k <= m
  PROVE  Max(S) = m
<1>1. Max(S) \in S /\ \A k \in S : k <= Max(S)
  BY MaxIs
<1>2. Max(S) <= m /\ m <= Max(S)
  BY <1>1
<1>3. m \in 0..n /\ Max(S) \in 0..n
  BY <1>1
<1> QED BY <1>2, <1>3

(* The smaller of two numbers.                                               *)
LEMMA MinOf ==
  ASSUME NEW a \in Nat, NEW b \in Nat
  PROVE  Min({a, b}) = IF a <= b THEN a ELSE b
<1>1. \E x \in {a, b} : \A y \in {a, b} : x <= y
  OBVIOUS
<1>2. Min({a, b}) \in {a, b} /\ \A y \in {a, b} : Min({a, b}) <= y
  BY <1>1 DEF Min
<1> QED BY <1>2

-----------------------------------------------------------------------------
(* The members of a set in their order.                                      *)

(* How they are listed up to n.                                              *)
Sorts(f, S, n) ==
  f = [k \in 0..n |-> IF k = 0 THEN <<>>
                      ELSE IF k \in S THEN Append(f[k - 1], k) ELSE f[k - 1]]

(* One number more.                                                          *)
LEMMA SortsMore ==
  ASSUME NEW f, NEW S, NEW n \in Nat, Sorts(f, S, n)
  PROVE  \E g : Sorts(g, S, n + 1)
<1> DEFINE g == [i \in 0..(n + 1) |->
                   IF i = n + 1 THEN IF i \in S THEN Append(f[n], i) ELSE f[n]
                   ELSE f[i]]
<1>1. \A i \in 0..(n + 1) :
        g[i] = IF i = 0 THEN <<>>
               ELSE IF i \in S THEN Append(g[i - 1], i) ELSE g[i - 1]
  <2> TAKE i \in 0..(n + 1)
  <2>1. CASE i = n + 1
    <3>1. n \in 0..(n + 1) /\ n # n + 1 /\ i - 1 = n /\ i # 0
      BY <2>1
    <3>2. g[n] = f[n]
      BY <3>1
    <3> QED BY <2>1, <3>1, <3>2
  <2>2. CASE i # n + 1
    <3>1. i \in 0..n
      BY <2>2
    <3>2. g[i] = f[i]
      BY <2>2
    <3>3. f[i] = IF i = 0 THEN <<>>
                 ELSE IF i \in S THEN Append(f[i - 1], i) ELSE f[i - 1]
      BY <3>1, Zenon DEF Sorts
    <3>4. i # 0 => i - 1 \in 0..(n + 1) /\ i - 1 # n + 1
      BY <3>1
    <3>5. i # 0 => g[i - 1] = f[i - 1]
      BY <3>4
    <3> QED BY <3>2, <3>3, <3>5
  <2> QED BY <2>1, <2>2
<1>2. g = [i \in 0..(n + 1) |-> g[i]]
  OBVIOUS
<1> HIDE DEF g
<1>3. g = [i \in 0..(n + 1) |-> IF i = 0 THEN <<>>
             ELSE IF i \in S THEN Append(g[i - 1], i) ELSE g[i - 1]]
  BY <1>1, <1>2
<1> QED BY <1>3, Zenon DEF Sorts

(* There is such a list of lists.                                            *)
LEMMA SortsIs ==
  ASSUME NEW S, NEW n \in Nat
  PROVE  \E f : Sorts(f, S, n)
<1> DEFINE T == {m \in Nat : \E f : Sorts(f, S, m)}
<1>1. 0 \in T
  <2> DEFINE f == [k \in 0..0 |-> <<>>]
  <2>1. f = [k \in 0..0 |-> IF k = 0 THEN <<>>
               ELSE IF k \in S THEN Append(f[k - 1], k) ELSE f[k - 1]]
    OBVIOUS
  <2> HIDE DEF f
  <2>2. Sorts(f, S, 0)
    BY <2>1, Zenon DEF Sorts
  <2> QED BY <2>2
<1>2. \A m \in Nat : m \in T => m + 1 \in T
  BY SortsMore
<1> HIDE DEF T
<1>3. n \in T
  BY <1>1, <1>2, Inductive
<1> QED BY <1>3 DEF T

(* The lists of f, one by one.                                               *)
LEMMA SortsAt ==
  ASSUME NEW f, NEW S, NEW n \in Nat, Sorts(f, S, n), NEW k \in 0..n
  PROVE  f[k] = IF k = 0 THEN <<>>
                ELSE IF k \in S THEN Append(f[k - 1], k) ELSE f[k - 1]
BY Zenon DEF Sorts

(* What InOrder is.                                                          *)
LEMMA OrderIs ==
  ASSUME NEW S, NEW n \in Nat
  PROVE  \E f : Sorts(f, S, n) /\ InOrder(S, n) = f[n]
<1> DEFINE f == CHOOSE g : Sorts(g, S, n)
<1>1. InOrder(S, n) = f[n]
  BY Zenon DEF InOrder, Sorts
<1>2. Sorts(f, S, n)
  BY SortsIs
<1> QED BY <1>1, <1>2

(* Two lists of lists for sets that agree agree.                             *)
LEMMA SortsSame ==
  ASSUME NEW f, NEW g, NEW S, NEW T, NEW m \in Nat, NEW n \in Nat, m <= n,
         Sorts(f, S, m), Sorts(g, T, n), \A k \in 1..m : k \in S <=> k \in T
  PROVE  \A k \in 0..m : f[k] = g[k]
<1> DEFINE R == {k \in Nat : k <= m => f[k] = g[k]}
<1>1. 0 \in R
  BY SortsAt
<1>2. ASSUME NEW k \in Nat, k \in R PROVE k + 1 \in R
  <2> SUFFICES ASSUME k + 1 <= m PROVE f[k + 1] = g[k + 1]
    OBVIOUS
  <2>1. /\ k + 1 \in 1..m /\ k + 1 \in 0..m /\ k + 1 \in 0..n /\ k + 1 # 0
        /\ (k + 1) - 1 = k /\ k <= m
    OBVIOUS
  <2>2. f[k] = g[k] /\ (k + 1 \in S <=> k + 1 \in T)
    BY <1>2, <2>1
  <2>3. f[k + 1] = IF k + 1 \in S THEN Append(f[k], k + 1) ELSE f[k]
    BY <2>1, SortsAt
  <2>4. g[k + 1] = IF k + 1 \in T THEN Append(g[k], k + 1) ELSE g[k]
    BY <2>1, SortsAt
  <2> QED BY <2>2, <2>3, <2>4
<1> HIDE DEF R
<1>3. Nat \subseteq R
  BY <1>1, <1>2, Inductive
<1> QED BY <1>3 DEF R

(* Sets that agree up to n are listed alike.                                 *)
LEMMA OrderSame ==
  ASSUME NEW S, NEW T, NEW n \in Nat, \A k \in 1..n : k \in S <=> k \in T
  PROVE  InOrder(S, n) = InOrder(T, n)
<1>1. PICK f : Sorts(f, S, n) /\ InOrder(S, n) = f[n]
  BY OrderIs
<1>2. PICK g : Sorts(g, T, n) /\ InOrder(T, n) = g[n]
  BY OrderIs
<1>3. n <= n /\ n \in 0..n
  OBVIOUS
<1> QED BY <1>1, <1>2, <1>3, SortsSame

(* The next number is listed after the others, if it is a member.            *)
LEMMA OrderNext ==
  ASSUME NEW S, NEW n \in Nat
  PROVE  InOrder(S, n + 1) =
           IF n + 1 \in S THEN Append(InOrder(S, n), n + 1) ELSE InOrder(S, n)
<1>1. PICK f : Sorts(f, S, n) /\ InOrder(S, n) = f[n]
  BY OrderIs
<1>2. PICK g : Sorts(g, S, n + 1) /\ InOrder(S, n + 1) = g[n + 1]
  BY OrderIs
<1>3. /\ n <= n + 1 /\ n \in 0..n /\ n + 1 \in 0..(n + 1) /\ n + 1 # 0
      /\ (n + 1) - 1 = n /\ n + 1 \in Nat
  OBVIOUS
<1>4. f[n] = g[n]
  BY <1>1, <1>2, <1>3, SortsSame
<1>5. g[n + 1] = IF n + 1 \in S THEN Append(g[n], n + 1) ELSE g[n]
  BY <1>2, <1>3, SortsAt
<1> QED BY <1>1, <1>2, <1>4, <1>5

(* Nothing is listed up to zero, ...                                         *)
LEMMA OrderZero ==
  ASSUME NEW S
  PROVE  InOrder(S, 0) = <<>>
<1>1. PICK f : Sorts(f, S, 0) /\ InOrder(S, 0) = f[0]
  BY OrderIs
<1> QED BY <1>1, SortsAt

(* ... nor of a set that has no member up to n.                              *)
LEMMA OrderNone ==
  ASSUME NEW S, NEW n \in Nat, \A k \in 1..n : k \notin S
  PROVE  InOrder(S, n) = <<>>
<1> DEFINE R == {k \in Nat : k <= n => InOrder(S, k) = <<>>}
<1>1. 0 \in R
  BY OrderZero
<1>2. ASSUME NEW k \in Nat, k \in R PROVE k + 1 \in R
  <2>1. k + 1 <= n => k <= n /\ k + 1 \in 1..n
    OBVIOUS
  <2> QED BY <1>2, <2>1, OrderNext
<1> HIDE DEF R
<1>3. Nat \subseteq R
  BY <1>1, <1>2, Inductive
<1> QED BY <1>3 DEF R

(* A sequence of the members of S up to n, each once, in their order: none   *)
(* of them lies before the first, between two, or after the last.            *)
Listing(o, S, n) ==
  /\ o \in Seq(1..n)
  /\ \A k \in DOMAIN o : o[k] \in S
  /\ \A k \in 1..(Len(o) - 1) :
       o[k] < o[k + 1] /\ \A m \in 1..n : m \in S => ~(o[k] < m /\ m < o[k + 1])
  /\ \A m \in 1..n : m \in S => o # <<>> /\ o[1] <= m /\ m <= o[Len(o)]

(* One number more.                                                          *)
LEMMA ListingMore ==
  ASSUME NEW S, NEW n \in Nat, NEW o, Listing(o, S, n)
  PROVE  Listing(IF n + 1 \in S THEN Append(o, n + 1) ELSE o, S, n + 1)
<1>1. CASE n + 1 \notin S
  <2>1. o \in Seq(1..(n + 1))
    BY DEF Listing
  <2>2. \A m \in 1..(n + 1) : m \in S => m \in 1..n
    BY <1>1
  <2> QED BY <1>1, <2>1, <2>2 DEF Listing
<1>2. CASE n + 1 \in S
  <2> DEFINE r == Append(o, n + 1)
  <2>1. o \in Seq(1..n) /\ o \in Seq(1..(n + 1)) /\ Len(o) \in Nat
    BY DEF Listing
  <2>2. /\ r \in Seq(1..(n + 1)) /\ Len(r) = Len(o) + 1 /\ r[Len(o) + 1] = n + 1
        /\ \A k \in 1..Len(o) : r[k] = o[k] /\ o[k] \in 1..n
        /\ r # <<>>
    BY <2>1
  <2> HIDE DEF r
  <2>3. \A k \in DOMAIN r : r[k] \in S
    <3> TAKE k \in DOMAIN r
    <3>1. k \in 1..(Len(o) + 1)
      BY <2>2
    <3>2. k = Len(o) + 1 \/ k \in 1..Len(o)
      BY <2>1, <3>1
    <3>3. k \in 1..Len(o) => k \in DOMAIN o /\ r[k] = o[k]
      BY <2>1, <2>2
    <3> QED BY <1>2, <2>2, <3>2, <3>3 DEF Listing
  <2>4. \A k \in 1..(Len(r) - 1) :
          /\ r[k] < r[k + 1]
          /\ \A m \in 1..(n + 1) : m \in S => ~(r[k] < m /\ m < r[k + 1])
    <3> TAKE k \in 1..(Len(r) - 1)
    <3>1. k \in 1..Len(o)
      BY <2>1, <2>2
    <3>2. CASE k = Len(o)
      <4>1. r[k] = o[Len(o)] /\ r[k + 1] = n + 1 /\ r[k] \in 1..n
        BY <2>2, <3>1, <3>2
      <4>2. ASSUME NEW m \in 1..(n + 1), m \in S, r[k] < m, m < n + 1 PROVE FALSE
        <5>1. m \in 1..n
          BY <4>2
        <5>2. m <= o[Len(o)]
          BY <4>2, <5>1 DEF Listing
        <5> QED BY <4>1, <4>2, <5>2
      <4> QED BY <4>1, <4>2
    <3>3. CASE k # Len(o)
      <4>1. k \in 1..(Len(o) - 1) /\ k + 1 \in 1..Len(o)
        BY <2>1, <3>1, <3>3
      <4>2. r[k] = o[k] /\ r[k + 1] = o[k + 1] /\ o[k + 1] \in 1..n
        BY <2>2, <3>1, <4>1
      <4>3. \A m \in 1..(n + 1) : m < o[k + 1] => m \in 1..n
        BY <4>2
      <4> QED BY <4>1, <4>2, <4>3 DEF Listing
    <3> QED BY <3>2, <3>3
  <2>5. \A m \in 1..(n + 1) : m \in S => r # <<>> /\ r[1] <= m /\ m <= r[Len(r)]
    <3> TAKE m \in 1..(n + 1)
    <3> HAVE m \in S
    <3>1. m <= r[Len(r)]
      BY <2>1, <2>2
    <3>2. r[1] <= m
      <4>1. CASE o = <<>>
        <5>1. Len(o) = 0 /\ r[1] = n + 1
          BY <2>2, <4>1
        <5>2. m \notin 1..n
          BY <4>1 DEF Listing
        <5> QED BY <5>1, <5>2
      <4>2. CASE o # <<>>
        <5>1. 1 \in 1..Len(o)
          BY <2>1, <4>2
        <5>2. r[1] = o[1] /\ o[1] \in 1..n
          BY <2>2, <5>1
        <5>3. m \in 1..n => o[1] <= m
          BY DEF Listing
        <5> QED BY <5>2, <5>3
      <4> QED BY <4>1, <4>2
    <3> QED BY <2>2, <3>1, <3>2
  <2> QED BY <1>2, <2>2, <2>3, <2>4, <2>5 DEF Listing, r
<1> QED BY <1>1, <1>2

(* InOrder lists the members.                                                *)
LEMMA OrderLists ==
  ASSUME NEW S, NEW n \in Nat
  PROVE  Listing(InOrder(S, n), S, n)
<1> DEFINE R == {k \in Nat : Listing(InOrder(S, k), S, k)}
<1>1. 0 \in R
  <2>1. Listing(<<>>, S, 0)
    BY DEF Listing
  <2> QED BY <2>1, OrderZero
<1>2. ASSUME NEW k \in Nat, k \in R PROVE k + 1 \in R
  BY <1>2, OrderNext, ListingMore
<1> HIDE DEF R
<1>3. Nat \subseteq R
  BY <1>1, <1>2, Inductive
<1> QED BY <1>3 DEF R

-----------------------------------------------------------------------------
(* The lines of the file.                                                    *)

(* A line begins at the file's beginning or after a line feed, and has none  *)
(* inside it.                                                                *)
LEMMA LineBegins ==
  ASSUME NEW e \in Nat \ {0}
  PROVE  /\ Begins(e) \in 1..e
         /\ Begins(e) = 1 \/ file[Begins(e) - 1] = "lf"
         /\ \A i \in Begins(e)..(e - 1) : file[i] # "lf"
<1> DEFINE S == {b \in 1..e : b = 1 \/ file[b - 1] = "lf"}
<1>1. S \in SUBSET (0..e) /\ 1 \in S
  OBVIOUS
<1>2. Begins(e) = Max(S)
  BY DEF Begins
<1> HIDE DEF S
<1>3. Begins(e) \in S /\ \A k \in S : k <= Begins(e)
  BY <1>1, <1>2, MaxIs
<1>4. ASSUME NEW i \in Begins(e)..(e - 1), file[i] = "lf" PROVE FALSE
  <2>1. Begins(e) \in 1..e
    BY <1>3 DEF S
  <2>2. i + 1 \in 1..e /\ (i + 1) - 1 = i /\ ~(i + 1 <= Begins(e))
    BY <2>1
  <2>3. i + 1 \in S
    BY <1>4, <2>2 DEF S
  <2> QED BY <1>3, <2>2, <2>3
<1> QED BY <1>3, <1>4 DEF S

(* A byte more begins a line when it follows a line feed, and no other.      *)
LEMMA BeginsNext ==
  ASSUME NEW e \in Nat \ {0}
  PROVE  Begins(e + 1) = IF file[e] = "lf" THEN e + 1 ELSE Begins(e)
<1> DEFINE S(n) == {b \in 1..n : b = 1 \/ file[b - 1] = "lf"}
<1>1. Begins(e + 1) = Max(S(e + 1)) /\ Begins(e) = Max(S(e))
  BY DEF Begins
<1>2. CASE file[e] = "lf"
  <2>1. S(e + 1) \in SUBSET (0..(e + 1)) /\ e + 1 \in S(e + 1)
    BY <1>2
  <2>2. e + 1 \in Nat /\ \A k \in S(e + 1) : k <= e + 1
    OBVIOUS
  <2> HIDE DEF S
  <2>3. Max(S(e + 1)) = e + 1
    BY <2>1, <2>2, MaxOf
  <2> QED BY <1>1, <1>2, <2>3
<1>3. CASE file[e] # "lf"
  <2>1. S(e + 1) = S(e)
    BY <1>3
  <2> QED BY <1>1, <1>3, <2>1
<1> QED BY <1>2, <1>3

(* A line is shown from its last restart, or from where it begins.           *)
LEMMA FromIs ==
  ASSUME NEW e \in Nat \ {0}
  PROVE  /\ From(e) \in Begins(e)..e
         /\ From(e) \in Restarts(e) \cup {Begins(e)}
         /\ \A i \in Restarts(e) : i <= From(e)
<1>1. Begins(e) \in 1..e
  BY LineBegins
<1>2. Restarts(e) \in SUBSET ((Begins(e) + 1)..(e - 1))
  BY DEF Restarts
<1>3. Restarts(e) \cup {Begins(e)} \in SUBSET (0..e)
  BY <1>1, <1>2
<1>4. /\ From(e) \in Restarts(e) \cup {Begins(e)}
      /\ \A k \in Restarts(e) \cup {Begins(e)} : k <= From(e)
  BY <1>3, MaxIs DEF From
<1>5. From(e) \in Begins(e)..e
  BY <1>1, <1>2, <1>4
<1> QED BY <1>4, <1>5

(* A byte more changes where the line is shown from when it follows a line   *)
(* feed, or is a text after a carriage return.                               *)
LEMMA FromNext ==
  ASSUME NEW e \in Nat \ {0}
  PROVE  From(e + 1) = IF file[e] = "lf" THEN e + 1
                       ELSE IF e > 1 /\ IsText(e) /\ file[e - 1] = "cr" THEN e
                       ELSE From(e)
<1>1. /\ Begins(e) \in 1..e
      /\ Begins(e) = 1 \/ file[Begins(e) - 1] = "lf"
  BY LineBegins
<1>2. CASE file[e] = "lf"
  <2>1. Begins(e + 1) = e + 1 /\ From(e + 1) \in Begins(e + 1)..(e + 1)
    BY <1>2, BeginsNext, FromIs
  <2> QED BY <1>2, <2>1
<1>3. CASE file[e] # "lf" /\ e > 1 /\ IsText(e) /\ file[e - 1] = "cr"
  <2>1. Begins(e) # e
    BY <1>1, <1>3
  <2>2. Begins(e + 1) = Begins(e)
    BY <1>3, BeginsNext
  <2>3. e \in Restarts(e + 1) /\ \A i \in Restarts(e + 1) : i <= e
    BY <1>1, <1>3, <2>1, <2>2 DEF Restarts
  <2>4. \A i \in Restarts(e + 1) : i \in 0..e
    BY <1>1, <2>2 DEF Restarts
  <2>5. Restarts(e + 1) \cup {Begins(e + 1)} \in SUBSET (0..e)
    BY <1>1, <2>2, <2>4
  <2>6. \A k \in Restarts(e + 1) \cup {Begins(e + 1)} : k <= e
    BY <1>1, <2>2, <2>3
  <2>7. From(e + 1) = e
    BY <2>3, <2>5, <2>6, MaxOf DEF From
  <2> QED BY <1>3, <2>7
<1>4. CASE file[e] # "lf" /\ ~(e > 1 /\ IsText(e) /\ file[e - 1] = "cr")
  <2>1. Begins(e + 1) = Begins(e)
    BY <1>4, BeginsNext
  <2>2. Restarts(e + 1) = Restarts(e)
    BY <1>1, <1>4, <2>1 DEF Restarts
  <2> QED BY <1>4, <2>1, <2>2 DEF From
<1> QED BY <1>2, <1>3, <1>4

(* Which bytes of a line are shown.                                          *)
Texts(e, after) == {i \in From(e)..(e - 1) : IsText(i) /\ i > after}

(* They are the line's text.                                                 *)
LEMMA TextLists ==
  ASSUME NEW e \in Nat \ {0}, NEW a \in Nat
  PROVE  Listing(TextOf(e, a), Texts(e, a), e - 1)
<1>1. TextOf(e, a) = InOrder(Texts(e, a), e - 1) /\ e - 1 \in Nat
  BY DEF TextOf, Texts
<1> QED BY <1>1, OrderLists

(* They stand before the line's end.                                         *)
LEMMA TextIn ==
  ASSUME NEW e \in Nat \ {0}, NEW a \in Nat
  PROVE  TextOf(e, a) \in Seq(1..(e - 1))
BY TextLists DEF Listing

(* A byte more: a line feed and a text after a carriage return begin again,  *)
(* a carriage return is no text, and any other follows what was there.       *)
LEMMA TextNext ==
  ASSUME NEW e \in Nat \ {0}, NEW a \in Nat
  PROVE  TextOf(e + 1, a) =
           IF file[e] = "lf" THEN <<>>
           ELSE IF ~IsText(e) THEN TextOf(e, a)
           ELSE IF e > 1 /\ file[e - 1] = "cr" THEN IF e > a THEN <<e>> ELSE <<>>
           ELSE IF e > a THEN Append(TextOf(e, a), e) ELSE TextOf(e, a)
<1> DEFINE S == Texts(e + 1, a)
<1>1. From(e) \in 1..e
  BY FromIs, LineBegins
<1>2. TextOf(e + 1, a) = InOrder(S, e) /\ e - 1 \in Nat /\ (e - 1) + 1 = e
  BY DEF TextOf, Texts
<1>3. InOrder(S, e) = IF e \in S THEN Append(InOrder(S, e - 1), e) ELSE InOrder(S, e - 1)
  BY <1>2, OrderNext
<1>4. CASE file[e] = "lf"
  <2>1. \A k \in 1..e : k \notin S
    BY <1>4, FromNext DEF Texts
  <2>2. InOrder(S, e) = <<>>
    BY <2>1, OrderNone
  <2> QED BY <1>2, <1>4, <2>2
<1>5. CASE file[e] # "lf" /\ e > 1 /\ IsText(e) /\ file[e - 1] = "cr"
  <2>1. From(e + 1) = e
    BY <1>5, FromNext
  <2>2. (\A k \in 1..(e - 1) : k \notin S) /\ (e \in S <=> e > a)
    BY <1>5, <2>1 DEF Texts
  <2>3. InOrder(S, e - 1) = <<>>
    BY <1>2, <2>2, OrderNone
  <2>4. Append(<<>>, e) = <<e>>
    OBVIOUS
  <2>5. TextOf(e + 1, a) = IF e > a THEN <<e>> ELSE <<>>
    BY <1>2, <1>3, <2>2, <2>3, <2>4
  <2> QED BY <1>5, <2>5
<1>6. CASE file[e] # "lf" /\ ~(e > 1 /\ IsText(e) /\ file[e - 1] = "cr")
  <2>1. From(e + 1) = From(e)
    BY <1>6, FromNext
  <2>2. \A k \in 1..(e - 1) : k \in S <=> k \in Texts(e, a)
    BY <2>1 DEF Texts
  <2>3. InOrder(S, e - 1) = TextOf(e, a)
    BY <1>2, <2>2, OrderSame DEF TextOf, Texts
  <2>4. e \in S <=> IsText(e) /\ e > a
    BY <1>1, <2>1 DEF Texts
  <2> QED BY <1>2, <1>3, <1>6, <2>3, <2>4
<1> QED BY <1>4, <1>5, <1>6

(* A line that is shown from after a place has its whole text after it.      *)
LEMMA TextAll ==
  ASSUME NEW e \in Nat \ {0}, NEW a \in Nat, From(e) > a
  PROVE  TextOf(e, 0) = TextOf(e, a)
<1>1. From(e) \in 1..e /\ e - 1 \in Nat
  BY FromIs, LineBegins
<1>2. \A k \in 1..(e - 1) : k \in Texts(e, 0) <=> k \in Texts(e, a)
  BY <1>1 DEF Texts
<1> QED BY <1>1, <1>2, OrderSame DEF TextOf, Texts

(* After a carriage return of the line nothing is shown of it: a text there  *)
(* would have begun it again.                                                *)
LEMMA TextAfterReturn ==
  ASSUME NEW e \in Nat \ {0}, NEW a \in 1..(e - 1), From(e) <= a, file[a] = "cr"
  PROVE  TextOf(e, a) = <<>>
<1>1. /\ Begins(e) \in 1..e /\ From(e) \in Begins(e)..e
      /\ \A i \in Begins(e)..(e - 1) : file[i] # "lf"
      /\ \A i \in Restarts(e) : i <= From(e)
  BY FromIs, LineBegins
<1> DEFINE T == {i \in (a + 1)..(e - 1) : IsText(i)}
<1>2. T = {}
  <2> SUFFICES ASSUME T # {} PROVE FALSE
    OBVIOUS
  <2>1. T \in SUBSET Nat
    OBVIOUS
  <2>2. PICK j \in T : \A m \in T : j <= m
    BY <2>1, LeastIs
  <2>3. j \in (a + 1)..(e - 1) /\ IsText(j) /\ j - 1 \in a..(e - 1) /\ ~(j <= j - 1)
    BY <2>2
  <2>4. file[j - 1] = "cr"
    <3>1. CASE j - 1 = a
      BY <3>1
    <3>2. CASE j - 1 # a
      <4>1. j - 1 \in (a + 1)..(e - 1) /\ j - 1 \notin T
        BY <2>2, <2>3, <3>2
      <4>2. ~IsText(j - 1) /\ j - 1 \in Begins(e)..(e - 1)
        BY <1>1, <4>1
      <4> QED BY <1>1, <4>2 DEF IsText
    <3> QED BY <3>1, <3>2
  <2>5. j \in Restarts(e)
    BY <1>1, <2>3, <2>4 DEF Restarts
  <2> QED BY <1>1, <2>3, <2>5
<1>3. \A k \in 1..(e - 1) : k \notin Texts(e, a)
  BY <1>2 DEF Texts
<1> QED BY <1>3, OrderNone DEF TextOf, Texts

-----------------------------------------------------------------------------
(* The runes in a line.                                                      *)

(* In the file a rune is whole.                                              *)
Spelled == \A i \in DOMAIN file : file[i] = "cont" <=> i > 1 /\ file[i - 1] = "lead"

(* In a line, but for what stands before it and after it.                    *)
Paired(t) == \A k \in 1..(Len(t) - 1) : file[t[k]] = "lead" <=> file[t[k + 1]] = "cont"
Headed(t) == t # <<>> => file[Head(t)] # "cont"
EndsWhole(t)  == t # <<>> => file[Last(t)] # "lead"

(* The shown bytes of a line leave no part of a rune out between two.        *)
LEMMA TextPaired ==
  ASSUME file \in Seq(ByteKinds), Spelled, NEW e \in 1..(Len(file) + 1), NEW a \in Nat
  PROVE  Paired(TextOf(e, a))
<1> DEFINE o == TextOf(e, a)
           S == Texts(e, a)
<1>1. e \in Nat \ {0} /\ Len(file) \in Nat
  OBVIOUS
<1>2. /\ o \in Seq(1..(e - 1))
      /\ \A k \in DOMAIN o : o[k] \in S
      /\ \A k \in 1..(Len(o) - 1) :
           /\ o[k] < o[k + 1]
           /\ \A m \in 1..(e - 1) : m \in S => ~(o[k] < m /\ m < o[k + 1])
  BY <1>1, TextLists DEF Listing
<1> HIDE DEF o
<1>3. ASSUME NEW k \in 1..(Len(o) - 1)
      PROVE  file[o[k]] = "lead" <=> file[o[k + 1]] = "cont"
  <2>1. Len(o) \in Nat /\ DOMAIN o = 1..Len(o)
    BY <1>2
  <2>2. k \in DOMAIN o /\ k + 1 \in DOMAIN o
    BY <2>1
  <2>3. /\ o[k] \in 1..(e - 1) /\ o[k + 1] \in 1..(e - 1) /\ o[k] < o[k + 1]
        /\ o[k] \in S /\ o[k + 1] \in S
    <3>1. o \in Seq(1..(e - 1))
      BY <1>2
    <3>2. o[k] \in 1..(e - 1) /\ o[k + 1] \in 1..(e - 1)
      BY <2>2, <3>1
    <3> QED BY <1>2, <2>2, <3>2
  <2>4. \A m \in 1..(e - 1) : m \in S => ~(o[k] < m /\ m < o[k + 1])
    BY <1>2
  <2>5. \A i \in 1..(e - 1) : i \in DOMAIN file
    BY <1>1
  <2>6. \A m \in 1..(e - 1) :
          o[k] <= m /\ m <= o[k + 1] /\ file[m] \in {"lead", "cont"} => m \in S
    <3>1. From(e) \in 1..e /\ a \in Nat
      BY <1>1, FromIs, LineBegins
    <3> QED BY <2>3, <3>1 DEF Texts, IsText
  <2>7. CASE file[o[k]] = "lead"
    <3>1. o[k] + 1 \in 1..(e - 1) /\ (o[k] + 1) - 1 = o[k] /\ o[k] + 1 > 1
      BY <2>3
    <3>2. file[o[k] + 1] = "cont"
      BY <2>5, <2>7, <3>1 DEF Spelled
    <3>3. o[k] + 1 \in S
      BY <2>3, <2>6, <3>1, <3>2
    <3>4. o[k] + 1 = o[k + 1]
      BY <2>3, <2>4, <3>1, <3>3
    <3> QED BY <2>7, <3>2, <3>4
  <2>8. CASE file[o[k + 1]] = "cont"
    <3>1. o[k + 1] > 1 /\ file[o[k + 1] - 1] = "lead"
      BY <2>3, <2>5, <2>8 DEF Spelled
    <3>2. o[k + 1] - 1 \in 1..(e - 1) /\ o[k] <= o[k + 1] - 1
      BY <2>3, <3>1
    <3>3. o[k + 1] - 1 \in S
      BY <2>3, <2>6, <3>1, <3>2
    <3>4. o[k] = o[k + 1] - 1
      BY <2>3, <2>4, <3>2, <3>3
    <3> QED BY <2>8, <3>1, <3>4
  <2> QED BY <2>7, <2>8
<1> QED BY <1>3 DEF Paired, o

(* A line that is shown from its beginning, or its restart, does not begin   *)
(* inside a rune.                                                            *)
LEMMA TextHeaded ==
  ASSUME file \in Seq(ByteKinds), Spelled, NEW e \in 1..(Len(file) + 1)
  PROVE  Headed(TextOf(e, 0))
<1> DEFINE o == TextOf(e, 0)
           S == Texts(e, 0)
<1>1. e \in Nat \ {0} /\ Len(file) \in Nat
  OBVIOUS
<1>2. /\ o \in Seq(1..(e - 1))
      /\ \A k \in DOMAIN o : o[k] \in S
      /\ \A m \in 1..(e - 1) : m \in S => o[1] <= m
  BY <1>1, TextLists DEF Listing
<1> HIDE DEF o
<1> SUFFICES ASSUME o # <<>>, file[Head(o)] = "cont" PROVE FALSE
  BY DEF Headed, o
<1>3. Head(o) = o[1] /\ 1 \in DOMAIN o
  BY <1>2
<1>4. o[1] \in 1..(e - 1) /\ o[1] \in S
  BY <1>2, <1>3
<1>5. /\ From(e) \in Begins(e)..e /\ From(e) \in Restarts(e) \cup {Begins(e)}
      /\ Begins(e) \in 1..e /\ (Begins(e) = 1 \/ file[Begins(e) - 1] = "lf")
  BY <1>1, FromIs, LineBegins
<1>6. o[1] \in DOMAIN file /\ o[1] > 1 /\ file[o[1] - 1] = "lead"
  BY <1>1, <1>3, <1>4 DEF Spelled
<1>7. CASE o[1] = From(e)
  <2>1. file[o[1] - 1] \in {"lf", "cr"}
    BY <1>5, <1>6, <1>7 DEF Restarts
  <2> QED BY <1>6, <2>1
<1>8. CASE o[1] # From(e)
  <2>1. o[1] - 1 \in From(e)..(e - 1) /\ o[1] - 1 \in 1..(e - 1)
    BY <1>4, <1>5, <1>6, <1>8 DEF Texts
  <2>2. o[1] - 1 \in S
    BY <1>6, <2>1 DEF Texts, IsText
  <2> QED BY <1>2, <1>4, <2>1, <2>2
<1> QED BY <1>7, <1>8

(* A line that has ended does not end inside a rune.                         *)
LEMMA TextEnded ==
  ASSUME file \in Seq(ByteKinds), Spelled, NEW e \in 1..Len(file), file[e] = "lf",
         NEW a \in Nat
  PROVE  EndsWhole(TextOf(e, a))
<1> DEFINE o == TextOf(e, a)
           S == Texts(e, a)
<1>1. e \in Nat \ {0} /\ Len(file) \in Nat
  OBVIOUS
<1>2. /\ o \in Seq(1..(e - 1))
      /\ \A k \in DOMAIN o : o[k] \in S
      /\ \A m \in 1..(e - 1) : m \in S => m <= o[Len(o)]
  BY <1>1, TextLists DEF Listing
<1> HIDE DEF o
<1> SUFFICES ASSUME o # <<>>, file[Last(o)] = "lead" PROVE FALSE
  BY DEF EndsWhole, o
<1>3. Last(o) = o[Len(o)] /\ Len(o) \in DOMAIN o
  BY <1>2 DEF Last
<1> DEFINE i == o[Len(o)]
<1>4. i \in 1..(e - 1) /\ i \in S
  BY <1>2, <1>3
<1> HIDE DEF i
<1>5. i + 1 \in DOMAIN file /\ i + 1 > 1 /\ (i + 1) - 1 = i /\ file[i] = "lead"
  BY <1>1, <1>3, <1>4 DEF i
<1>6. file[i + 1] = "cont"
  BY <1>5 DEF Spelled
<1>7. i + 1 # e
  BY <1>6
<1>8. i + 1 \in 1..(e - 1) /\ i + 1 \in S
  <2>1. From(e) \in 1..e
    BY <1>1, FromIs, LineBegins
  <2> QED BY <1>4, <1>6, <1>7, <2>1 DEF Texts, IsText
<1>9. i + 1 <= i
  BY <1>2, <1>8 DEF i
<1> QED BY <1>4, <1>9

(* A line that is cut is cut short, between two runes, and never to nothing. *)
LEMMA CappedIs ==
  ASSUME NEW n \in Nat, NEW t \in Seq(1..n), NEW room \in Nat, room > 1
  PROVE  \E m \in 0..Len(t) :
           /\ Capped(t, room) = SubSeq(t, 1, m)
           /\ m <= room /\ (t # <<>> => m > 0)
           /\ IF Len(t) <= room THEN m = Len(t) ELSE Paired(t) => file[t[m]] # "lead"
<1>1. Len(t) \in Nat /\ (t # <<>> => Len(t) > 0)
  OBVIOUS
<1>2. CASE Len(t) <= room
  <2>1. Capped(t, room) = SubSeq(t, 1, Len(t))
    BY <1>2 DEF Capped
  <2> QED BY <1>1, <1>2, <2>1
<1>3. CASE Len(t) > room
  <2> DEFINE s == SubSeq(t, 1, room)
  <2>1. /\ s \in Seq(1..n) /\ Len(s) = room /\ s # <<>> /\ s[room] = t[room]
    BY <1>1, <1>3
  <2>2. Last(s) = t[room]
    BY <2>1 DEF Last
  <2>3. Front(s) = SubSeq(t, 1, room - 1)
    <3>1. Front(s) = SubSeq(s, 1, room - 1)
      BY <2>1 DEF Front
    <3> QED BY <1>1, <1>3, <3>1
  <2>4. Capped(t, room) =
          IF file[t[room]] = "lead" THEN SubSeq(t, 1, room - 1) ELSE SubSeq(t, 1, room)
    <3>1. Capped(t, room) = TrimIncompleteRune(s)
      BY <1>1, <1>3 DEF Capped
    <3> HIDE DEF s
    <3>2. TrimIncompleteRune(s) = IF file[t[room]] = "lead" THEN Front(s) ELSE s
      BY <2>1, <2>2 DEF TrimIncompleteRune
    <3> QED BY <2>3, <3>1, <3>2 DEF s
  <2>5. CASE file[t[room]] = "lead"
    <3>1. room - 1 \in 0..Len(t) /\ room - 1 \in 1..(Len(t) - 1) /\ (room - 1) + 1 = room
      BY <1>1, <1>3
    <3>2. Paired(t) => file[t[room - 1]] # "lead"
      BY <2>5, <3>1 DEF Paired
    <3> QED BY <1>3, <2>4, <2>5, <3>1, <3>2
  <2>6. CASE file[t[room]] # "lead"
    <3>1. room \in 0..Len(t) /\ room > 0
      BY <1>1, <1>3
    <3> QED BY <1>3, <2>4, <2>6, <3>1
  <2> QED BY <2>5, <2>6
<1> QED BY <1>1, <1>2, <1>3

(* A rune that a window cut goes, and what is left does not begin in one.    *)
LEMMA TrimCutIs ==
  ASSUME NEW n \in Nat, NEW t \in Seq(1..n)
  PROVE  /\ TrimCut(t) \in Seq(1..n) /\ Len(TrimCut(t)) <= Len(t)
         /\ Paired(t) => Paired(TrimCut(t)) /\ Headed(TrimCut(t))
         /\ EndsWhole(t) => EndsWhole(TrimCut(t))
<1>1. CASE TrimCut(t) = t
  <2>1. Headed(t)
    <3>1. t # <<>> /\ file[Head(t)] = "cont" => Len(Tail(t)) # Len(t)
      OBVIOUS
    <3> QED BY <1>1, <3>1 DEF TrimCut, Headed
  <2> QED BY <1>1, <2>1
<1>2. CASE TrimCut(t) # t
  <2> DEFINE r == Tail(t)
  <2>1. t # <<>> /\ file[Head(t)] = "cont" /\ TrimCut(t) = r
    BY <1>2 DEF TrimCut
  <2>2. /\ r \in Seq(1..n) /\ Len(t) \in Nat \ {0} /\ Len(r) = Len(t) - 1
        /\ \A k \in 1..Len(r) : r[k] = t[k + 1]
        /\ Head(t) = t[1]
    BY <2>1
  <2> HIDE DEF r
  <2>3. Paired(t) => Paired(r)
    <3> SUFFICES ASSUME Paired(t), NEW k \in 1..(Len(r) - 1)
                 PROVE  file[r[k]] = "lead" <=> file[r[k + 1]] = "cont"
      BY DEF Paired
    <3>1. k \in 1..Len(r) /\ k + 1 \in 1..Len(r) /\ k + 1 \in 1..(Len(t) - 1)
      BY <2>2
    <3>2. file[t[k + 1]] = "lead" <=> file[t[(k + 1) + 1]] = "cont"
      BY <3>1 DEF Paired
    <3>3. r[k] = t[k + 1] /\ r[k + 1] = t[(k + 1) + 1]
      BY <2>2, <3>1
    <3> QED BY <3>2, <3>3
  <2>4. Paired(t) => Headed(r)
    <3> SUFFICES ASSUME Paired(t), r # <<>> PROVE file[Head(r)] # "cont"
      BY DEF Headed
    <3>1. Head(r) = r[1] /\ 1 \in 1..Len(r) /\ 1 \in 1..(Len(t) - 1)
      BY <2>2
    <3>2. r[1] = t[1 + 1]
      BY <2>2, <3>1
    <3>3. file[t[1]] = "lead" <=> file[t[1 + 1]] = "cont"
      BY <3>1 DEF Paired
    <3> QED BY <2>1, <2>2, <3>1, <3>2, <3>3
  <2>5. EndsWhole(t) => EndsWhole(r)
    <3> SUFFICES ASSUME EndsWhole(t), r # <<>> PROVE file[Last(r)] # "lead"
      BY DEF EndsWhole
    <3>1. Len(r) \in 1..Len(r) /\ Len(r) + 1 = Len(t)
      BY <2>2
    <3>2. Last(r) = Last(t)
      BY <2>2, <3>1 DEF Last
    <3> QED BY <2>1, <3>2 DEF EndsWhole
  <2> QED BY <2>1, <2>2, <2>3, <2>4, <2>5
<1> QED BY <1>1, <1>2

(* What is left of a line that is cut begins and ends as it did, or between  *)
(* two runes.                                                                *)
LEMMA CappedRunes ==
  ASSUME NEW n \in Nat, NEW t \in Seq(1..n), NEW room \in Nat, room > 1
  PROVE  /\ Capped(t, room) \in Seq(1..n)
         /\ Len(Capped(t, room)) <= room /\ Len(Capped(t, room)) <= Len(t)
         /\ Paired(t) => Paired(Capped(t, room))
         /\ Headed(t) => Headed(Capped(t, room))
         /\ Paired(t) /\ EndsWhole(t) => EndsWhole(Capped(t, room))
         /\ ShowsNothing(t) => ShowsNothing(Capped(t, room))
<1>1. PICK m \in 0..Len(t) :
        /\ Capped(t, room) = SubSeq(t, 1, m)
        /\ m <= room /\ (t # <<>> => m > 0)
        /\ IF Len(t) <= room THEN m = Len(t) ELSE Paired(t) => file[t[m]] # "lead"
  BY CappedIs
<1> DEFINE r == SubSeq(t, 1, m)
<1>2. /\ r \in Seq(1..n) /\ Len(r) = m /\ Len(t) \in Nat /\ m \in Nat
      /\ \A k \in 1..m : r[k] = t[k]
      /\ DOMAIN r = 1..m /\ DOMAIN t = 1..Len(t)
  BY <1>1
<1>3. Capped(t, room) = r
  BY <1>1
<1> HIDE DEF r
<1>4. Paired(t) => Paired(r)
  BY <1>2 DEF Paired
<1>5. Headed(t) => Headed(r)
  <2> SUFFICES ASSUME Headed(t), r # <<>> PROVE file[Head(r)] # "cont"
    BY DEF Headed
  <2>1. m # 0 /\ t # <<>> /\ Head(r) = r[1] /\ Head(t) = t[1] /\ 1 \in 1..m
    BY <1>2
  <2> QED BY <1>2, <2>1 DEF Headed
<1>6. Paired(t) /\ EndsWhole(t) => EndsWhole(r)
  <2> SUFFICES ASSUME Paired(t), EndsWhole(t), r # <<>> PROVE file[Last(r)] # "lead"
    BY DEF EndsWhole
  <2>1. m # 0 /\ t # <<>> /\ m \in 1..m
    BY <1>2
  <2>2. Last(r) = t[m]
    BY <1>2, <2>1 DEF Last
  <2>3. m = Len(t) => file[t[m]] # "lead"
    BY <2>1 DEF EndsWhole, Last
  <2> QED BY <1>1, <2>2, <2>3
<1>7. ShowsNothing(t) => ShowsNothing(r)
  BY <1>2 DEF ShowsNothing
<1>8. m <= room /\ m <= Len(t)
  <2>1. m <= room
    BY <1>1, Zenon
  <2>2. m \in 0..Len(t)
    OBVIOUS
  <2> QED BY <1>2, <2>1, <2>2
<1> QED BY <1>2, <1>3, <1>4, <1>5, <1>6, <1>7, <1>8

-----------------------------------------------------------------------------
(* The lines a log can know, and the last of them.                           *)

LinesTo(n) == [mark : BOOLEAN, bytes : Seq(1..n)]

(* What can be known of a line: bytes that stand before its end, ...         *)
LEMMA KnownIs ==
  ASSUME NEW e \in Nat \ {0}, NEW g \in Nat
  PROVE  /\ Known(e, g) \in LinesTo(e - 1)
         /\ From(e) > g => Known(e, g) = ShownLine(FALSE, Capped(TextOf(e, 0), LineCap))
<1>1. TextOf(e, 0) \in Seq(1..(e - 1)) /\ TextOf(e, g) \in Seq(1..(e - 1)) /\ e - 1 \in Nat
  <2>1. 0 \in Nat /\ e - 1 \in Nat
    OBVIOUS
  <2> QED BY <2>1, TextIn
<1>2. LineCap \in Nat /\ LineCap > 1 /\ LineCap - Marker \in Nat /\ LineCap - Marker > 1
  BY LogAssumption
<1>3. Capped(TextOf(e, 0), LineCap) \in Seq(1..(e - 1))
  BY <1>1, <1>2, CappedRunes
<1>4. Capped(TextOf(e, g), LineCap) \in Seq(1..(e - 1))
  BY <1>1, <1>2, CappedRunes
<1> DEFINE rest == TrimCut(Capped(TextOf(e, g), LineCap))
<1>5. rest \in Seq(1..(e - 1))
  BY <1>1, <1>4, TrimCutIs
<1>6. Known(e, g) = IF From(e) > g \/ TextOf(e, 0) = <<>>
                    THEN ShownLine(FALSE, Capped(TextOf(e, 0), LineCap))
                    ELSE ShownLine(~ShowsNothing(rest), Capped(rest, LineCap - Marker))
  BY DEF Known
<1> HIDE DEF rest
<1>7. Capped(rest, LineCap - Marker) \in Seq(1..(e - 1))
  BY <1>1, <1>2, <1>5, CappedRunes
<1>8. ShowsNothing(rest) \in BOOLEAN
  BY DEF ShowsNothing
<1> QED BY <1>3, <1>6, <1>7, <1>8 DEF ShownLine, LinesTo

(* ... whole runes, once the line has ended.                                 *)
LEMMA KnownRunes ==
  ASSUME file \in Seq(ByteKinds), Spelled, NEW e \in 1..Len(file), file[e] = "lf",
         NEW g \in Nat
  PROVE  Headed(Known(e, g).bytes) /\ EndsWhole(Known(e, g).bytes)
<1>0. e \in Nat \ {0} /\ e \in 1..(Len(file) + 1) /\ 0 \in Nat
  OBVIOUS
<1>1. TextOf(e, 0) \in Seq(1..(e - 1)) /\ TextOf(e, g) \in Seq(1..(e - 1)) /\ e - 1 \in Nat
  <2>1. e - 1 \in Nat
    BY <1>0
  <2> QED BY <1>0, <2>1, TextIn
<1>2. LineCap \in Nat /\ LineCap > 1 /\ LineCap - Marker \in Nat /\ LineCap - Marker > 1
  BY LogAssumption
<1>3. Paired(TextOf(e, 0)) /\ Headed(TextOf(e, 0)) /\ EndsWhole(TextOf(e, 0))
  BY <1>0, TextPaired, TextHeaded, TextEnded
<1>4. Paired(TextOf(e, g)) /\ EndsWhole(TextOf(e, g))
  BY <1>0, TextPaired, TextEnded
<1> DEFINE all == Capped(TextOf(e, 0), LineCap)
           new == Capped(TextOf(e, g), LineCap)
<1>5. Headed(all) /\ EndsWhole(all)
  BY <1>1, <1>2, <1>3, CappedRunes
<1>6. new \in Seq(1..(e - 1)) /\ Paired(new) /\ EndsWhole(new)
  BY <1>1, <1>2, <1>4, CappedRunes
<1> HIDE DEF new, all
<1>7. /\ TrimCut(new) \in Seq(1..(e - 1)) /\ Paired(TrimCut(new))
      /\ Headed(TrimCut(new)) /\ EndsWhole(TrimCut(new))
  BY <1>1, <1>6, TrimCutIs
<1> DEFINE rest == TrimCut(new)
<1> HIDE DEF rest
<1>8. rest \in Seq(1..(e - 1)) /\ Paired(rest) /\ Headed(rest) /\ EndsWhole(rest)
  BY <1>7 DEF rest
<1>9. Headed(Capped(rest, LineCap - Marker)) /\ EndsWhole(Capped(rest, LineCap - Marker))
  BY <1>1, <1>2, <1>8, CappedRunes
<1>10. Known(e, g).bytes = IF From(e) > g \/ TextOf(e, 0) = <<>> THEN all
                           ELSE Capped(rest, LineCap - Marker)
  BY DEF Known, ShownLine, all, new, rest
<1> QED BY <1>5, <1>9, <1>10

(* The lines that have ended by i after g and are not blank, in their order. *)
ShownEnds(i, g) ==
  {e \in 1..i : file[e] = "lf" /\ e > g /\ ~ShowsNothing(Known(e, g).bytes)}
Knowns(i, g) == [e \in 1..i |-> Known(e, g)]
EndsOf(i, g) == InOrder(ShownEnds(i, g), i)
ListOf(i, g) == [k \in DOMAIN EndsOf(i, g) |-> Knowns(i, g)[EndsOf(i, g)[k]]]

(* Places up to a place are places up to a later one.                        *)
LEMMA PlacesWiden ==
  ASSUME NEW m \in Nat, NEW n \in Nat, m <= n, NEW s \in Seq(1..m)
  PROVE  s \in Seq(1..n)
<1>1. \A k \in 1..Len(s) : s[k] \in 1..n
  OBVIOUS
<1> QED BY <1>1

(* They are lines.                                                           *)
LEMMA ListIs ==
  ASSUME NEW i \in Nat, NEW g \in Nat
  PROVE  /\ Listing(EndsOf(i, g), ShownEnds(i, g), i)
         /\ Len(ListOf(i, g)) = Len(EndsOf(i, g))
         /\ \A k \in 1..Len(EndsOf(i, g)) :
              EndsOf(i, g)[k] \in 1..i /\ ListOf(i, g)[k] = Known(EndsOf(i, g)[k], g)
         /\ ListOf(i, g) \in Seq(LinesTo(i))
<1> DEFINE o == EndsOf(i, g)
<1>1. Listing(o, ShownEnds(i, g), i)
  BY OrderLists DEF EndsOf
<1>2. o \in Seq(1..i) /\ Len(o) \in Nat /\ DOMAIN o = 1..Len(o)
  BY <1>1 DEF Listing
<1>3. ListOf(i, g) = [k \in 1..Len(o) |-> Knowns(i, g)[o[k]]]
  BY <1>2 DEF ListOf
<1> HIDE DEF o
<1>4. ASSUME NEW k \in 1..Len(o)
      PROVE  o[k] \in 1..i /\ Knowns(i, g)[o[k]] = Known(o[k], g) /\ Known(o[k], g) \in LinesTo(i)
  <2>1. o[k] \in 1..i
    BY <1>2
  <2>2. Known(o[k], g) \in LinesTo(o[k] - 1)
    <3>1. o[k] \in Nat \ {0}
      BY <2>1
    <3> QED BY <3>1, KnownIs
  <2>3. o[k] - 1 \in Nat /\ o[k] - 1 <= i
    BY <2>1
  <2>4. \A s \in Seq(1..(o[k] - 1)) : s \in Seq(1..i)
    BY <2>3, PlacesWiden
  <2> QED BY <2>1, <2>2, <2>4 DEF Knowns, LinesTo
<1>5. \A k \in 1..Len(o) : Knowns(i, g)[o[k]] \in LinesTo(i)
  BY <1>4
<1>6. ListOf(i, g) \in Seq(LinesTo(i)) /\ Len(ListOf(i, g)) = Len(o)
  BY <1>2, <1>3, <1>5
<1> QED BY <1>1, <1>3, <1>4, <1>6 DEF o

(* A line that ends at the next byte follows the others.                     *)
LEMMA ListNext ==
  ASSUME NEW i \in Nat, NEW g \in Nat
  PROVE  ListOf(i + 1, g) =
           IF file[i + 1] = "lf" /\ i + 1 > g /\ ~ShowsNothing(Known(i + 1, g).bytes)
           THEN Append(ListOf(i, g), Known(i + 1, g)) ELSE ListOf(i, g)
<1> DEFINE o == EndsOf(i, g)
           r == EndsOf(i + 1, g)
<1>1. \A k \in 1..i : k \in ShownEnds(i + 1, g) <=> k \in ShownEnds(i, g)
  BY DEF ShownEnds
<1>2. r = IF i + 1 \in ShownEnds(i + 1, g) THEN Append(o, i + 1) ELSE o
  BY <1>1, OrderNext, OrderSame DEF EndsOf
<1>3. i + 1 \in ShownEnds(i + 1, g) <=>
        file[i + 1] = "lf" /\ i + 1 > g /\ ~ShowsNothing(Known(i + 1, g).bytes)
  BY DEF ShownEnds
<1>4. /\ o \in Seq(1..i) /\ Len(ListOf(i, g)) = Len(o) /\ ListOf(i, g) \in Seq(LinesTo(i))
      /\ \A k \in 1..Len(o) : o[k] \in 1..i /\ ListOf(i, g)[k] = Known(o[k], g)
  <2>1. o \in Seq(1..i)
    BY ListIs DEF Listing
  <2> QED BY <2>1, ListIs
<1>5. /\ i + 1 \in Nat /\ Len(ListOf(i + 1, g)) = Len(r)
      /\ ListOf(i + 1, g) \in Seq(LinesTo(i + 1))
      /\ \A k \in 1..Len(r) : ListOf(i + 1, g)[k] = Known(r[k], g)
  <2>1. i + 1 \in Nat
    OBVIOUS
  <2> QED BY <2>1, ListIs
<1> DEFINE p == ListOf(i, g)
           q == ListOf(i + 1, g)
<1> HIDE DEF o, r, p, q
<1>6. CASE i + 1 \in ShownEnds(i + 1, g)
  <2>1. /\ Len(o) \in Nat /\ Len(r) = Len(o) + 1 /\ r[Len(o) + 1] = i + 1
        /\ \A k \in 1..Len(o) : r[k] = o[k]
    BY <1>2, <1>4, <1>6
  <2>2. q = Append(p, Known(i + 1, g))
    <3> DEFINE s == Append(p, Known(i + 1, g))
    <3>1. /\ s = [k \in 1..(Len(o) + 1) |-> s[k]]
          /\ \A k \in 1..Len(o) : s[k] = p[k]
          /\ s[Len(o) + 1] = Known(i + 1, g)
      BY <1>4, <2>1 DEF p
    <3>2. q = [k \in 1..(Len(o) + 1) |-> q[k]]
      BY <1>5, <2>1 DEF q
    <3>3. \A k \in 1..Len(o) : q[k] = p[k]
      BY <1>4, <1>5, <2>1 DEF p, q
    <3>4. q[Len(o) + 1] = Known(i + 1, g)
      BY <1>5, <2>1 DEF q
    <3> HIDE DEF s
    <3>5. \A k \in 1..(Len(o) + 1) : q[k] = s[k]
      <4> TAKE k \in 1..(Len(o) + 1)
      <4>1. k = Len(o) + 1 \/ k \in 1..Len(o)
        BY <2>1
      <4> QED BY <3>1, <3>3, <3>4, <4>1
    <3> QED BY <3>1, <3>2, <3>5 DEF s
  <2> QED BY <1>3, <1>6, <2>2 DEF p, q
<1>7. CASE i + 1 \notin ShownEnds(i + 1, g)
  <2>1. r = o
    BY <1>2, <1>7
  <2>2. \A k \in 1..Len(o) : q[k] = p[k]
    BY <1>4, <1>5, <2>1 DEF p, q
  <2>3. q = [k \in 1..Len(o) |-> q[k]] /\ p = [k \in 1..Len(o) |-> p[k]]
    BY <1>4, <1>5, <2>1 DEF p, q
  <2>4. q = p
    BY <2>2, <2>3
  <2> QED BY <1>3, <1>7, <2>4 DEF p, q
<1> QED BY <1>6, <1>7

(* Where the window begins there is none yet.                                *)
LEMMA ListFirst ==
  ASSUME NEW g \in Nat
  PROVE  ListOf(g, g) = <<>>
<1>1. \A k \in 1..g : k \notin ShownEnds(g, g)
  BY DEF ShownEnds
<1>2. EndsOf(g, g) = <<>>
  BY <1>1, OrderNone DEF EndsOf
<1>3. Len(ListOf(g, g)) = 0 /\ ListOf(g, g) \in Seq(LinesTo(g))
  BY <1>2, ListIs
<1> QED BY <1>3

(* The last lines, no more than the tail has.                                *)
LEMMA LastOfIs ==
  ASSUME NEW X, NEW s \in Seq(X)
  PROVE  /\ LastOf(s) \in Seq(X)
         /\ Len(LastOf(s)) = IF Len(s) <= TailLines THEN Len(s) ELSE TailLines
         /\ Len(LastOf(s)) <= Len(s) /\ Len(LastOf(s)) <= TailLines
         /\ \A k \in 1..Len(LastOf(s)) : LastOf(s)[k] = s[Len(s) - Len(LastOf(s)) + k]
<1>1. TailLines \in Nat \ {0} /\ Len(s) \in Nat
  BY LogAssumption
<1> DEFINE m == IF Len(s) <= TailLines THEN Len(s) ELSE TailLines
<1>2. Min({Len(s), TailLines}) = m /\ m \in 0..Len(s) /\ m <= TailLines
  BY <1>1, MinOf
<1> HIDE DEF m
<1>3. LastOf(s) = SubSeq(s, Len(s) - m + 1, Len(s))
  BY <1>2 DEF LastOf
<1>4. /\ LastOf(s) \in Seq(X) /\ Len(LastOf(s)) = m
      /\ \A k \in 1..m : LastOf(s)[k] = s[Len(s) - m + k]
  BY <1>1, <1>2, <1>3
<1> QED BY <1>1, <1>2, <1>4 DEF m

(* The last lines after one more, of which only the last were kept.          *)
LEMMA LastOfAppend ==
  ASSUME NEW X, NEW s \in Seq(X), NEW x \in X
  PROVE  LastOf(Append(LastOf(s), x)) = LastOf(Append(s, x))
<1> DEFINE t == LastOf(s)
           p == Append(t, x)
           q == Append(s, x)
<1>1. TailLines \in Nat \ {0} /\ Len(s) \in Nat
  BY LogAssumption
<1>2. /\ t \in Seq(X) /\ Len(t) \in Nat
      /\ Len(t) = IF Len(s) <= TailLines THEN Len(s) ELSE TailLines
      /\ \A k \in 1..Len(t) : t[k] = s[Len(s) - Len(t) + k]
  BY LastOfIs
<1> HIDE DEF t
<1>3. /\ p \in Seq(X) /\ Len(p) = Len(t) + 1 /\ p[Len(t) + 1] = x
      /\ \A k \in 1..Len(t) : p[k] = t[k]
  BY <1>2
<1>4. /\ q \in Seq(X) /\ Len(q) = Len(s) + 1 /\ q[Len(s) + 1] = x
      /\ \A k \in 1..Len(s) : q[k] = s[k]
  BY <1>1
<1> HIDE DEF p, q
<1>5. \A k \in 1..Len(p) : p[k] = q[Len(q) - Len(p) + k]
  <2> TAKE k \in 1..Len(p)
  <2>1. CASE k = Len(t) + 1
    <3>1. Len(q) - Len(p) + k = Len(s) + 1
      <4>1. Len(t) \in Nat /\ Len(s) \in Nat
        BY <1>1, <1>2
      <4>2. Len(p) = Len(t) + 1 /\ Len(q) = Len(s) + 1
        BY <1>3, <1>4
      <4> QED BY <2>1, <4>1, <4>2
    <3> QED BY <1>3, <1>4, <2>1, <3>1
  <2>2. CASE k # Len(t) + 1
    <3>1. k \in 1..Len(t) /\ Len(s) - Len(t) + k \in 1..Len(s)
      BY <1>1, <1>2, <1>3, <2>2
    <3>2. p[k] = s[Len(s) - Len(t) + k]
      BY <1>2, <1>3, <3>1
    <3>3. Len(q) - Len(p) + k = Len(s) - Len(t) + k
      BY <1>1, <1>2, <1>3, <1>4
    <3> QED BY <1>4, <3>1, <3>2, <3>3
  <2> QED BY <2>1, <2>2
<1>6. /\ LastOf(p) \in Seq(X) /\ Len(LastOf(p)) <= Len(p)
      /\ Len(LastOf(p)) = IF Len(p) <= TailLines THEN Len(p) ELSE TailLines
      /\ \A k \in 1..Len(LastOf(p)) : LastOf(p)[k] = p[Len(p) - Len(LastOf(p)) + k]
  BY <1>3, LastOfIs
<1>7. /\ LastOf(q) \in Seq(X)
      /\ Len(LastOf(q)) = IF Len(q) <= TailLines THEN Len(q) ELSE TailLines
      /\ \A k \in 1..Len(LastOf(q)) : LastOf(q)[k] = q[Len(q) - Len(LastOf(q)) + k]
  BY <1>4, LastOfIs
<1>8. Len(LastOf(p)) = Len(LastOf(q))
  BY <1>1, <1>2, <1>3, <1>4, <1>6, <1>7
<1>9. ASSUME NEW k \in 1..Len(LastOf(p)) PROVE LastOf(p)[k] = LastOf(q)[k]
  <2> DEFINE j == Len(p) - Len(LastOf(p)) + k
  <2>1. j \in 1..Len(p) /\ Len(q) - Len(p) + j = Len(q) - Len(LastOf(q)) + k
    <3>1. Len(p) \in Nat /\ Len(q) \in Nat /\ Len(LastOf(p)) \in Nat
      BY <1>2, <1>3, <1>4, <1>6
    <3>2. k \in 1..Len(LastOf(p)) /\ Len(LastOf(p)) <= Len(p)
      BY <1>6
    <3> QED BY <1>8, <3>1, <3>2
  <2>2. p[j] = q[Len(q) - Len(p) + j]
    BY <1>5, <2>1
  <2>3. LastOf(p)[k] = p[j]
    BY <1>6
  <2>4. LastOf(q)[k] = q[Len(q) - Len(LastOf(q)) + k]
    BY <1>7, <1>8
  <2> QED BY <2>1, <2>2, <2>3, <2>4
<1>10. LastOf(p) = LastOf(q)
  BY <1>6, <1>7, <1>8, <1>9
<1> QED BY <1>10 DEF p, q, t

(* The last of the last lines are the same.                                  *)
LEMMA LastOfLast ==
  ASSUME NEW X, NEW s \in Seq(X)
  PROVE  LastOf(LastOf(s)) = LastOf(s)
<1> DEFINE t == LastOf(s)
<1>1. TailLines \in Nat \ {0} /\ Len(s) \in Nat
  BY LogAssumption
<1>2. t \in Seq(X) /\ Len(t) <= TailLines
  BY LastOfIs
<1> HIDE DEF t
<1>3. /\ LastOf(t) \in Seq(X) /\ Len(LastOf(t)) = Len(t)
      /\ \A k \in 1..Len(LastOf(t)) : LastOf(t)[k] = t[Len(t) - Len(LastOf(t)) + k]
  BY <1>2, LastOfIs
<1>4. Len(t) \in Nat /\ \A k \in 1..Len(t) : LastOf(t)[k] = t[k]
  BY <1>2, <1>3
<1>5. LastOf(t) = t
  BY <1>2, <1>3, <1>4
<1> QED BY <1>5 DEF t

-----------------------------------------------------------------------------
(* The file only grows.                                                      *)

(* What it had it still has.                                                 *)
Grown ==
  /\ file \in Seq(ByteKinds) /\ file' \in Seq(ByteKinds) /\ Len(file) <= Len(file')
  /\ \A i \in 1..Len(file) : file'[i] = file[i]

(* A line up to the end of what there was is shown from where it was, ...    *)
LEMMA FromStays ==
  ASSUME Grown, NEW e \in 1..(Len(file) + 1)
  PROVE  From(e)' = From(e)
<1>1. e \in Nat \ {0} /\ Len(file) \in Nat
  BY DEF Grown
<1>2. {b \in 1..e : b = 1 \/ file'[b - 1] = "lf"} = {b \in 1..e : b = 1 \/ file[b - 1] = "lf"}
  BY <1>1 DEF Grown
<1>3. Begins(e)' = Begins(e) /\ Begins(e) \in 1..e
  BY <1>1, <1>2, LineBegins DEF Begins
<1>4. Restarts(e)' = Restarts(e)
  <2>1. \A i \in (Begins(e) + 1)..(e - 1) : file'[i] = file[i] /\ file'[i - 1] = file[i - 1]
    BY <1>1, <1>3 DEF Grown
  <2> QED BY <1>3, <2>1 DEF Restarts, IsText
<1> QED BY <1>3, <1>4 DEF From

(* ... has the text it had, ...                                              *)
LEMMA TextStays ==
  ASSUME Grown, NEW e \in 1..(Len(file) + 1), NEW a \in Nat
  PROVE  TextOf(e, a)' = TextOf(e, a)
<1>1. e \in Nat \ {0} /\ Len(file) \in Nat
  BY DEF Grown
<1>2. From(e)' = From(e) /\ From(e) \in 1..e
  BY <1>1, FromStays, FromIs, LineBegins
<1>3. {i \in From(e)'..(e - 1) : IsText(i)' /\ i > a} = {i \in From(e)..(e - 1) : IsText(i) /\ i > a}
  BY <1>1, <1>2 DEF Grown, IsText
<1> QED BY <1>3 DEF TextOf

(* A line that stays is cut where it was, ...                                *)
LEMMA CappedStays ==
  ASSUME Grown, NEW t \in Seq(1..Len(file)), NEW room \in Nat
  PROVE  Capped(t, room)' = Capped(t, room)
<1>1. CASE Len(t) <= room
  BY <1>1 DEF Capped
<1>2. CASE Len(t) > room
  <2> DEFINE s == SubSeq(t, 1, room)
  <2>1. s \in Seq(1..Len(file))
    BY <1>2
  <2>2. Capped(t, room)' = TrimIncompleteRune(s)' /\ Capped(t, room) = TrimIncompleteRune(s)
    BY <1>2 DEF Capped
  <2> HIDE DEF s
  <2>3. s # <<>> => Last(s) \in 1..Len(file)
    BY <2>1 DEF Last
  <2>4. TrimIncompleteRune(s)' = TrimIncompleteRune(s)
    BY <2>1, <2>3 DEF Grown, TrimIncompleteRune
  <2> QED BY <2>2, <2>4
<1> QED BY <1>1, <1>2

(* ... loses the rune that it lost, ...                                      *)
LEMMA TrimCutStays ==
  ASSUME Grown, NEW t \in Seq(1..Len(file))
  PROVE  TrimCut(t)' = TrimCut(t)
<1>1. t # <<>> => Head(t) \in 1..Len(file)
  OBVIOUS
<1> QED BY <1>1 DEF Grown, TrimCut

(* ... and shows something if it did.                                        *)
LEMMA ShowsStays ==
  ASSUME Grown, NEW t \in Seq(1..Len(file))
  PROVE  ShowsNothing(t)' <=> ShowsNothing(t)
<1>1. \A k \in DOMAIN t : t[k] \in 1..Len(file)
  OBVIOUS
<1> QED BY <1>1 DEF Grown, ShowsNothing

(* ... and what is known of it stays what it was.                            *)
LEMMA KnownStays ==
  ASSUME Grown, NEW e \in 1..(Len(file) + 1), NEW g \in Nat
  PROVE  Known(e, g)' = Known(e, g)
<1>1. e \in Nat \ {0} /\ Len(file) \in Nat /\ 0 \in Nat /\ e - 1 \in Nat /\ e - 1 <= Len(file)
  BY DEF Grown
<1>2. LineCap \in Nat /\ LineCap > 1 /\ LineCap - Marker \in Nat /\ LineCap - Marker > 1
  BY LogAssumption
<1>3. From(e)' = From(e) /\ TextOf(e, 0)' = TextOf(e, 0) /\ TextOf(e, g)' = TextOf(e, g)
  BY <1>1, FromStays, TextStays
<1>4. TextOf(e, 0) \in Seq(1..Len(file)) /\ TextOf(e, g) \in Seq(1..Len(file))
  <2>1. TextOf(e, 0) \in Seq(1..(e - 1)) /\ TextOf(e, g) \in Seq(1..(e - 1))
    BY <1>1, TextIn
  <2> QED BY <1>1, <2>1, PlacesWiden
<1>5. PICK a \in Seq(1..Len(file)), b \in Seq(1..Len(file)) :
        a = TextOf(e, 0) /\ b = TextOf(e, g)
  BY <1>4
<1>6. PICK c : c = Capped(b, LineCap)
  OBVIOUS
<1>7. PICK d : d = TrimCut(c)
  OBVIOUS
<1>8. c \in Seq(1..Len(file)) /\ d \in Seq(1..Len(file))
  BY <1>1, <1>2, <1>6, <1>7, CappedRunes, TrimCutIs
<1>9. Known(e, g) = IF From(e) > g \/ a = <<>> THEN ShownLine(FALSE, Capped(a, LineCap))
                    ELSE ShownLine(~ShowsNothing(d), Capped(d, LineCap - Marker))
  BY <1>5, <1>6, <1>7 DEF Known
<1> DEFINE all == Capped(TextOf(e, 0), LineCap)
           new == Capped(TextOf(e, g), LineCap)
           rest == TrimCut(new)
           short == Capped(rest, LineCap - Marker)
           none == ShowsNothing(rest)
<1>10. all' = Capped(a, LineCap)
  <2>1. all' = Capped(a, LineCap)'
    BY <1>3, <1>5 DEF Capped, TrimIncompleteRune
  <2> QED BY <1>2, <2>1, CappedStays
<1>11. new' = c
  <2>1. new' = Capped(b, LineCap)'
    BY <1>3, <1>5 DEF Capped, TrimIncompleteRune
  <2> QED BY <1>2, <1>6, <2>1, CappedStays
<1> HIDE DEF new
<1>12. rest' = d
  <2>1. rest' = TrimCut(c)'
    BY <1>11 DEF TrimCut
  <2> QED BY <1>7, <1>8, <2>1, TrimCutStays
<1> HIDE DEF rest
<1>13. short' = Capped(d, LineCap - Marker)
  <2>1. short' = Capped(d, LineCap - Marker)'
    BY <1>12 DEF Capped, TrimIncompleteRune
  <2> QED BY <1>2, <1>8, <2>1, CappedStays
<1>14. none' <=> ShowsNothing(d)
  <2>1. none' <=> ShowsNothing(d)'
    BY <1>12 DEF ShowsNothing
  <2> QED BY <1>8, <2>1, ShowsStays
<1> HIDE DEF all, short, none
<1>15. Known(e, g)' = IF From(e)' > g \/ TextOf(e, 0)' = <<>> THEN ShownLine(FALSE, all')
                      ELSE ShownLine(~none', short')
  BY DEF Known, all, new, rest, short, none
<1>16. none' \in BOOLEAN /\ ShowsNothing(d) \in BOOLEAN
  BY DEF none, ShowsNothing
<1>17. (~none') = ~ShowsNothing(d)
  BY <1>14, <1>16
<1> QED BY <1>3, <1>5, <1>9, <1>10, <1>13, <1>15, <1>17, Zenon

(* The lines that have ended stay as they are.                               *)
LEMMA ListStays ==
  ASSUME Grown, NEW i \in 0..Len(file), NEW g \in Nat
  PROVE  ListOf(i, g)' = ListOf(i, g)
<1>1. Len(file) \in Nat /\ \A e \in 1..i : e \in 1..(Len(file) + 1) /\ e \in 1..Len(file)
  BY DEF Grown
<1>2. \A e \in 1..i : Known(e, g)' = Known(e, g)
  BY <1>1, KnownStays
<1>3. ASSUME NEW e \in 1..i
      PROVE  ShowsNothing(Known(e, g).bytes)' <=> ShowsNothing(Known(e, g).bytes)
  <2>1. Known(e, g).bytes \in Seq(1..Len(file))
    <3>1. e \in Nat \ {0} /\ e - 1 \in Nat /\ e - 1 <= Len(file)
      BY <1>1
    <3>2. Known(e, g).bytes \in Seq(1..(e - 1))
      BY <3>1, KnownIs DEF LinesTo
    <3> QED BY <1>1, <3>1, <3>2, PlacesWiden
  <2>2. PICK b \in Seq(1..Len(file)) : b = Known(e, g).bytes
    BY <2>1
  <2>3. ShowsNothing(Known(e, g).bytes)' <=> ShowsNothing(b)'
    BY <1>2, <2>2 DEF ShowsNothing
  <2> QED BY <2>2, <2>3, ShowsStays
<1>4. ShownEnds(i, g)' = ShownEnds(i, g)
  BY <1>1, <1>3 DEF ShownEnds, Grown
<1>5. Knowns(i, g)' = Knowns(i, g)
  BY <1>2 DEF Knowns
<1>6. EndsOf(i, g)' = EndsOf(i, g)
  BY <1>4 DEF EndsOf
<1> QED BY <1>5, <1>6 DEF ListOf

-----------------------------------------------------------------------------
(* What each field of the log is of the file.                                *)

LinePlaces == Seq(Nat)
KeptLines  == Seq([mark : BOOLEAN, bytes : Seq(Nat)])

LogRec ==
  [off : Nat, from : Nat, partial : LinePlaces, cr : BOOLEAN, full : BOOLEAN,
   cut : BOOLEAN, lines : KeptLines]

(* Nothing is a line, and no lines.                                          *)
LEMMA NothingIs == <<>> \in LinePlaces /\ <<>> \in KeptLines
BY DEF LinePlaces, KeptLines

(* Of what it has read up to i since the window it began at.                 *)
Keeps(l, i) ==
  /\ l.cr <=> i > l.from /\ file[i] = "cr"
  /\ l.cut <=> l.from > 0 /\ From(i + 1) <= l.from /\ IsText(l.from)
  /\ l.partial = Capped(TextOf(i + 1, l.from), LineCap)
  /\ l.full <=> Len(TextOf(i + 1, l.from)) > LineCap
  /\ l.lines = LastOf(ListOf(i, l.from))

(* The file grows past what was read.                                        *)
LEMMA KeepsStays ==
  ASSUME Grown, NEW l \in LogRec, NEW i \in 0..Len(file), l.from <= i
  PROVE  Keeps(l, i) => Keeps(l, i)'
<1>1. i + 1 \in 1..(Len(file) + 1) /\ l.from \in Nat /\ i \in Nat /\ Len(file) \in Nat
  BY DEF Grown, LogRec
<1>2. From(i + 1)' = From(i + 1) /\ TextOf(i + 1, l.from)' = TextOf(i + 1, l.from)
  BY <1>1, FromStays, TextStays
<1>3. ListOf(i, l.from)' = ListOf(i, l.from)
  BY <1>1, ListStays
<1>4. TextOf(i + 1, l.from) \in Seq(1..Len(file))
  <2>1. i + 1 \in Nat \ {0} /\ (i + 1) - 1 = i
    BY <1>1
  <2>2. TextOf(i + 1, l.from) \in Seq(1..i)
    BY <1>1, <2>1, TextIn
  <2> QED BY <1>1, <2>2, PlacesWiden
<1>5. Capped(TextOf(i + 1, l.from), LineCap)' = Capped(TextOf(i + 1, l.from), LineCap)
  <2>1. PICK t \in Seq(1..Len(file)) : t = TextOf(i + 1, l.from)
    BY <1>4
  <2>2. Capped(TextOf(i + 1, l.from), LineCap)' = Capped(t, LineCap)'
    BY <1>2, <2>1 DEF Capped, TrimIncompleteRune
  <2>3. LineCap \in Nat
    BY LogAssumption
  <2> QED BY <2>1, <2>2, <2>3, CappedStays
<1>6. i > l.from => file'[i] = file[i]
  BY <1>1 DEF Grown
<1>7. l.from > 0 => file'[l.from] = file[l.from]
  BY <1>1 DEF Grown
<1> SUFFICES ASSUME Keeps(l, i) PROVE Keeps(l, i)'
  OBVIOUS
<1>8. (l.cr <=> i > l.from /\ file[i] = "cr")'
  BY <1>6 DEF Keeps
<1>9. (l.cut <=> l.from > 0 /\ From(i + 1) <= l.from /\ IsText(l.from))'
  BY <1>2, <1>7 DEF Keeps, IsText
<1>10. /\ (l.partial = Capped(TextOf(i + 1, l.from), LineCap))'
       /\ (l.full <=> Len(TextOf(i + 1, l.from)) > LineCap)'
  BY <1>2, <1>5 DEF Keeps
<1>11. (l.lines = LastOf(ListOf(i, l.from)))'
  BY <1>3 DEF Keeps
<1> QED BY <1>8, <1>9, <1>10, <1>11 DEF Keeps

(* A log that has read nothing, and one that begins to read at a window.     *)
LEMMA SkippedKeeps ==
  ASSUME NEW g \in 1..Len(file), file \in Seq(ByteKinds)
  PROVE  Skipped(g) \in LogRec /\ Keeps(Skipped(g), g)
<1> DEFINE l == Skipped(g)
<1>1. /\ l \in LogRec /\ l.from = g /\ l.partial = <<>> /\ l.lines = <<>>
      /\ l.cr = FALSE /\ l.full = FALSE /\ l.cut \in BOOLEAN /\ (l.cut <=> IsText(g))
  <2>1. PICK c \in BOOLEAN : c <=> IsText(g)
    BY DEF IsText
  <2>2. (file[g] \notin {"lf", "cr"}) = c
    BY <2>1 DEF IsText
  <2>3. l = [NewLog EXCEPT !.off = g, !.from = g, !.cut = c]
    BY <2>2, Zenon DEF Skipped
  <2> HIDE DEF l
  <2>4. /\ l \in LogRec /\ l.from = g /\ l.partial = <<>> /\ l.lines = <<>>
        /\ l.cr = FALSE /\ l.full = FALSE /\ l.cut = c
    <3>1. c \in BOOLEAN /\ g \in Nat
      BY <2>1
    <3> QED BY <2>3, <3>1, NothingIs DEF LogRec, NewLog
  <2> QED BY <2>1, <2>4, Zenon
<1> HIDE DEF l
<1>2. g \in Nat \ {0} /\ g + 1 \in Nat \ {0} /\ (g + 1) - 1 = g
  OBVIOUS
<1>3. IsText(g) => From(g + 1) <= g
  <2>1. From(g) \in 1..g
    BY <1>2, FromIs, LineBegins
  <2>2. From(g + 1) = IF file[g] = "lf" THEN g + 1
                      ELSE IF g > 1 /\ IsText(g) /\ file[g - 1] = "cr" THEN g
                      ELSE From(g)
    BY <1>2, FromNext
  <2>3. IsText(g) => file[g] # "lf"
    BY DEF IsText
  <2> QED BY <1>2, <2>1, <2>2, <2>3
<1>4. TextOf(g + 1, g) = <<>>
  <2>1. \A k \in 1..g : k \notin Texts(g + 1, g)
    BY DEF Texts
  <2> QED BY <1>2, <2>1, OrderNone DEF TextOf, Texts
<1>5. Capped(<<>>, LineCap) = <<>> /\ ~(Len(<<>>) > LineCap)
  BY LogAssumption DEF Capped
<1>6. ListOf(g, g) = <<>>
  BY <1>2, ListFirst
<1>7. LastOf(<<>>) = <<>>
  <2>1. <<>> \in Seq({}) /\ Len(<<>>) = 0
    OBVIOUS
  <2>2. LastOf(<<>>) \in Seq({}) /\ Len(LastOf(<<>>)) <= 0
    BY <2>1, LastOfIs
  <2> QED BY <2>2
<1> QED BY <1>1, <1>2, <1>3, <1>4, <1>5, <1>6, <1>7 DEF Keeps, l

-----------------------------------------------------------------------------
(* A byte more.                                                              *)

(* What the log would show of the line that it is in is what can be known of *)
(* it, if it shows anything.                                                 *)
LEMMA ShownIs ==
  ASSUME file \in Seq(ByteKinds), NEW l \in LogRec, NEW i \in 0..Len(file), l.from <= i,
         Keeps(l, i)
  PROVE  /\ ShowsNothing(Shown(l).bytes) <=> ShowsNothing(Known(i + 1, l.from).bytes)
         /\ ~ShowsNothing(Shown(l).bytes) => Shown(l) = Known(i + 1, l.from)
         /\ Shown(l) \in LinesTo(i)
<1> DEFINE e == i + 1
           g == l.from
           all == TextOf(e, 0)
           new == TextOf(e, g)
           rest == TrimCut(l.partial)
<1>1. /\ e \in Nat \ {0} /\ i \in Nat /\ e - 1 = i /\ g \in Nat /\ g <= i /\ 0 \in Nat
      /\ Len(file) \in Nat
  BY DEF LogRec
<1>2. LineCap \in Nat /\ LineCap > 1 /\ LineCap - Marker \in Nat /\ LineCap - Marker > 1
  BY LogAssumption
<1>3. all \in Seq(1..i) /\ new \in Seq(1..i)
  BY <1>1, TextIn
<1>4. /\ l.partial = Capped(new, LineCap)
      /\ l.cut <=> g > 0 /\ From(e) <= g /\ IsText(g)
      /\ l.cut \in BOOLEAN
  BY DEF Keeps, LogRec
<1>5. Known(e, g) = IF From(e) > g \/ all = <<>> THEN ShownLine(FALSE, Capped(all, LineCap))
                    ELSE LET r == TrimCut(Capped(new, LineCap)) IN
                         ShownLine(~ShowsNothing(r), Capped(r, LineCap - Marker))
  BY DEF Known
<1>6. Shown(l) = IF ~l.cut THEN ShownLine(FALSE, l.partial)
                 ELSE IF ShowsNothing(rest) THEN ShownLine(FALSE, rest)
                 ELSE ShownLine(TRUE, Capped(rest, LineCap - Marker))
  BY DEF Shown
<1>7. From(e) \in 1..e /\ From(e) \in Begins(e)..e
  BY <1>1, FromIs, LineBegins
<1>8. Capped(<<>>, LineCap) = <<>>
  BY <1>2 DEF Capped
<1> HIDE DEF all, new, rest, e, g
<1>9. CASE From(e) > g
  <2>1. all = new
    BY <1>1, <1>9, TextAll DEF all, new
  <2>2. ~l.cut
    BY <1>1, <1>4, <1>7, <1>9
  <2>3. Shown(l) = Known(e, g) /\ Shown(l) = ShownLine(FALSE, Capped(all, LineCap))
    BY <1>4, <1>5, <1>6, <1>9, <2>1, <2>2
  <2>4. Capped(all, LineCap) \in Seq(1..i)
    BY <1>1, <1>2, <1>3, CappedRunes
  <2>5. Shown(l) \in LinesTo(i)
    BY <2>3, <2>4 DEF LinesTo, ShownLine
  <2> QED BY <2>3, <2>5 DEF e, g
<1>10. CASE From(e) <= g /\ ~l.cut
  <2>1. new = <<>>
    <3>1. g \in 1..(e - 1) /\ g \in DOMAIN file
      BY <1>1, <1>7, <1>10 DEF e
    <3>2. ~IsText(g)
      BY <1>4, <1>10, <3>1
    <3>3. file[g] # "lf"
      BY <1>1, <1>7, <1>10, <3>1, LineBegins
    <3>4. file[g] = "cr"
      BY <3>2, <3>3 DEF IsText
    <3> QED BY <1>1, <1>10, <3>1, <3>4, TextAfterReturn DEF new
  <2>2. l.partial = <<>>
    BY <1>4, <1>8, <2>1
  <2>3. TrimCut(<<>>) = <<>> /\ ShowsNothing(<<>>) /\ Capped(<<>>, LineCap - Marker) = <<>>
    BY <1>2 DEF TrimCut, ShowsNothing, Capped
  <2>4. Shown(l) = ShownLine(FALSE, <<>>)
    BY <1>6, <1>10, <2>2
  <2>5. Known(e, g) = ShownLine(FALSE, <<>>)
    <3>1. (~ShowsNothing(<<>>)) = FALSE
      BY <2>3
    <3>2. CASE all = <<>>
      BY <1>5, <1>8, <3>2
    <3>3. CASE all # <<>>
      <4>1. ~(From(e) > g)
        BY <1>1, <1>7, <1>10
      <4>2. Known(e, g) = LET r == TrimCut(Capped(new, LineCap)) IN
                          ShownLine(~ShowsNothing(r), Capped(r, LineCap - Marker))
        BY <1>5, <3>3, <4>1, Zenon
      <4> QED BY <1>8, <2>1, <2>3, <3>1, <4>2, Zenon
    <3> QED BY <3>2, <3>3
  <2>6. ShownLine(FALSE, <<>>) \in LinesTo(i)
    BY DEF ShownLine, LinesTo
  <2> QED BY <2>4, <2>5, <2>6 DEF e, g
<1>11. CASE From(e) <= g /\ l.cut
  <2>1. all # <<>>
    <3>1. g \in 1..(e - 1) /\ g \in Texts(e, 0)
      BY <1>1, <1>4, <1>7, <1>11 DEF Texts, e
    <3>2. Listing(all, Texts(e, 0), e - 1)
      BY <1>1, TextLists DEF all
    <3> QED BY <3>1, <3>2 DEF Listing
  <2>2. ~(From(e) > g)
    BY <1>1, <1>7, <1>11
  <2>3. Known(e, g) = ShownLine(~ShowsNothing(rest), Capped(rest, LineCap - Marker))
    BY <1>4, <1>5, <2>1, <2>2 DEF rest
  <2>4. rest \in Seq(1..i)
    <3>1. l.partial \in Seq(1..i)
      BY <1>1, <1>2, <1>3, <1>4, CappedRunes
    <3> QED BY <1>1, <3>1, TrimCutIs DEF rest
  <2>5. /\ Capped(rest, LineCap - Marker) \in Seq(1..i)
        /\ ShowsNothing(rest) => ShowsNothing(Capped(rest, LineCap - Marker))
    BY <1>1, <1>2, <2>4, CappedRunes
  <2>6. CASE ShowsNothing(rest)
    <3>1. Shown(l) = ShownLine(FALSE, rest)
      BY <1>6, <1>11, <2>6
    <3>2. Known(e, g).bytes = Capped(rest, LineCap - Marker)
      BY <2>3 DEF ShownLine
    <3>3. Shown(l).bytes = rest /\ Shown(l) \in LinesTo(i)
      BY <2>4, <3>1 DEF ShownLine, LinesTo
    <3> QED BY <2>5, <2>6, <3>2, <3>3 DEF e, g
  <2>7. CASE ~ShowsNothing(rest)
    <3>1. Shown(l) = ShownLine(TRUE, Capped(rest, LineCap - Marker))
      BY <1>6, <1>11, <2>7
    <3>2. Known(e, g) = Shown(l)
      BY <2>3, <2>7, <3>1
    <3>3. Shown(l) \in LinesTo(i)
      BY <2>5, <3>1 DEF ShownLine, LinesTo
    <3> QED BY <3>2, <3>3 DEF e, g
  <2> QED BY <2>6, <2>7
<1> QED BY <1>1, <1>7, <1>9, <1>10, <1>11

(* A line feed ends the line, ...                                            *)
LEMMA ConsumeFeed ==
  ASSUME NEW l \in LogRec, NEW i, file[i] = "lf",
         LastOf(Append(l.lines, Shown(l))) \in KeptLines
  PROVE  LET r == Consume(l, i) IN
         /\ r \in LogRec /\ r.off = l.off /\ r.from = l.from
         /\ r.cr = FALSE /\ r.full = FALSE /\ r.cut = FALSE /\ r.partial = <<>>
         /\ r.lines = IF ShowsNothing(Shown(l).bytes) THEN l.lines
                      ELSE LastOf(Append(l.lines, Shown(l)))
<1> DEFINE m == [l EXCEPT !.cr = FALSE]
<1>1. /\ m \in LogRec /\ m.off = l.off /\ m.from = l.from /\ m.cr = FALSE
      /\ m.lines = l.lines /\ m.cut = l.cut /\ m.partial = l.partial
  BY DEF LogRec
<1>2. Consume(l, i) = EndLine(m)
  BY DEF Consume
<1> HIDE DEF m
<1>3. Shown(m) = Shown(l)
  BY <1>1, Zenon DEF Shown
<1> DEFINE s == IF ShowsNothing(Shown(l).bytes) THEN l.lines
                ELSE LastOf(Append(l.lines, Shown(l)))
<1>4. s \in KeptLines
  BY DEF LogRec
<1>5. EndLine(m) = [m EXCEPT !.partial = <<>>, !.full = FALSE, !.cut = FALSE, !.lines = s]
  BY <1>1, <1>3, Zenon DEF EndLine
<1> HIDE DEF s
<1>6. LET r == EndLine(m) IN
      /\ r \in LogRec /\ r.off = l.off /\ r.from = l.from
      /\ r.cr = FALSE /\ r.full = FALSE /\ r.cut = FALSE /\ r.partial = <<>>
      /\ r.lines = s
  BY <1>1, <1>4, <1>5, NothingIs DEF LogRec
<1> QED BY <1>2, <1>6 DEF s

(* ... a carriage return is remembered, ...                                  *)
LEMMA ConsumeReturn ==
  ASSUME NEW l \in LogRec, NEW i, file[i] = "cr"
  PROVE  LET r == Consume(l, i) IN
         /\ r \in LogRec /\ r.off = l.off /\ r.from = l.from /\ r.cr = TRUE
         /\ r.full = l.full /\ r.cut = l.cut /\ r.partial = l.partial /\ r.lines = l.lines
<1>1. Consume(l, i) = [l EXCEPT !.cr = TRUE]
  BY DEF Consume
<1> QED BY <1>1 DEF LogRec

(* ... and any other follows, where there is room, or where a carriage       *)
(* return made it.                                                           *)
LEMMA ConsumeText ==
  ASSUME NEW l \in LogRec, NEW i \in Nat, file[i] \notin {"lf", "cr"}
  PROVE  LET r == Consume(l, i) IN
         /\ r \in LogRec /\ r.off = l.off /\ r.from = l.from /\ r.cr = FALSE
         /\ r.lines = l.lines
         /\ l.cr => r.cut = FALSE /\ r.full = FALSE /\ r.partial = <<i>>
         /\ ~l.cr => r.cut = l.cut
         /\ ~l.cr /\ l.full => r.full = TRUE /\ r.partial = l.partial
         /\ ~l.cr /\ ~l.full /\ Len(l.partial) < LineCap =>
              r.full = FALSE /\ r.partial = Append(l.partial, i)
         /\ ~l.cr /\ ~l.full /\ ~(Len(l.partial) < LineCap) =>
              r.full = TRUE /\ r.partial = TrimIncompleteRune(l.partial)
<1>1. Consume(l, i) = AddByte(l, i) /\ LineCap \in Nat \ {0}
  BY LogAssumption DEF Consume
<1> DEFINE m == Restart(l)
<1>2. /\ m \in LogRec /\ m.off = l.off /\ m.from = l.from /\ m.cr = FALSE
      /\ m.lines = l.lines
      /\ l.cr => m.cut = FALSE /\ m.full = FALSE /\ m.partial = <<>>
      /\ ~l.cr => m = l
  BY NothingIs DEF Restart, LogRec
<1>3. AddByte(l, i) = IF m.full THEN m
                      ELSE IF Len(m.partial) < LineCap
                      THEN [m EXCEPT !.partial = Append(@, i)]
                      ELSE [m EXCEPT !.full = TRUE, !.partial = TrimIncompleteRune(@)]
  BY DEF AddByte
<1> HIDE DEF m
<1>4. CASE m.full
  BY <1>1, <1>2, <1>3, <1>4
<1>5. CASE ~m.full /\ Len(m.partial) < LineCap
  <2>1. AddByte(l, i) = [m EXCEPT !.partial = Append(m.partial, i)]
    BY <1>3, <1>5
  <2>2. Append(m.partial, i) \in LinePlaces /\ (l.cr => Append(m.partial, i) = <<i>>)
    <3>1. m.partial \in LinePlaces
      BY <1>2 DEF LogRec
    <3>2. Append(m.partial, i) \in LinePlaces
      BY <3>1 DEF LinePlaces
    <3>3. Append(<<>>, i) = <<i>>
      OBVIOUS
    <3>4. l.cr => m.partial = <<>>
      BY <1>2
    <3> QED BY <3>2, <3>3, <3>4
  <2>3. m.full = FALSE
    BY <1>2, <1>5 DEF LogRec
  <2> DEFINE p == Append(m.partial, i)
  <2> HIDE DEF p
  <2>4. LET r == [m EXCEPT !.partial = p] IN
        /\ r \in LogRec /\ r.off = l.off /\ r.from = l.from /\ r.cr = FALSE
        /\ r.lines = l.lines /\ r.full = FALSE /\ r.partial = p /\ r.cut = m.cut
    BY <1>2, <2>2, <2>3 DEF LogRec, p
  <2> QED BY <1>1, <1>2, <1>5, <2>1, <2>2, <2>4 DEF p
<1>6. CASE ~m.full /\ ~(Len(m.partial) < LineCap)
  <2>1. AddByte(l, i) = [m EXCEPT !.full = TRUE, !.partial = TrimIncompleteRune(m.partial)]
    BY <1>3, <1>6
  <2>2. ~l.cr /\ m = l
    BY <1>1, <1>2, <1>6
  <2>3. TrimIncompleteRune(m.partial) \in LinePlaces
    <3>1. m.partial \in LinePlaces
      BY <1>2 DEF LogRec
    <3>2. m.partial # <<>> => Front(m.partial) \in LinePlaces
      BY <3>1 DEF Front, LinePlaces
    <3> QED BY <3>1, <3>2 DEF TrimIncompleteRune
  <2> DEFINE p == TrimIncompleteRune(m.partial)
  <2> HIDE DEF p
  <2>4. LET r == [m EXCEPT !.full = TRUE, !.partial = p] IN
        /\ r \in LogRec /\ r.off = l.off /\ r.from = l.from /\ r.cr = FALSE
        /\ r.lines = l.lines /\ r.full = TRUE /\ r.partial = p /\ r.cut = l.cut
    BY <1>2, <2>2, <2>3 DEF LogRec, p
  <2> QED BY <1>1, <1>6, <2>1, <2>2, <2>4 DEF p
<1> QED BY <1>4, <1>5, <1>6

(* What Shown keeps is kept.                                                 *)
LEMMA LinesKept ==
  ASSUME NEW n \in Nat, NEW s \in Seq(LinesTo(n))
  PROVE  s \in KeptLines
<1>1. ASSUME NEW k \in 1..Len(s) PROVE s[k] \in [mark : BOOLEAN, bytes : Seq(Nat)]
  <2>1. s[k] \in LinesTo(n)
    OBVIOUS
  <2>2. \A t \in Seq(1..n) : t \in Seq(Nat)
    <3> TAKE t \in Seq(1..n)
    <3>1. \A j \in 1..Len(t) : t[j] \in Nat
      OBVIOUS
    <3> QED BY <3>1
  <2> QED BY <2>1, <2>2 DEF LinesTo
<1> DEFINE X == [mark : BOOLEAN, bytes : Seq(Nat)]
           Y == LinesTo(n)
<1>2. s \in Seq(Y) /\ \A k \in 1..Len(s) : s[k] \in X
  BY <1>1
<1> HIDE DEF X, Y
<1>3. s \in Seq(X)
  BY <1>2
<1> QED BY <1>3 DEF KeptLines, X

(* A line that has room, or has not, after a byte more.                      *)
LEMMA CappedNext ==
  ASSUME NEW t \in Seq(Nat), NEW i \in Nat
  PROVE  Capped(Append(t, i), LineCap) =
           IF Len(t) > LineCap THEN Capped(t, LineCap)
           ELSE IF Len(t) < LineCap THEN Append(Capped(t, LineCap), i)
           ELSE TrimIncompleteRune(Capped(t, LineCap))
<1>1. LineCap \in Nat /\ Len(t) \in Nat /\ Len(Append(t, i)) = Len(t) + 1
  BY LogAssumption
<1>2. CASE Len(t) > LineCap
  <2>1. SubSeq(Append(t, i), 1, LineCap) = SubSeq(t, 1, LineCap)
    BY <1>1, <1>2
  <2>2. Capped(t, LineCap) = TrimIncompleteRune(SubSeq(t, 1, LineCap))
    BY <1>1, <1>2 DEF Capped
  <2>3. Capped(Append(t, i), LineCap) = TrimIncompleteRune(SubSeq(Append(t, i), 1, LineCap))
    BY <1>1, <1>2 DEF Capped
  <2> QED BY <1>2, <2>1, <2>2, <2>3
<1>3. CASE Len(t) = LineCap
  <2>1. SubSeq(Append(t, i), 1, LineCap) = t
    BY <1>1, <1>3
  <2>2. Capped(t, LineCap) = t
    BY <1>1, <1>3 DEF Capped
  <2>3. Capped(Append(t, i), LineCap) = TrimIncompleteRune(SubSeq(Append(t, i), 1, LineCap))
    BY <1>1, <1>3 DEF Capped
  <2>4. ~(Len(t) > LineCap) /\ ~(Len(t) < LineCap)
    BY <1>1, <1>3
  <2> QED BY <2>1, <2>2, <2>3, <2>4
<1>4. CASE Len(t) < LineCap
  BY <1>1, <1>4 DEF Capped
<1> QED BY <1>1, <1>2, <1>3, <1>4

(* The line that the log is in, a byte later.                                *)
LEMMA LineStep ==
  ASSUME file \in Seq(ByteKinds), NEW l \in LogRec, NEW i \in Nat, i + 1 <= Len(file),
         l.from <= i, Keeps(l, i), IsText(i + 1)
  PROVE  LET r == Consume(l, i + 1) IN
         /\ r \in LogRec /\ r.off = l.off /\ r.from = l.from
         /\ Keeps(r, i + 1)
<1> DEFINE e == i + 1
           g == l.from
           r == Consume(l, e)
           t == TextOf(e, g)
           u == TextOf(e + 1, g)
<1>1. /\ e \in Nat \ {0} /\ e - 1 = i /\ g \in Nat /\ g <= i /\ e > g /\ e \in 1..Len(file)
      /\ file[e] \notin {"lf", "cr"} /\ IsText(e) /\ e \in Nat
  BY DEF LogRec, IsText
<1>2. /\ r \in LogRec /\ r.off = l.off /\ r.from = l.from /\ r.cr = FALSE
      /\ r.lines = l.lines
      /\ l.cr => r.cut = FALSE /\ r.full = FALSE /\ r.partial = <<e>>
      /\ ~l.cr => r.cut = l.cut
      /\ ~l.cr /\ l.full => r.full = TRUE /\ r.partial = l.partial
      /\ ~l.cr /\ ~l.full /\ Len(l.partial) < LineCap =>
           r.full = FALSE /\ r.partial = Append(l.partial, e)
      /\ ~l.cr /\ ~l.full /\ ~(Len(l.partial) < LineCap) =>
           r.full = TRUE /\ r.partial = TrimIncompleteRune(l.partial)
  BY <1>1, ConsumeText
<1>3. /\ l.cr <=> i > g /\ file[i] = "cr"
      /\ l.cut <=> g > 0 /\ From(e) <= g /\ IsText(g)
      /\ l.partial = Capped(t, LineCap)
      /\ l.full <=> Len(t) > LineCap
      /\ l.lines = LastOf(ListOf(i, g))
  BY DEF Keeps
<1>4. From(e + 1) = IF e > 1 /\ file[i] = "cr" THEN e ELSE From(e)
  BY <1>1, FromNext
<1>5. u = IF e > 1 /\ file[i] = "cr" THEN <<e>> ELSE Append(t, e)
  BY <1>1, TextNext
<1>6. ListOf(e, g) = ListOf(i, g)
  BY <1>1, ListNext
<1>7. t \in Seq(1..i) /\ t \in Seq(Nat) /\ Len(t) \in Nat
  <2>1. t \in Seq(1..i)
    BY <1>1, TextIn
  <2>2. \A k \in 1..Len(t) : t[k] \in Nat
    BY <2>1
  <2> QED BY <2>1, <2>2
<1>8. LineCap \in Nat /\ LineCap > 1
  BY LogAssumption
<1>9. Capped(<<e>>, LineCap) = <<e>> /\ ~(Len(<<e>>) > LineCap)
  BY <1>8 DEF Capped
<1> HIDE DEF e, g, r, t, u
<1>10. ~r.cr /\ file[e] # "cr"
  BY <1>1, <1>2
<1>11. CASE l.cr
  <2>1. e > 1 /\ file[i] = "cr"
    BY <1>1, <1>3, <1>11 DEF e
  <2>2. u = <<e>> /\ From(e + 1) = e
    BY <1>4, <1>5, <2>1
  <2>3. r.partial = Capped(u, LineCap) /\ ~r.full /\ ~(Len(u) > LineCap)
    BY <1>2, <1>9, <1>11, <2>2
  <2>4. ~r.cut /\ ~(From(e + 1) <= g)
    BY <1>1, <1>2, <1>11, <2>2
  <2>5. Keeps(r, e)
    BY <1>2, <1>3, <1>6, <1>10, <2>3, <2>4 DEF Keeps, u, g
  <2> QED BY <1>2, <2>5 DEF r, e
<1>12. CASE ~l.cr /\ e > 1 /\ file[i] = "cr"
  <2>1. i = g /\ g > 0
    BY <1>1, <1>3, <1>12 DEF e
  <2>2. ~IsText(g)
    BY <1>12, <2>1 DEF IsText
  <2>3. ~l.cut /\ ~r.cut
    BY <1>2, <1>3, <1>12, <2>2
  <2>4. t = <<>>
    <3>1. \A k \in 1..(e - 1) : k \notin Texts(e, g)
      BY <1>1, <2>1 DEF Texts
    <3>2. e - 1 \in Nat
      BY <1>1
    <3> QED BY <3>1, <3>2, OrderNone DEF TextOf, Texts, t
  <2>5. l.partial = <<>> /\ ~l.full
    BY <1>3, <1>8, <2>4 DEF Capped
  <2>6. ~r.full /\ r.partial = <<e>>
    <3>1. Len(l.partial) < LineCap /\ Append(l.partial, e) = <<e>>
      BY <1>8, <2>5
    <3> QED BY <1>2, <1>12, <2>5, <3>1
  <2>7. u = <<e>>
    BY <1>5, <1>12
  <2>8. Keeps(r, e)
    BY <1>2, <1>3, <1>6, <1>9, <1>10, <2>2, <2>3, <2>6, <2>7 DEF Keeps, u, g
  <2> QED BY <1>2, <2>8 DEF r, e
<1>13. CASE ~l.cr /\ ~(e > 1 /\ file[i] = "cr")
  <2>1. u = Append(t, e) /\ From(e + 1) = From(e) /\ Len(u) = Len(t) + 1
    BY <1>4, <1>5, <1>7, <1>13
  <2>2. r.cut <=> g > 0 /\ From(e + 1) <= g /\ IsText(g)
    BY <1>2, <1>3, <1>13, <2>1
  <2>3. Capped(u, LineCap) = IF Len(t) > LineCap THEN Capped(t, LineCap)
                             ELSE IF Len(t) < LineCap THEN Append(Capped(t, LineCap), e)
                             ELSE TrimIncompleteRune(Capped(t, LineCap))
    BY <1>1, <1>7, <2>1, CappedNext
  <2>4. Len(t) <= LineCap => l.partial = t
    BY <1>3 DEF Capped
  <2>5. r.partial = Capped(u, LineCap) /\ (r.full <=> Len(u) > LineCap)
    <3>1. CASE Len(t) > LineCap
      BY <1>2, <1>3, <1>7, <1>8, <1>13, <2>1, <2>3, <3>1
    <3>2. CASE Len(t) < LineCap
      <4>1. ~l.full /\ Len(l.partial) < LineCap /\ ~(Len(u) > LineCap)
        BY <1>3, <1>7, <1>8, <2>1, <2>4, <3>2
      <4> QED BY <1>2, <1>3, <1>7, <1>8, <1>13, <2>3, <3>2, <4>1
    <3>3. CASE Len(t) = LineCap
      <4>1. ~l.full /\ ~(Len(l.partial) < LineCap) /\ Len(u) > LineCap
        BY <1>3, <1>7, <1>8, <2>1, <2>4, <3>3
      <4> QED BY <1>2, <1>3, <1>7, <1>8, <1>13, <2>3, <3>3, <4>1
    <3> QED BY <1>7, <1>8, <3>1, <3>2, <3>3
  <2>6. Keeps(r, e)
    BY <1>2, <1>3, <1>6, <1>10, <2>2, <2>5 DEF Keeps, u, g
  <2> QED BY <1>2, <2>6 DEF r, e
<1> QED BY <1>11, <1>12, <1>13

(* A byte that ends the line, or that is a carriage return.                  *)
LEMMA EndStep ==
  ASSUME file \in Seq(ByteKinds), NEW l \in LogRec, NEW i \in Nat, i + 1 <= Len(file),
         l.from <= i, Keeps(l, i), ~IsText(i + 1)
  PROVE  LET r == Consume(l, i + 1) IN
         /\ r \in LogRec /\ r.off = l.off /\ r.from = l.from
         /\ Keeps(r, i + 1)
<1> DEFINE e == i + 1
           g == l.from
           r == Consume(l, e)
           t == TextOf(e, g)
           u == TextOf(e + 1, g)
<1>1. /\ e \in Nat \ {0} /\ e - 1 = i /\ g \in Nat /\ g <= i /\ e > g /\ e \in Nat
      /\ ~IsText(e) /\ file[e] \in {"lf", "cr"} /\ i \in 0..Len(file)
  BY DEF LogRec, IsText
<1>2. /\ l.cut <=> g > 0 /\ From(e) <= g /\ IsText(g)
      /\ l.partial = Capped(t, LineCap)
      /\ l.full <=> Len(t) > LineCap
      /\ l.lines = LastOf(ListOf(i, g))
  BY DEF Keeps
<1>3. From(e + 1) = IF file[e] = "lf" THEN e + 1 ELSE From(e)
  BY <1>1, FromNext
<1>4. u = IF file[e] = "lf" THEN <<>> ELSE t
  BY <1>1, TextNext
<1>5. ListOf(e, g) = IF file[e] = "lf" /\ ~ShowsNothing(Known(e, g).bytes)
                     THEN Append(ListOf(i, g), Known(e, g)) ELSE ListOf(i, g)
  BY <1>1, ListNext
<1>6. CASE file[e] = "cr"
  <2>1. /\ r \in LogRec /\ r.off = l.off /\ r.from = l.from /\ r.cr = TRUE
        /\ r.full = l.full /\ r.cut = l.cut /\ r.partial = l.partial /\ r.lines = l.lines
    BY <1>6, ConsumeReturn
  <2>2. From(e + 1) = From(e) /\ u = t /\ ListOf(e, g) = ListOf(i, g)
    BY <1>3, <1>4, <1>5, <1>6
  <2> HIDE DEF e, g, r, t, u
  <2>3. Keeps(r, e)
    BY <1>1, <1>2, <1>6, <2>1, <2>2 DEF Keeps, u, g
  <2> QED BY <2>1, <2>3 DEF r, e
<1>7. CASE file[e] = "lf"
  <2>1. /\ ShowsNothing(Shown(l).bytes) <=> ShowsNothing(Known(e, g).bytes)
        /\ ~ShowsNothing(Shown(l).bytes) => Shown(l) = Known(e, g)
        /\ Shown(l) \in LinesTo(i)
    BY <1>1, ShownIs
  <2>2. ListOf(i, g) \in Seq(LinesTo(i))
    BY <1>1, ListIs
  <2>3. LastOf(Append(l.lines, Shown(l))) = LastOf(Append(ListOf(i, g), Shown(l)))
    BY <1>2, <2>1, <2>2, LastOfAppend
  <2>4. LastOf(Append(l.lines, Shown(l))) \in KeptLines
    <3>1. Append(ListOf(i, g), Shown(l)) \in Seq(LinesTo(i))
      BY <2>1, <2>2
    <3>2. LastOf(Append(ListOf(i, g), Shown(l))) \in Seq(LinesTo(i))
      BY <3>1, LastOfIs
    <3> QED BY <2>3, <3>2, LinesKept
  <2>5. /\ r \in LogRec /\ r.off = l.off /\ r.from = l.from
        /\ r.cr = FALSE /\ r.full = FALSE /\ r.cut = FALSE /\ r.partial = <<>>
        /\ r.lines = IF ShowsNothing(Shown(l).bytes) THEN l.lines
                     ELSE LastOf(Append(l.lines, Shown(l)))
    BY <1>7, <2>4, ConsumeFeed
  <2>6. From(e + 1) = e + 1 /\ u = <<>>
    BY <1>3, <1>4, <1>7
  <2>7. Capped(<<>>, LineCap) = <<>> /\ ~(Len(<<>>) > LineCap)
    BY LogAssumption DEF Capped
  <2> HIDE DEF e, g, r, t, u
  <2>8. r.lines = LastOf(ListOf(e, g))
    BY <1>2, <1>5, <1>7, <2>1, <2>3, <2>5
  <2>9. ~(e + 1 <= g)
    BY <1>1
  <2>10. Keeps(r, e)
    BY <1>7, <2>5, <2>6, <2>7, <2>8, <2>9 DEF Keeps, u, g
  <2> QED BY <2>5, <2>10 DEF r, e
<1> QED BY <1>1, <1>6, <1>7

(* The bytes that are new, one after another.                                *)
Reads(f, l, n) ==
  f = [k \in 0..n |-> IF k = 0 THEN l ELSE Consume(f[k - 1], l.off + k)]

(* One byte more.                                                            *)
LEMMA ReadsMore ==
  ASSUME NEW f, NEW l, NEW n \in Nat, Reads(f, l, n)
  PROVE  \E h : Reads(h, l, n + 1)
<1> DEFINE h == [i \in 0..(n + 1) |->
                   IF i = n + 1 THEN Consume(f[n], l.off + i) ELSE f[i]]
<1>1. \A i \in 0..(n + 1) : h[i] = IF i = 0 THEN l ELSE Consume(h[i - 1], l.off + i)
  <2> TAKE i \in 0..(n + 1)
  <2>1. CASE i = n + 1
    <3>1. n \in 0..(n + 1) /\ n # n + 1 /\ i - 1 = n /\ i # 0
      BY <2>1
    <3>2. h[n] = f[n]
      BY <3>1
    <3> QED BY <2>1, <3>1, <3>2
  <2>2. CASE i # n + 1
    <3>1. i \in 0..n
      BY <2>2
    <3>2. h[i] = f[i]
      BY <2>2
    <3>3. f[i] = IF i = 0 THEN l ELSE Consume(f[i - 1], l.off + i)
      BY <3>1, Zenon DEF Reads
    <3>4. i # 0 => i - 1 \in 0..(n + 1) /\ i - 1 # n + 1
      BY <3>1
    <3>5. i # 0 => h[i - 1] = f[i - 1]
      BY <3>4
    <3> QED BY <3>2, <3>3, <3>5
  <2> QED BY <2>1, <2>2
<1>2. h = [i \in 0..(n + 1) |-> h[i]]
  OBVIOUS
<1> HIDE DEF h
<1>3. h = [i \in 0..(n + 1) |-> IF i = 0 THEN l ELSE Consume(h[i - 1], l.off + i)]
  BY <1>1, <1>2
<1> QED BY <1>3, Zenon DEF Reads

(* There is such a function, and it says what a read leaves.                 *)
LEMMA ParsedIs ==
  ASSUME NEW l \in LogRec, NEW stop \in Nat, l.off <= stop
  PROVE  \E f : Reads(f, l, stop - l.off)
                /\ Parsed(l, stop) = [f[stop - l.off] EXCEPT !.off = stop]
<1> DEFINE T == {m \in Nat : \E f : Reads(f, l, m)}
<1>1. 0 \in T
  <2> DEFINE f == [k \in 0..0 |-> l]
  <2>1. f = [k \in 0..0 |-> IF k = 0 THEN l ELSE Consume(f[k - 1], l.off + k)]
    OBVIOUS
  <2> HIDE DEF f
  <2>2. Reads(f, l, 0)
    BY <2>1, Zenon DEF Reads
  <2> QED BY <2>2
<1>2. \A m \in Nat : m \in T => m + 1 \in T
  BY ReadsMore
<1> HIDE DEF T
<1>3. stop - l.off \in T
  <2>1. stop - l.off \in Nat
    BY DEF LogRec
  <2> QED BY <1>1, <1>2, <2>1, Inductive
<1> DEFINE f == CHOOSE h : Reads(h, l, stop - l.off)
<1>4. Reads(f, l, stop - l.off)
  BY <1>3 DEF T
<1>5. Parsed(l, stop) = [f[stop - l.off] EXCEPT !.off = stop]
  BY Zenon DEF Parsed, Reads
<1> QED BY <1>4, <1>5

(* A read keeps what the log keeps.                                          *)
LEMMA ParsedKeeps ==
  ASSUME file \in Seq(ByteKinds), NEW l \in LogRec, l.from <= l.off, Keeps(l, l.off),
         NEW stop \in l.off..Len(file)
  PROVE  /\ Parsed(l, stop) \in LogRec /\ Parsed(l, stop).off = stop
         /\ Parsed(l, stop).from = l.from /\ Keeps(Parsed(l, stop), stop)
<1>1. /\ stop \in Nat /\ l.off \in Nat /\ l.off <= stop /\ stop <= Len(file)
      /\ stop - l.off \in Nat /\ l.off + (stop - l.off) = stop /\ l.from \in Nat
  BY DEF LogRec
<1>2. PICK f : Reads(f, l, stop - l.off)
               /\ Parsed(l, stop) = [f[stop - l.off] EXCEPT !.off = stop]
  BY <1>1, ParsedIs
<1> DEFINE T == {k \in Nat : k <= stop - l.off =>
                    f[k] \in LogRec /\ f[k].from = l.from /\ Keeps(f[k], l.off + k)}
<1>3. \A k \in 0..(stop - l.off) : f[k] = IF k = 0 THEN l ELSE Consume(f[k - 1], l.off + k)
  BY <1>2, Zenon DEF Reads
<1>4. 0 \in T
  <2>1. 0 \in 0..(stop - l.off) /\ l.off + 0 = l.off
    BY <1>1
  <2>2. f[0] = l
    BY <1>3, <2>1
  <2> QED BY <2>1, <2>2
<1>5. ASSUME NEW k \in Nat, k \in T PROVE k + 1 \in T
  <2> SUFFICES ASSUME k + 1 <= stop - l.off
               PROVE  /\ f[k + 1] \in LogRec /\ f[k + 1].from = l.from
                      /\ Keeps(f[k + 1], l.off + (k + 1))
    OBVIOUS
  <2>1. /\ k + 1 \in 0..(stop - l.off) /\ k + 1 # 0 /\ (k + 1) - 1 = k /\ k <= stop - l.off
        /\ l.off + (k + 1) = (l.off + k) + 1 /\ l.off + k \in Nat
        /\ (l.off + k) + 1 <= Len(file) /\ l.from <= l.off + k
    BY <1>1
  <2>2. f[k] \in LogRec /\ f[k].from = l.from /\ Keeps(f[k], l.off + k)
    BY <1>5, <2>1
  <2>3. f[k + 1] = Consume(f[k], (l.off + k) + 1)
    BY <1>3, <2>1
  <2>4. LET r == Consume(f[k], (l.off + k) + 1) IN
        r \in LogRec /\ r.from = f[k].from /\ Keeps(r, (l.off + k) + 1)
    BY <2>1, <2>2, LineStep, EndStep
  <2> QED BY <2>1, <2>2, <2>3, <2>4
<1> HIDE DEF T
<1>6. Nat \subseteq T
  BY <1>4, <1>5, Inductive
<1> DEFINE m == f[stop - l.off]
<1>7. m \in LogRec /\ m.from = l.from /\ Keeps(m, stop)
  BY <1>1, <1>6 DEF T
<1> HIDE DEF m
<1>8. Parsed(l, stop) = [m EXCEPT !.off = stop]
  BY <1>2 DEF m
<1> DEFINE r == [m EXCEPT !.off = stop]
<1>9. /\ r \in LogRec /\ r.off = stop /\ r.from = m.from /\ r.cr = m.cr /\ r.cut = m.cut
      /\ r.partial = m.partial /\ r.full = m.full /\ r.lines = m.lines
  BY <1>1, <1>7 DEF LogRec
<1> HIDE DEF r
<1>10. Keeps(r, stop)
  BY <1>7, <1>9, Zenon DEF Keeps
<1> QED BY <1>7, <1>8, <1>9, <1>10 DEF r

-----------------------------------------------------------------------------
(* The invariant.                                                            *)

LogInv ==
  /\ file \in Seq(ByteKinds) /\ Len(file) <= MaxBytes /\ Spelled
  /\ \E l \in LogRec :
       log = l /\ l.off <= Len(file) /\ l.from <= l.off /\ Keeps(l, l.off)

(* Nothing is read of nothing.                                               *)
LEMMA LogInvInit == LogInit => LogInv
<1> SUFFICES ASSUME LogInit PROVE LogInv
  OBVIOUS
<1>1. file = <<>> /\ log = NewLog
  BY DEF LogInit
<1>2. file \in Seq(ByteKinds) /\ Len(file) = 0 /\ Spelled
  BY <1>1 DEF Spelled
<1>3. NewLog \in LogRec /\ NewLog.off = 0 /\ NewLog.from = 0
  BY NothingIs DEF NewLog, LogRec
<1>4. Keeps(NewLog, 0)
  <2>1. TextOf(1, 0) = <<>>
    <3>1. TextOf(1, 0) \in Seq(1..(1 - 1))
      BY TextIn
    <3>2. TextOf(1, 0) # <<>> => TextOf(1, 0)[1] \in 1..(1 - 1)
      BY <3>1
    <3> QED BY <3>1, <3>2
  <2>2. ListOf(0, 0) = <<>> /\ LastOf(<<>>) = <<>>
    <3>1. LastOf(<<>>) \in Seq({}) /\ Len(LastOf(<<>>)) <= 0
      <4>1. <<>> \in Seq({}) /\ Len(<<>>) = 0
        OBVIOUS
      <4> QED BY <4>1, LastOfIs
    <3> QED BY <3>1, ListFirst
  <2>3. Capped(<<>>, LineCap) = <<>> /\ ~(Len(<<>>) > LineCap)
    BY LogAssumption DEF Capped
  <2>4. /\ NewLog.partial = <<>> /\ NewLog.lines = <<>> /\ NewLog.cr = FALSE
        /\ NewLog.cut = FALSE /\ NewLog.full = FALSE
    BY DEF NewLog
  <2>5. 0 + 1 = 1 /\ ~(0 > 0)
    OBVIOUS
  <2> QED BY <1>3, <2>1, <2>2, <2>3, <2>4, <2>5 DEF Keeps
<1>5. 0 <= Len(file) /\ Len(file) <= MaxBytes
  BY <1>2, LogAssumption
<1> QED BY <1>1, <1>2, <1>3, <1>4, <1>5 DEF LogInv

(* The child writes, or the log reads, or neither.                           *)
LEMMA LogInvNext == LogInv /\ [LogNext]_logVars => LogInv'
<1> SUFFICES ASSUME LogInv, [LogNext]_logVars PROVE LogInv'
  OBVIOUS
<1>1. file \in Seq(ByteKinds) /\ Len(file) <= MaxBytes /\ Spelled /\ Len(file) \in Nat
  BY DEF LogInv
<1>2. PICK l \in LogRec :
        log = l /\ l.off <= Len(file) /\ l.from <= l.off /\ Keeps(l, l.off)
  BY DEF LogInv
<1>3. l.off \in Nat /\ l.from \in Nat /\ l.off \in 0..Len(file)
  BY <1>1, <1>2 DEF LogRec
<1>4. CASE ChildWrites
  <2>1. PICK byte \in ByteKinds :
          /\ (byte = "cont") <=> (file # <<>> /\ Last(file) = "lead")
          /\ file' = Append(file, byte)
    BY <1>4 DEF ChildWrites
  <2>2. Len(file) < MaxBytes /\ log' = log
    BY <1>4 DEF ChildWrites
  <2>3. /\ file' \in Seq(ByteKinds) /\ Len(file') = Len(file) + 1
        /\ \A i \in 1..Len(file) : file'[i] = file[i]
        /\ file'[Len(file) + 1] = byte
    BY <1>1, <2>1
  <2>4. Grown
    BY <1>1, <2>3 DEF Grown
  <2>5. Len(file') <= MaxBytes
    BY <1>1, <2>2, <2>3, LogAssumption
  <2>6. Spelled'
    <3> SUFFICES ASSUME NEW i \in DOMAIN file'
                 PROVE  file'[i] = "cont" <=> i > 1 /\ file'[i - 1] = "lead"
      BY DEF Spelled
    <3>1. i \in 1..(Len(file) + 1)
      BY <2>3
    <3>2. CASE i = Len(file) + 1
      <4>1. file # <<>> <=> i > 1
        BY <1>1, <3>2
      <4>2. i > 1 => i - 1 \in 1..Len(file) /\ Last(file) = file[i - 1]
        BY <1>1, <3>2 DEF Last
      <4> QED BY <2>1, <2>3, <3>2, <4>1, <4>2
    <3>3. CASE i # Len(file) + 1
      <4>1. i \in DOMAIN file /\ i \in 1..Len(file) /\ (i > 1 => i - 1 \in 1..Len(file))
        BY <1>1, <3>1, <3>3
      <4> QED BY <1>1, <2>3, <4>1 DEF Spelled
    <3> QED BY <3>2, <3>3
  <2>7. Keeps(l, l.off)'
    BY <1>2, <1>3, <2>4, KeepsStays
  <2>8. log' = l /\ l.off <= Len(file') /\ l.from <= l.off
    BY <1>1, <1>2, <1>3, <2>2, <2>3
  <2> QED BY <2>3, <2>5, <2>6, <2>7, <2>8 DEF LogInv
<1>5. CASE ReadNew
  <2> DEFINE w == Window(l, Len(file))
  <2>1. l.off < Len(file) /\ file' = file
    BY <1>2, <1>5 DEF ReadNew
  <2>2. PICK stop \in w.off..Len(file) : log' = Parsed(w, stop)
    BY <1>2, <1>5 DEF ReadNew
  <2>3. w \in LogRec /\ w.off <= Len(file) /\ w.from <= w.off /\ Keeps(w, w.off)
    <3>1. CASE Len(file) - l.off <= ReadWindow + 1
      BY <1>1, <1>2, <3>1 DEF Window
    <3>2. CASE ~(Len(file) - l.off <= ReadWindow + 1)
      <4> DEFINE g == Len(file) - ReadWindow - 1
      <4>1. g \in 1..Len(file)
        BY <1>1, <1>3, <3>2, LogAssumption
      <4>2. w = Skipped(g)
        BY <3>2 DEF Window
      <4>3. Skipped(g).off = g /\ Skipped(g).from = g
        BY DEF Skipped, NewLog
      <4> HIDE DEF g
      <4> QED BY <1>1, <4>1, <4>2, <4>3, SkippedKeeps
    <3> QED BY <3>1, <3>2
  <2> HIDE DEF w
  <2>4. PICK m \in LogRec : m = Parsed(w, stop)
    BY <1>1, <2>3, ParsedKeeps
  <2>5. m.off = stop /\ m.from = w.from /\ Keeps(m, stop)
    BY <1>1, <2>3, <2>4, ParsedKeeps
  <2>6. stop \in 0..Len(file) /\ m.from <= stop /\ stop <= Len(file)
    BY <1>1, <2>3, <2>5 DEF LogRec
  <2>7. Grown
    BY <1>1, <2>1 DEF Grown
  <2>8. Keeps(m, m.off)'
    BY <2>5, <2>6, <2>7, KeepsStays
  <2>9. log' = m /\ m.off <= Len(file') /\ m.from <= m.off
    BY <2>1, <2>2, <2>4, <2>5, <2>6
  <2>10. Spelled' /\ file' \in Seq(ByteKinds) /\ Len(file') <= MaxBytes
    BY <1>1, <2>1 DEF Spelled
  <2> QED BY <2>8, <2>9, <2>10 DEF LogInv
<1>6. CASE UNCHANGED logVars
  <2>1. file' = file /\ log' = log
    BY <1>6 DEF logVars
  <2>2. Grown
    BY <1>1, <2>1 DEF Grown
  <2>3. Keeps(l, l.off)'
    BY <1>2, <1>3, <2>2, KeepsStays
  <2>4. Spelled' /\ file' \in Seq(ByteKinds) /\ Len(file') <= MaxBytes
    BY <1>1, <2>1 DEF Spelled
  <2> QED BY <1>2, <2>1, <2>3, <2>4 DEF LogInv
<1> QED BY <1>4, <1>5, <1>6 DEF LogNext

-----------------------------------------------------------------------------
(* The theorems.                                                             *)

(* The lines that could be known of what was read: those that have ended,    *)
(* and the line that the log is in.                                          *)
LEMMA KnownLinesAre ==
  ASSUME log.off \in Nat, log.from \in Nat, log.from <= log.off
  PROVE  LET p == ListOf(log.off, log.from)
             x == Known(log.off + 1, log.from)
         IN KnownLines = IF ShowsNothing(x.bytes) THEN p ELSE Append(p, x)
<1> DEFINE i == log.off
           g == log.from
           S == {e \in LineEnds : e > g /\ ~ShowsNothing(Known(e, g).bytes)}
           o == EndsOf(i, g)
           r == InOrder(S, i + 1)
           p == ListOf(i, g)
           x == Known(i + 1, g)
<1>1. \A k \in 1..i : k \in S <=> k \in ShownEnds(i, g)
  BY DEF LineEnds, ShownEnds
<1>2. i + 1 \in S <=> ~ShowsNothing(x.bytes)
  BY DEF LineEnds
<1>3. InOrder(S, i) = o
  BY <1>1, OrderSame DEF EndsOf
<1>4. r = IF i + 1 \in S THEN Append(o, i + 1) ELSE o
  BY <1>3, OrderNext
<1>5. o \in Seq(1..i) /\ Len(o) \in Nat
  <2>1. Listing(o, ShownEnds(i, g), i)
    BY ListIs
  <2>2. o \in Seq(1..i)
    BY <2>1 DEF Listing
  <2> HIDE DEF o
  <2> QED BY <2>2
<1>6. /\ p \in Seq(LinesTo(i)) /\ Len(p) = Len(o)
      /\ \A k \in 1..Len(o) : p[k] = Known(o[k], g)
  BY ListIs
<1>7. KnownLines = [k \in DOMAIN r |-> Known(r[k], g)]
  BY DEF KnownLines
<1>0. x \in LinesTo(i)
  <2>1. i + 1 \in Nat \ {0} /\ (i + 1) - 1 = i
    OBVIOUS
  <2> QED BY <2>1, KnownIs
<1> HIDE DEF r, o, p, S, x
<1>8. CASE i + 1 \in S
  <2>1. /\ r = Append(o, i + 1) /\ DOMAIN r = 1..(Len(o) + 1) /\ r[Len(o) + 1] = i + 1
        /\ \A k \in 1..Len(o) : r[k] = o[k]
    BY <1>4, <1>5, <1>8
  <2> DEFINE q == Append(p, x)
  <2>2. /\ q = [k \in 1..(Len(o) + 1) |-> q[k]] /\ q[Len(o) + 1] = x
        /\ \A k \in 1..Len(o) : q[k] = p[k]
    <3>1. p \in Seq(LinesTo(i)) /\ Len(p) = Len(o)
      BY <1>6
    <3>2. q \in Seq(LinesTo(i)) /\ Len(q) = Len(o) + 1 /\ q[Len(o) + 1] = x
      BY <1>0, <1>5, <3>1
    <3>3. \A k \in 1..Len(o) : q[k] = p[k]
      BY <1>5, <3>1
    <3> HIDE DEF q
    <3> QED BY <3>2, <3>3
  <2> HIDE DEF q
  <2>3. \A k \in 1..(Len(o) + 1) : q[k] = Known(r[k], g)
    <3> TAKE k \in 1..(Len(o) + 1)
    <3>1. k = Len(o) + 1 \/ k \in 1..Len(o)
      BY <1>5
    <3> QED BY <1>6, <2>1, <2>2, <3>1 DEF x
  <2>4. KnownLines = q
    BY <1>7, <2>1, <2>2, <2>3
  <2> QED BY <1>2, <1>8, <2>4 DEF q, p, x
<1>9. CASE i + 1 \notin S
  <2>1. r = o /\ DOMAIN r = 1..Len(o)
    BY <1>4, <1>5, <1>9
  <2>2. p = [k \in 1..Len(o) |-> p[k]]
    BY <1>5, <1>6
  <2>3. KnownLines = p
    BY <1>6, <1>7, <2>1, <2>2
  <2> QED BY <1>2, <1>9, <2>3 DEF p, x
<1> QED BY <1>8, <1>9

(* Of the lines that have ended only the first can have the marker: each     *)
(* later one begins after another that has ended.                            *)
LEMMA MarkedFirst ==
  ASSUME NEW i \in Nat, NEW g \in Nat, NEW j \in 1..Len(EndsOf(i, g)), j > 1
  PROVE  ~Known(EndsOf(i, g)[j], g).mark
<1> DEFINE o == EndsOf(i, g)
<1>1. Listing(o, ShownEnds(i, g), i)
  BY ListIs
<1>2. o \in Seq(1..i) /\ Len(o) \in Nat
  BY <1>1 DEF Listing
<1> HIDE DEF o
<1>3. /\ j - 1 \in 1..(Len(o) - 1) /\ (j - 1) + 1 = j
      /\ j - 1 \in DOMAIN o /\ j \in DOMAIN o
  BY <1>2 DEF o
<1>4. o[j - 1] < o[j] /\ o[j - 1] \in ShownEnds(i, g) /\ o[j - 1] \in 1..i /\ o[j] \in 1..i
  <2>1. \A k \in 1..(Len(o) - 1) : o[k] < o[k + 1]
    BY <1>1, Zenon DEF Listing
  <2>2. \A k \in DOMAIN o : o[k] \in ShownEnds(i, g)
    BY <1>1, Zenon DEF Listing
  <2>3. o[j - 1] < o[(j - 1) + 1]
    BY <1>3, <2>1
  <2>4. o[j - 1] \in ShownEnds(i, g)
    BY <1>3, <2>2
  <2>5. \A k \in DOMAIN o : o[k] \in 1..i
    BY <1>2
  <2>6. o[j - 1] \in 1..i /\ o[j] \in 1..i
    BY <1>3, <2>5
  <2> QED BY <1>3, <2>3, <2>4, <2>6
<1>5. file[o[j - 1]] = "lf" /\ o[j - 1] > g
  BY <1>4 DEF ShownEnds
<1>6. o[j] \in Nat \ {0}
  BY <1>4
<1>7. /\ Begins(o[j]) \in 1..o[j] /\ From(o[j]) \in Begins(o[j])..o[j]
      /\ \A m \in Begins(o[j])..(o[j] - 1) : file[m] # "lf"
  BY <1>6, FromIs, LineBegins
<1>8. Begins(o[j]) > o[j - 1]
  BY <1>4, <1>5, <1>7
<1>9. From(o[j]) > g
  BY <1>4, <1>5, <1>7, <1>8
<1>10. Known(o[j], g) = ShownLine(FALSE, Capped(TextOf(o[j], 0), LineCap))
  BY <1>6, <1>9, KnownIs
<1> QED BY <1>10 DEF ShownLine, o

(* What the invariant says of the tail.                                      *)
LEMMA LogInvTail == LogInv => TailIsTrue
<1> SUFFICES ASSUME LogInv PROVE TailIsTrue
  OBVIOUS
<1>1. file \in Seq(ByteKinds) /\ Spelled /\ Len(file) \in Nat
  BY DEF LogInv
<1>2. /\ log \in LogRec /\ log.off <= Len(file) /\ log.from <= log.off
      /\ Keeps(log, log.off)
  BY DEF LogInv
<1> DEFINE i == log.off
           g == log.from
           p == ListOf(i, g)
           o == EndsOf(i, g)
           x == Known(i + 1, g)
           y == Shown(log)
           lines == log.lines
           tail == TailOf(log)
<1>3. i \in Nat /\ g \in Nat /\ i \in 0..Len(file) /\ i \in 0..(Len(file) + 1)
  BY <1>1, <1>2 DEF LogRec
<1>4. /\ ShowsNothing(y.bytes) <=> ShowsNothing(x.bytes)
      /\ ~ShowsNothing(y.bytes) => y = x
      /\ y \in LinesTo(i)
  BY <1>1, <1>2, <1>3, ShownIs
<1>5. lines = LastOf(p) /\ p \in Seq(LinesTo(i))
  BY <1>2, <1>3, ListIs DEF Keeps
<1>6. KnownLines = IF ShowsNothing(x.bytes) THEN p ELSE Append(p, x)
  BY <1>2, <1>3, KnownLinesAre
<1>7. tail = LastOf(IF ShowsNothing(y.bytes) THEN lines ELSE Append(lines, y))
  BY DEF TailOf
<1>8. TailLines \in Nat \ {0}
  BY LogAssumption
<1>9. lines \in Seq(LinesTo(i))
  BY <1>5, LastOfIs
<1>10. tail = LastOf(KnownLines)
  <2>1. CASE ShowsNothing(y.bytes)
    BY <1>4, <1>5, <1>6, <1>7, <2>1, LastOfLast
  <2>2. CASE ~ShowsNothing(y.bytes)
    <3>1. KnownLines = Append(p, y) /\ tail = LastOf(Append(lines, y))
      BY <1>4, <1>6, <1>7, <2>2
    <3>2. LastOf(Append(LastOf(p), y)) = LastOf(Append(p, y))
      BY <1>4, <1>5, LastOfAppend
    <3> QED BY <1>5, <3>1, <3>2
  <2> QED BY <2>1, <2>2
<1>11. ASSUME NEW k \in DOMAIN lines
       PROVE  /\ file[Head(lines[k].bytes)] # "cont"
              /\ file[Last(lines[k].bytes)] # "lead"
              /\ lines[k].mark => k = 1
  <2>1. /\ Len(lines) <= Len(p) /\ k \in 1..Len(lines) /\ Len(p) \in Nat /\ Len(lines) \in Nat
        /\ lines[k] = p[Len(p) - Len(lines) + k]
    <3> HIDE DEF lines, p
    <3>1. k \in 1..Len(lines) /\ Len(lines) \in Nat /\ Len(p) \in Nat
      BY <1>5, <1>9
    <3>2. /\ Len(LastOf(p)) <= Len(p)
          /\ \A m \in 1..Len(LastOf(p)) : LastOf(p)[m] = p[Len(p) - Len(LastOf(p)) + m]
      BY <1>5, LastOfIs
    <3> QED BY <1>5, <3>1, <3>2
  <2> DEFINE j == Len(p) - Len(lines) + k
  <2>2. j \in 1..Len(p) /\ (k # 1 => j > 1)
    <3>1. Len(lines) <= Len(p) /\ k \in 1..Len(lines) /\ Len(p) \in Nat /\ Len(lines) \in Nat
      BY <2>1
    <3> HIDE DEF lines, p
    <3> QED BY <3>1
  <2>3. Len(p) = Len(o) /\ \A m \in 1..Len(o) : o[m] \in 1..i /\ p[m] = Known(o[m], g)
    BY <1>3, ListIs
  <2>4. Listing(o, ShownEnds(i, g), i)
    BY <1>3, ListIs
  <2> HIDE DEF j, o, p, lines, g, i
  <2>5. j \in 1..Len(o) /\ lines[k] = Known(o[j], g) /\ o[j] \in 1..i
    BY <2>1, <2>2, <2>3 DEF j
  <2>6. o[j] \in ShownEnds(i, g)
    BY <2>4, <2>5 DEF Listing
  <2>7. file[o[j]] = "lf" /\ ~ShowsNothing(lines[k].bytes)
    BY <2>5, <2>6 DEF ShownEnds
  <2>8. lines[k].bytes # <<>>
    BY <2>7 DEF ShowsNothing
  <2>9. o[j] \in 1..Len(file)
    BY <1>1, <1>3, <2>5
  <2>10. Headed(lines[k].bytes) /\ EndsWhole(lines[k].bytes)
    BY <1>1, <1>3, <2>5, <2>7, <2>9, KnownRunes
  <2>11. k # 1 => ~lines[k].mark
    <3> SUFFICES ASSUME k # 1 PROVE ~lines[k].mark
      OBVIOUS
    <3>1. j > 1 /\ j \in 1..Len(EndsOf(i, g))
      BY <2>2, <2>5 DEF o
    <3>2. ~Known(EndsOf(i, g)[j], g).mark
      BY <1>3, <3>1, MarkedFirst
    <3> QED BY <2>5, <3>2 DEF o
  <2> QED BY <2>8, <2>10, <2>11 DEF Headed, EndsWhole
<1>12. LiveLine(log) = IF tail = <<>> THEN ShownLine(FALSE, <<>>) ELSE Last(tail)
  <2>1. LiveLine(log) = IF ~ShowsNothing(y.bytes) THEN y
                        ELSE IF lines = <<>> THEN ShownLine(FALSE, <<>>) ELSE Last(lines)
    BY DEF LiveLine
  <2> HIDE DEF y, lines, tail, p, i, g
  <2>2. CASE ShowsNothing(y.bytes)
    <3>1. tail = lines
      BY <1>5, <1>7, <2>2, LastOfLast
    <3> QED BY <2>1, <2>2, <3>1
  <2>3. CASE ~ShowsNothing(y.bytes)
    <3> DEFINE q == Append(lines, y)
    <3>1. q \in Seq(LinesTo(i)) /\ Len(q) = Len(lines) + 1 /\ Len(lines) \in Nat /\ q[Len(q)] = y
      BY <1>4, <1>9
    <3> HIDE DEF q
    <3>2. tail = LastOf(q)
      BY <1>7, <2>3 DEF q
    <3>3. /\ Len(tail) = (IF Len(q) <= TailLines THEN Len(q) ELSE TailLines)
          /\ tail \in Seq(LinesTo(i))
          /\ \A k \in 1..Len(tail) : tail[k] = q[Len(q) - Len(tail) + k]
      BY <3>1, <3>2, LastOfIs
    <3>4. Len(tail) \in 1..Len(tail) /\ Len(q) - Len(tail) + Len(tail) = Len(q)
      BY <1>8, <3>1, <3>3
    <3>5. Last(tail) = y /\ tail # <<>>
      BY <3>1, <3>3, <3>4 DEF Last
    <3> QED BY <2>1, <2>3, <3>5
  <2> QED BY <2>2, <2>3
<1> QED BY <1>10, <1>11, <1>12 DEF TailIsTrue

(* And of the types.                                                         *)
LEMMA LogInvType == LogInv => LogTypeOK
<1> SUFFICES ASSUME LogInv PROVE LogTypeOK
  OBVIOUS
<1>1. file \in Seq(ByteKinds) /\ Len(file) <= MaxBytes /\ Len(file) \in Nat
  BY DEF LogInv
<1>2. /\ log \in LogRec /\ log.off <= Len(file) /\ log.from <= log.off
      /\ Keeps(log, log.off)
  BY DEF LogInv
<1>3. /\ log.off \in 0..Len(file) /\ log.from \in 0..log.off /\ log.off \in Nat
      /\ {log.cr, log.full, log.cut} \subseteq BOOLEAN
      /\ log.from \in Nat
  BY <1>1, <1>2 DEF LogRec
<1> DEFINE t == TextOf(log.off + 1, log.from)
<1>4. t \in Seq(1..Len(file))
  <2>1. log.off + 1 \in Nat \ {0} /\ (log.off + 1) - 1 = log.off
    BY <1>3
  <2>2. t \in Seq(1..log.off)
    BY <1>3, <2>1, TextIn
  <2> QED BY <1>1, <1>2, <1>3, <2>2, PlacesWiden
<1>5. log.partial = Capped(t, LineCap)
  BY <1>2 DEF Keeps
<1> HIDE DEF t
<1>6. log.partial \in Seq(1..Len(file)) /\ Len(log.partial) <= LineCap
  <2>1. LineCap \in Nat /\ LineCap > 1
    BY LogAssumption
  <2> QED BY <1>1, <1>4, <1>5, <2>1, CappedRunes
<1>7. ToSet(log.partial) \subseteq DOMAIN file
  BY <1>1, <1>6 DEF ToSet
<1>8. Len(log.lines) <= TailLines
  <2>1. ListOf(log.off, log.from) \in Seq(LinesTo(log.off))
    BY <1>3, ListIs
  <2>2. log.lines = LastOf(ListOf(log.off, log.from))
    BY <1>2 DEF Keeps
  <2> QED BY <2>1, <2>2, LastOfIs
<1> QED BY <1>1, <1>3, <1>6, <1>7, <1>8 DEF LogTypeOK

(* However the child writes and the log reads, at every bound, for any       *)
(* window and any cap: the tail is the last lines of what was read, as a     *)
(* terminal would have shown them, cut between runes, marked where a window  *)
(* cut them, and the live line is the last of them.                          *)
THEOREM LogTellsTheTruth == LogSpec => []TailIsTrue
<1>1. LogInv => TailIsTrue
  BY LogInvTail
<1>2. LogInit => LogInv
  BY LogInvInit
<1>3. LogInv /\ [LogNext]_logVars => LogInv'
  BY LogInvNext
<1> QED BY <1>1, <1>2, <1>3, PTL DEF LogSpec

(* The log is of its types: what it keeps of a line are places of the file,  *)
(* never more than the cap, and of the lines never more than the tail has.   *)
THEOREM LogTypeCorrect == LogSpec => []LogTypeOK
<1>1. LogInv => LogTypeOK
  BY LogInvType
<1>2. LogInit => LogInv
  BY LogInvInit
<1>3. LogInv /\ [LogNext]_logVars => LogInv'
  BY LogInvNext
<1> QED BY <1>1, <1>2, <1>3, PTL DEF LogSpec

-----------------------------------------------------------------------------
(* The runner and the log of a task, as one run checks them.                 *)

(* A behaviour of both is one of each.                                       *)
LEMMA RunIsBoth == RunSpec => Spec /\ LogSpec
<1>1. RunInit => Init /\ LogInit
  BY DEF RunInit
<1>2. [RunNext]_<<on, vars, logVars>> => [Next]_vars /\ [LogNext]_logVars
  BY DEF RunNext
<1> QED BY <1>1, <1>2, PTL DEF RunSpec, Spec, LogSpec

(***************************************************************************)
(* The types of both, for any number of tasks, nested Runs, messages and    *)
(* signals, any limit on the log and any bytes a task writes to it.         *)
(***************************************************************************)
THEOREM RunTypeCorrect == RunSpec => []RunTypeOK
<1>1. TypeOK /\ LogTypeOK => RunTypeOK
  BY DEF RunTypeOK
<1> QED BY <1>1, RunIsBoth, TypeCorrect, LogTypeCorrect, PTL
=============================================================================
