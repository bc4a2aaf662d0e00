---------------------------- MODULE SqlTextProofs ----------------------------
(***************************************************************************)
(* Proofs about the text functions, for texts of every length: the two     *)
(* splitters cut where the lexer is at top level, what is split and then   *)
(* stripped is one statement, and Redis tokens are the runs of their line. *)
(*                                                                         *)
(* Each function is a recursion over positions.  It is unfolded once (its  *)
(* LEMMA ...Unfolds), and compared with the lexer by induction over the    *)
(* positions (Induction).                                                  *)
(***************************************************************************)
EXTENDS SqlText, TLAPS, SequenceTheorems, WellFoundedInduction

less == {p \in Nat \X Nat : p[1] < p[2]}

\* A set of naturals has a least element.
LEMMA SmallestOf ==
    ASSUME NEW I, I \subseteq Nat, I # {}
    PROVE  Min(I) \in I /\ \A y \in I : Min(I) <= y
  <1>1. IsWellFoundedOn(less, Nat)
    BY NatLessThanWellFounded DEF OpToRel, less
  <1>2. PICK x \in I : \A y \in I : ~(<<y, x>> \in less)
    BY <1>1, WFMin
  <1>3. ASSUME NEW y \in I PROVE x <= y
    <2>1. x \in Nat /\ y \in Nat
      OBVIOUS
    <2>2. <<y, x>> \notin less
      BY <1>2
    <2>. QED  BY <2>1, <2>2 DEF less
  <1>. QED  BY <1>3 DEF Min

\* What holds at 0 and at each position if it holds at the one before, holds at all.
LEMMA Induction ==
    ASSUME NEW n \in Nat, NEW S, 0 \in S, \A k \in 1..n : k - 1 \in S => k \in S
    PROVE  \A k \in 0..n : k \in S
  <1>. DEFINE I == {k \in 0..n : k \notin S}
  <1>1. SUFFICES ASSUME I # {} PROVE FALSE
    OBVIOUS
  <1>2. PICK m : m = Min(I)
    OBVIOUS
  <1>3. m \in I /\ \A y \in I : m <= y
    BY <1>1, <1>2, SmallestOf
  <1>4. m \in 1..n /\ m - 1 \in 0..n /\ m - 1 \notin I
    BY <1>3
  <1>. QED  BY <1>3, <1>4

\* A bounded set of naturals has a greatest element.
LEMMA LargestOf ==
    ASSUME NEW n \in Nat, NEW I, I \subseteq 0..n, I # {}
    PROVE  Max(I) \in I /\ \A y \in I : Max(I) >= y
  <1>. DEFINE J == {n - k : k \in I}
  <1>1. PICK m : m = Min(J)
    OBVIOUS
  <1>2. J \subseteq Nat /\ J # {}
    <2>1. \A k \in I : n - k \in Nat
      OBVIOUS
    <2>. QED  BY <2>1
  <1>3. m \in J /\ \A y \in J : m <= y
    BY <1>1, <1>2, SmallestOf
  <1>4. PICK x \in I : m = n - x
    BY <1>3
  <1>5. ASSUME NEW y \in I PROVE x >= y
    <2>1. n - y \in J
      OBVIOUS
    <2>2. n - x <= n - y
      BY <1>3, <1>4, <2>1
    <2>. QED  BY <2>2
  <1>. QED  BY <1>5 DEF Max

-----------------------------------------------------------------------------
(* The recursions                                                           *)

\* The lexer, one character at a time.
LEMMA LexUnfolds ==
    ASSUME NEW s, Len(s) \in Nat, NEW quotes
    PROVE  /\ lexed(s, quotes)[0] = "code"
           /\ \A k \in 1..Len(s) : lexed(s, quotes)[k] = lex_char(s, quotes, lexed(s, quotes)[k - 1], k)
  <1>. DEFINE From(n) == \E g : g = [k \in 0..n |-> IF k = 0 THEN "code"
                                                     ELSE lex_char(s, quotes, g[k - 1], k)]
              S == {n \in Nat : From(n)}
  <1>1. 0 \in S
    <2>. DEFINE g == [k \in 0..0 |-> "code"]
    <2>1. g = [k \in 0..0 |-> IF k = 0 THEN "code" ELSE lex_char(s, quotes, g[k - 1], k)]
      OBVIOUS
    <2>. QED  BY <2>1
  <1>2. ASSUME NEW n \in 1..Len(s), n - 1 \in S PROVE n \in S
    <2>1. PICK f : f = [k \in 0..n-1 |-> IF k = 0 THEN "code" ELSE lex_char(s, quotes, f[k - 1], k)]
      BY <1>2
    <2>. DEFINE g == [k \in 0..n |-> IF k = n THEN lex_char(s, quotes, f[n - 1], n) ELSE f[k]]
    <2>2. g = [k \in 0..n |-> IF k = 0 THEN "code" ELSE lex_char(s, quotes, g[k - 1], k)]
      <3>1. ASSUME NEW k \in 0..n
            PROVE  g[k] = IF k = 0 THEN "code" ELSE lex_char(s, quotes, g[k - 1], k)
        BY <2>1
      <3>. QED  BY <3>1
    <2>. HIDE DEF g
    <2>. QED  BY <2>2
  <1>. HIDE DEF S
  <1>3. \A k \in 0..Len(s) : k \in S
    BY <1>1, <1>2, Induction
  <1>4. \E g : g = [k \in 0..Len(s) |-> IF k = 0 THEN "code" ELSE lex_char(s, quotes, g[k - 1], k)]
    BY <1>3 DEF S
  <1>5. lexed(s, quotes) =
         [k \in 0..Len(s) |-> IF k = 0 THEN "code"
                               ELSE lex_char(s, quotes, lexed(s, quotes)[k - 1], k)]
    BY <1>4, Zenon DEF lexed
  <1>. QED  BY <1>5

\* The loop of split_ds_sql_statements, one turn at a time.
LEMMA DsUnfolds ==
    ASSUME NEW s, Len(s) \in Nat
    PROVE  /\ ds_after(s)[0] = ds_start
           /\ \A k \in 1..Len(s) : ds_after(s)[k] = ds_char(s, ds_after(s)[k - 1], k)
  <1>. DEFINE From(n) == \E g : g = [k \in 0..n |-> IF k = 0 THEN ds_start
                                                     ELSE ds_char(s, g[k - 1], k)]
              S == {n \in Nat : From(n)}
  <1>1. 0 \in S
    <2>. DEFINE g == [k \in 0..0 |-> ds_start]
    <2>1. g = [k \in 0..0 |-> IF k = 0 THEN ds_start ELSE ds_char(s, g[k - 1], k)]
      OBVIOUS
    <2>. QED  BY <2>1
  <1>2. ASSUME NEW n \in 1..Len(s), n - 1 \in S PROVE n \in S
    <2>1. PICK f : f = [k \in 0..n-1 |-> IF k = 0 THEN ds_start ELSE ds_char(s, f[k - 1], k)]
      BY <1>2
    <2>. DEFINE g == [k \in 0..n |-> IF k = n THEN ds_char(s, f[n - 1], n) ELSE f[k]]
    <2>2. g = [k \in 0..n |-> IF k = 0 THEN ds_start ELSE ds_char(s, g[k - 1], k)]
      <3>1. ASSUME NEW k \in 0..n
            PROVE  g[k] = IF k = 0 THEN ds_start ELSE ds_char(s, g[k - 1], k)
        BY <2>1
      <3>. QED  BY <3>1
    <2>. HIDE DEF g
    <2>. QED  BY <2>2
  <1>. HIDE DEF S
  <1>3. \A k \in 0..Len(s) : k \in S
    BY <1>1, <1>2, Induction
  <1>4. \E g : g = [k \in 0..Len(s) |-> IF k = 0 THEN ds_start ELSE ds_char(s, g[k - 1], k)]
    BY <1>3 DEF S
  <1>5. ds_after(s) =
         [k \in 0..Len(s) |-> IF k = 0 THEN ds_start
                               ELSE ds_char(s, ds_after(s)[k - 1], k)]
    BY <1>4, Zenon DEF ds_after
  <1>. QED  BY <1>5

\* The loop of split_clickhouse_statements, one turn at a time.
LEMMA ChUnfolds ==
    ASSUME NEW s, Len(s) \in Nat
    PROVE  /\ ch_after(s)[0] = ch_start
           /\ \A k \in 1..Len(s) : ch_after(s)[k] = ch_char(s, ch_after(s)[k - 1], k)
  <1>. DEFINE From(n) == \E g : g = [k \in 0..n |-> IF k = 0 THEN ch_start
                                                     ELSE ch_char(s, g[k - 1], k)]
              S == {n \in Nat : From(n)}
  <1>1. 0 \in S
    <2>. DEFINE g == [k \in 0..0 |-> ch_start]
    <2>1. g = [k \in 0..0 |-> IF k = 0 THEN ch_start ELSE ch_char(s, g[k - 1], k)]
      OBVIOUS
    <2>. QED  BY <2>1
  <1>2. ASSUME NEW n \in 1..Len(s), n - 1 \in S PROVE n \in S
    <2>1. PICK f : f = [k \in 0..n-1 |-> IF k = 0 THEN ch_start ELSE ch_char(s, f[k - 1], k)]
      BY <1>2
    <2>. DEFINE g == [k \in 0..n |-> IF k = n THEN ch_char(s, f[n - 1], n) ELSE f[k]]
    <2>2. g = [k \in 0..n |-> IF k = 0 THEN ch_start ELSE ch_char(s, g[k - 1], k)]
      <3>1. ASSUME NEW k \in 0..n
            PROVE  g[k] = IF k = 0 THEN ch_start ELSE ch_char(s, g[k - 1], k)
        BY <2>1
      <3>. QED  BY <3>1
    <2>. HIDE DEF g
    <2>. QED  BY <2>2
  <1>. HIDE DEF S
  <1>3. \A k \in 0..Len(s) : k \in S
    BY <1>1, <1>2, Induction
  <1>4. \E g : g = [k \in 0..Len(s) |-> IF k = 0 THEN ch_start ELSE ch_char(s, g[k - 1], k)]
    BY <1>3 DEF S
  <1>5. ch_after(s) =
         [k \in 0..Len(s) |-> IF k = 0 THEN ch_start
                               ELSE ch_char(s, ch_after(s)[k - 1], k)]
    BY <1>4, Zenon DEF ch_after
  <1>. QED  BY <1>5

\* The loop of strip_sql_comments, one turn at a time.
LEMMA StripUnfolds ==
    ASSUME NEW s, Len(s) \in Nat
    PROVE  /\ strip_after(s)[0] = strip_start
           /\ \A k \in 1..Len(s) : strip_after(s)[k] = strip_char(s, strip_after(s)[k - 1], k)
  <1>. DEFINE From(n) == \E g : g = [k \in 0..n |-> IF k = 0 THEN strip_start
                                                     ELSE strip_char(s, g[k - 1], k)]
              S == {n \in Nat : From(n)}
  <1>1. 0 \in S
    <2>. DEFINE g == [k \in 0..0 |-> strip_start]
    <2>1. g = [k \in 0..0 |-> IF k = 0 THEN strip_start ELSE strip_char(s, g[k - 1], k)]
      OBVIOUS
    <2>. QED  BY <2>1
  <1>2. ASSUME NEW n \in 1..Len(s), n - 1 \in S PROVE n \in S
    <2>1. PICK f : f = [k \in 0..n-1 |-> IF k = 0 THEN strip_start ELSE strip_char(s, f[k - 1], k)]
      BY <1>2
    <2>. DEFINE g == [k \in 0..n |-> IF k = n THEN strip_char(s, f[n - 1], n) ELSE f[k]]
    <2>2. g = [k \in 0..n |-> IF k = 0 THEN strip_start ELSE strip_char(s, g[k - 1], k)]
      <3>1. ASSUME NEW k \in 0..n
            PROVE  g[k] = IF k = 0 THEN strip_start ELSE strip_char(s, g[k - 1], k)
        BY <2>1
      <3>. QED  BY <3>1
    <2>. HIDE DEF g
    <2>. QED  BY <2>2
  <1>. HIDE DEF S
  <1>3. \A k \in 0..Len(s) : k \in S
    BY <1>1, <1>2, Induction
  <1>4. \E g : g = [k \in 0..Len(s) |-> IF k = 0 THEN strip_start ELSE strip_char(s, g[k - 1], k)]
    BY <1>3 DEF S
  <1>5. strip_after(s) =
         [k \in 0..Len(s) |-> IF k = 0 THEN strip_start
                               ELSE strip_char(s, strip_after(s)[k - 1], k)]
    BY <1>4, Zenon DEF strip_after
  <1>. QED  BY <1>5

\* The loop of tokenize_redis_line, one turn at a time.
LEMMA TokensUnfolds ==
    ASSUME NEW s, Len(s) \in Nat
    PROVE  /\ tokens_after(s)[0] = tokens_start
           /\ \A k \in 1..Len(s) : tokens_after(s)[k] = token_char(s, tokens_after(s)[k - 1], k)
  <1>. DEFINE From(n) == \E g : g = [k \in 0..n |-> IF k = 0 THEN tokens_start
                                                     ELSE token_char(s, g[k - 1], k)]
              S == {n \in Nat : From(n)}
  <1>1. 0 \in S
    <2>. DEFINE g == [k \in 0..0 |-> tokens_start]
    <2>1. g = [k \in 0..0 |-> IF k = 0 THEN tokens_start ELSE token_char(s, g[k - 1], k)]
      OBVIOUS
    <2>. QED  BY <2>1
  <1>2. ASSUME NEW n \in 1..Len(s), n - 1 \in S PROVE n \in S
    <2>1. PICK f : f = [k \in 0..n-1 |-> IF k = 0 THEN tokens_start ELSE token_char(s, f[k - 1], k)]
      BY <1>2
    <2>. DEFINE g == [k \in 0..n |-> IF k = n THEN token_char(s, f[n - 1], n) ELSE f[k]]
    <2>2. g = [k \in 0..n |-> IF k = 0 THEN tokens_start ELSE token_char(s, g[k - 1], k)]
      <3>1. ASSUME NEW k \in 0..n
            PROVE  g[k] = IF k = 0 THEN tokens_start ELSE token_char(s, g[k - 1], k)
        BY <2>1
      <3>. QED  BY <3>1
    <2>. HIDE DEF g
    <2>. QED  BY <2>2
  <1>. HIDE DEF S
  <1>3. \A k \in 0..Len(s) : k \in S
    BY <1>1, <1>2, Induction
  <1>4. \E g : g = [k \in 0..Len(s) |-> IF k = 0 THEN tokens_start ELSE token_char(s, g[k - 1], k)]
    BY <1>3 DEF S
  <1>5. tokens_after(s) =
         [k \in 0..Len(s) |-> IF k = 0 THEN tokens_start
                               ELSE token_char(s, tokens_after(s)[k - 1], k)]
    BY <1>4, Zenon DEF tokens_after
  <1>. QED  BY <1>5

\* What is kept of a text, one character at a time.
LEMMA KeptUnfolds ==
    ASSUME NEW s, Len(s) \in Nat, NEW ks
    PROVE  /\ kept(s, ks)[0] = << >>
           /\ \A k \in 1..Len(s) : kept(s, ks)[k] = take(s, ks, kept(s, ks)[k - 1], k)
  <1>. DEFINE From(n) == \E g : g = [k \in 0..n |-> IF k = 0 THEN << >>
                                                     ELSE take(s, ks, g[k - 1], k)]
              S == {n \in Nat : From(n)}
  <1>1. 0 \in S
    <2>. DEFINE g == [k \in 0..0 |-> << >>]
    <2>1. g = [k \in 0..0 |-> IF k = 0 THEN << >> ELSE take(s, ks, g[k - 1], k)]
      OBVIOUS
    <2>. QED  BY <2>1
  <1>2. ASSUME NEW n \in 1..Len(s), n - 1 \in S PROVE n \in S
    <2>1. PICK f : f = [k \in 0..n-1 |-> IF k = 0 THEN << >> ELSE take(s, ks, f[k - 1], k)]
      BY <1>2
    <2>. DEFINE g == [k \in 0..n |-> IF k = n THEN take(s, ks, f[n - 1], n) ELSE f[k]]
    <2>2. g = [k \in 0..n |-> IF k = 0 THEN << >> ELSE take(s, ks, g[k - 1], k)]
      <3>1. ASSUME NEW k \in 0..n
            PROVE  g[k] = IF k = 0 THEN << >> ELSE take(s, ks, g[k - 1], k)
        BY <2>1
      <3>. QED  BY <3>1
    <2>. HIDE DEF g
    <2>. QED  BY <2>2
  <1>. HIDE DEF S
  <1>3. \A k \in 0..Len(s) : k \in S
    BY <1>1, <1>2, Induction
  <1>4. \E g : g = [k \in 0..Len(s) |-> IF k = 0 THEN << >> ELSE take(s, ks, g[k - 1], k)]
    BY <1>3 DEF S
  <1>5. kept(s, ks) =
         [k \in 0..Len(s) |-> IF k = 0 THEN << >>
                               ELSE take(s, ks, kept(s, ks)[k - 1], k)]
    BY <1>4, Zenon DEF kept
  <1>. QED  BY <1>5

\* The pieces gathered, one end at a time.
LEMMA GatheredUnfolds ==
    ASSUME NEW piece, Len(piece) \in Nat, NEW ends
    PROVE  /\ gathered(piece, ends)[0] = << >>
           /\ \A k \in 1..Len(piece) :
                gathered(piece, ends)[k] = gather(piece, ends, gathered(piece, ends)[k - 1], k)
  <1>. DEFINE From(n) == \E g : g = [k \in 0..n |-> IF k = 0 THEN << >>
                                                     ELSE gather(piece, ends, g[k - 1], k)]
              S == {n \in Nat : From(n)}
  <1>1. 0 \in S
    <2>. DEFINE g == [k \in 0..0 |-> << >>]
    <2>1. g = [k \in 0..0 |-> IF k = 0 THEN << >> ELSE gather(piece, ends, g[k - 1], k)]
      OBVIOUS
    <2>. QED  BY <2>1
  <1>2. ASSUME NEW n \in 1..Len(piece), n - 1 \in S PROVE n \in S
    <2>1. PICK f : f = [k \in 0..n-1 |-> IF k = 0 THEN << >> ELSE gather(piece, ends, f[k - 1], k)]
      BY <1>2
    <2>. DEFINE g == [k \in 0..n |-> IF k = n THEN gather(piece, ends, f[n - 1], n) ELSE f[k]]
    <2>2. g = [k \in 0..n |-> IF k = 0 THEN << >> ELSE gather(piece, ends, g[k - 1], k)]
      <3>1. ASSUME NEW k \in 0..n
            PROVE  g[k] = IF k = 0 THEN << >> ELSE gather(piece, ends, g[k - 1], k)
        BY <2>1
      <3>. QED  BY <3>1
    <2>. HIDE DEF g
    <2>. QED  BY <2>2
  <1>. HIDE DEF S
  <1>3. \A k \in 0..Len(piece) : k \in S
    BY <1>1, <1>2, Induction
  <1>4. \E g : g = [k \in 0..Len(piece) |-> IF k = 0 THEN << >> ELSE gather(piece, ends, g[k - 1], k)]
    BY <1>3 DEF S
  <1>5. gathered(piece, ends) =
         [k \in 0..Len(piece) |-> IF k = 0 THEN << >>
                               ELSE gather(piece, ends, gathered(piece, ends)[k - 1], k)]
    BY <1>4, Zenon DEF gathered
  <1>. QED  BY <1>5

-----------------------------------------------------------------------------
(* Characters kept                                                          *)

\* What is kept of the first m characters depends on the first m positions.
LEMMA KeptAgree ==
    ASSUME NEW s, Len(s) \in Nat, NEW ks, NEW js, NEW m \in 0..Len(s),
           \A j \in 1..m : j \in ks <=> j \in js
    PROVE  kept(s, ks)[m] = kept(s, js)[m]
  <1>. DEFINE S == {k \in 0..m : kept(s, ks)[k] = kept(s, js)[k]}
  <1>1. 0 \in S
    BY KeptUnfolds
  <1>2. ASSUME NEW k \in 1..m, k - 1 \in S PROVE k \in S
    <2>1. k \in 1..Len(s) /\ k \in 0..m
      OBVIOUS
    <2>2. kept(s, ks)[k] = take(s, ks, kept(s, ks)[k - 1], k)
      BY <2>1, KeptUnfolds
    <2>3. kept(s, js)[k] = take(s, js, kept(s, js)[k - 1], k)
      BY <2>1, KeptUnfolds
    <2>. QED  BY <1>2, <2>1, <2>2, <2>3 DEF take
  <1>. HIDE DEF S
  <1>3. m \in Nat
    OBVIOUS
  <1>4. \A k \in 0..m : k \in S
    BY <1>1, <1>2, <1>3, Induction
  <1>. QED  BY <1>4 DEF S

\* Nothing is kept after position m.
LEMMA KeptAll ==
    ASSUME NEW s, Len(s) \in Nat, NEW ks, NEW m \in 0..Len(s),
           \A j \in m+1..Len(s) : j \notin ks
    PROVE  only(s, ks) = kept(s, ks)[m]
  <1>. DEFINE n == Len(s) - m
              S == {k \in 0..n : kept(s, ks)[m + k] = kept(s, ks)[m]}
  <1>1. 0 \in S
    OBVIOUS
  <1>2. ASSUME NEW k \in 1..n, k - 1 \in S PROVE k \in S
    <2>1. m + k \in 1..Len(s) /\ m + k \in m+1..Len(s) /\ m + (k - 1) = (m + k) - 1
      OBVIOUS
    <2>2. kept(s, ks)[m + k] = take(s, ks, kept(s, ks)[(m + k) - 1], m + k)
      BY <2>1, KeptUnfolds
    <2>3. kept(s, ks)[m + k] = kept(s, ks)[(m + k) - 1]
      BY <2>1, <2>2 DEF take
    <2>. QED  BY <1>2, <2>1, <2>3
  <1>. HIDE DEF S
  <1>3. \A k \in 0..n : k \in S
    <2>1. n \in Nat
      OBVIOUS
    <2>. HIDE DEF n
    <2>. QED  BY <1>1, <1>2, <2>1, Induction
  <1>4. n \in 0..n /\ m + n = Len(s)
    OBVIOUS
  <1>. QED  BY <1>3, <1>4 DEF S, only

\* Keeping no position gives the empty text.
LEMMA OnlyNothing ==
    ASSUME NEW s, Len(s) \in Nat
    PROVE  only(s, {}) = << >>
  BY KeptAll, KeptUnfolds

\* Keeping one more position, behind all others, appends its character.
LEMMA OnlyOneMore ==
    ASSUME NEW s, Len(s) \in Nat, NEW k \in 1..Len(s), NEW ks, ks \subseteq 1..k-1
    PROVE  only(s, ks \cup {k}) = Append(only(s, ks), s[k])
  <1>1. PICK js : js = ks \cup {k}
    OBVIOUS
  <1>2. k - 1 \in 0..Len(s) /\ k \in 0..Len(s)
    OBVIOUS
  <1>3. only(s, js) = kept(s, js)[k]
    <2>1. \A j \in k+1..Len(s) : j \notin js
      BY <1>1
    <2>. QED  BY <1>2, <2>1, KeptAll
  <1>4. kept(s, js)[k] = take(s, js, kept(s, js)[k - 1], k)
    BY KeptUnfolds
  <1>5. kept(s, js)[k] = Append(kept(s, js)[k - 1], s[k])
    BY <1>1, <1>4 DEF take
  <1>6. kept(s, js)[k - 1] = kept(s, ks)[k - 1]
    <2>1. PICK m \in 0..Len(s) : m = k - 1
      BY <1>2
    <2>2. \A j \in 1..m : j \in js <=> j \in ks
      BY <1>1, <2>1
    <2>3. kept(s, js)[m] = kept(s, ks)[m]
      BY <2>2, KeptAgree
    <2>. QED  BY <2>1, <2>3
  <1>7. only(s, ks) = kept(s, ks)[k - 1]
    <2>1. \A j \in (k-1)+1..Len(s) : j \notin ks
      OBVIOUS
    <2>. QED  BY <1>2, <2>1, KeptAll
  <1>. QED  BY <1>1, <1>3, <1>5, <1>6, <1>7

-----------------------------------------------------------------------------
(* Pieces between cuts                                                      *)

\* The positions since the last cut grow by one, or start again at a cut.
LEMMA SinceSteps ==
    ASSUME NEW cuts, NEW k \in Nat \ {0}
    PROVE  /\ since(cuts, 1) = {}
           /\ since(cuts, k) \subseteq 1..k-1
           /\ k \notin cuts => since(cuts, k + 1) = since(cuts, k) \cup {k}
           /\ k \in cuts => since(cuts, k + 1) = {}
  <1>1. since(cuts, 1) = {}
    BY DEF since
  <1>2. since(cuts, k) \subseteq 1..k-1
    BY DEF since
  <1>3. ASSUME k \notin cuts PROVE since(cuts, k + 1) = since(cuts, k) \cup {k}
    <2>1. ASSUME NEW j \in 1..k PROVE j \in since(cuts, k + 1) <=> j \in since(cuts, k) \cup {k}
      <3>1. j..((k + 1) - 1) = (j..k-1) \cup {k} /\ 1..((k + 1) - 1) = 1..k
        OBVIOUS
      <3>2. cuts \cap (j..((k + 1) - 1)) = cuts \cap (j..k-1)
        BY <1>3, <3>1
      <3>3. j \in since(cuts, k + 1) <=> cuts \cap (j..k-1) = {}
        BY <3>1, <3>2 DEF since
      <3>4. CASE j = k
        BY <3>3, <3>4
      <3>5. CASE j # k
        <4>1. j \in 1..k-1
          BY <3>5
        <4>. QED  BY <3>3, <3>5, <4>1 DEF since
      <3>. QED  BY <3>4, <3>5
    <2>2. since(cuts, k + 1) \subseteq 1..k
      BY DEF since
    <2>. QED  BY <1>2, <2>1, <2>2
  <1>4. ASSUME k \in cuts PROVE since(cuts, k + 1) = {}
    <2>1. \A j \in 1..((k + 1) - 1) : k \in cuts \cap (j..((k + 1) - 1))
      BY <1>4
    <2>. QED  BY <2>1 DEF since
  <1>. QED  BY <1>1, <1>2, <1>3, <1>4

-----------------------------------------------------------------------------
(* The splitter for the api                                                 *)

ds(out, cur, string, comment, skip) ==
    [out |-> out, cur |-> cur, string |-> string, comment |-> comment, skip |-> skip]

\* What the loop's flags say about the lexer after k characters.  While the second
\* character of a pair is to be skipped, a doubled quote has closed the literal for
\* the lexer, and is about to open it again.
DsLex(s, k, string, comment, skip, lex) ==
    /\ comment => lex = "comment" /\ ~string
    /\ comment /\ skip => s[k + 1] = "dash"
    /\ ~comment /\ skip => lex = "code" /\ string /\ s[k + 1] = "quote"
    /\ ~comment /\ ~skip => lex = IF string THEN "quote" ELSE "code"

DsStep(s, k, a, was) ==
    \E string, comment, skip \in BOOLEAN :
       /\ DsLex(s, k, string, comment, skip, lex_char(s, Single, was, k))
       /\ ds_char(s, a, k) = IF s[k] = "semi" /\ was = "code"
                             THEN ds(flush(a.out, a.cur), << >>, string, comment, skip)
                             ELSE ds(a.out, Append(a.cur, s[k]), string, comment, skip)

\* One turn of split_ds_sql_statements and one of the lexer: the flags and the lexer
\* still agree, and the statement ends at a semicolon read in code and only there.
LEMMA DsTurn ==
    ASSUME NEW s, NEW k, k \in Nat \ {0}, NEW out, NEW cur, NEW string \in BOOLEAN, NEW comment \in BOOLEAN,
           NEW skip \in BOOLEAN, NEW was, DsLex(s, k - 1, string, comment, skip, was),
           NEW a, a = ds(out, cur, string, comment, skip)
    PROVE  DsStep(s, k, a, was)
  <1>0. k - 1 + 1 = k
    OBVIOUS
  <1>. SUFFICES \E string2, comment2, skip2 \in BOOLEAN :
                  /\ DsLex(s, k, string2, comment2, skip2, lex_char(s, Single, was, k))
                  /\ ds_char(s, a, k)
                       = IF s[k] = "semi" /\ was = "code"
                         THEN ds(flush(out, cur), << >>, string2, comment2, skip2)
                         ELSE ds(out, Append(cur, s[k]), string2, comment2, skip2)
    <2>1. a.out = out /\ a.cur = cur
      BY DEF ds
    <2>. QED  BY <2>1 DEF DsStep
  <1>1. CASE skip
    <2>1. ds_char(s, a, k) = ds(out, Append(cur, s[k]), string, comment, FALSE)
      BY <1>1 DEF ds_char, ds
    <2>2. ~(s[k] = "semi" /\ was = "code")
      BY <1>0, <1>1 DEF DsLex
    <2>3. DsLex(s, k, string, comment, FALSE, lex_char(s, Single, was, k))
      BY <1>0, <1>1 DEF DsLex, lex_char, Single
    <2>. QED  BY <2>1, <2>2, <2>3
  <1>2. CASE ~skip /\ comment
    <2>1. ds_char(s, a, k) = ds(out, Append(cur, s[k]), string, s[k] # "newline", FALSE)
      BY <1>2 DEF ds_char, ds
    <2>2. ~(s[k] = "semi" /\ was = "code")
      BY <1>2 DEF DsLex
    <2>3. DsLex(s, k, string, s[k] # "newline", FALSE, lex_char(s, Single, was, k))
      BY <1>2 DEF DsLex, lex_char, Single
    <2>. QED  BY <2>1, <2>2, <2>3
  <1>3. CASE ~skip /\ ~comment /\ ~string /\ s[k] = "dash" /\ next_is(s, k, "dash")
    <2>1. ds_char(s, a, k) = ds(out, Append(cur, s[k]), FALSE, TRUE, TRUE)
      BY <1>3 DEF ds_char, ds
    <2>2. DsLex(s, k, FALSE, TRUE, TRUE, lex_char(s, Single, was, k))
      BY <1>3 DEF DsLex, lex_char, Single, next_is
    <2>. QED  BY <1>3, <2>1, <2>2
  <1>4. CASE ~skip /\ ~comment /\ s[k] = "quote"
    <2>1. CASE string /\ next_is(s, k, "quote")
      <3>1. ds_char(s, a, k) = ds(out, Append(cur, s[k]), TRUE, FALSE, TRUE)
        BY <1>4, <2>1 DEF ds_char, ds
      <3>2. DsLex(s, k, TRUE, FALSE, TRUE, lex_char(s, Single, was, k))
        BY <1>4, <2>1 DEF DsLex, lex_char, Single, next_is
      <3>. QED  BY <1>4, <3>1, <3>2
    <2>2. CASE ~(string /\ next_is(s, k, "quote"))
      <3>1. ds_char(s, a, k) = ds(out, Append(cur, s[k]), ~string, FALSE, FALSE)
        BY <1>4, <2>2 DEF ds_char, ds
      <3>2. DsLex(s, k, ~string, FALSE, FALSE, lex_char(s, Single, was, k))
        BY <1>4, <2>2 DEF DsLex, lex_char, Single, next_is
      <3>. QED  BY <1>4, <3>1, <3>2
    <2>. QED  BY <2>1, <2>2
  <1>5. CASE ~skip /\ ~comment /\ ~string /\ s[k] = "semi"
    <2>1. ds_char(s, a, k) = ds(flush(out, cur), << >>, FALSE, FALSE, FALSE)
      BY <1>5 DEF ds_char, ds
    <2>2. DsLex(s, k, FALSE, FALSE, FALSE, lex_char(s, Single, was, k)) /\ was = "code"
      BY <1>5 DEF DsLex, lex_char, Single
    <2>. QED  BY <1>5, <2>1, <2>2
  <1>6. CASE /\ ~skip /\ ~comment /\ s[k] # "quote" /\ ~(~string /\ s[k] = "semi")
             /\ ~(~string /\ s[k] = "dash" /\ next_is(s, k, "dash"))
    <2>1. ds_char(s, a, k) = ds(out, Append(cur, s[k]), string, FALSE, FALSE)
      BY <1>6 DEF ds_char, ds
    <2>2. DsLex(s, k, string, FALSE, FALSE, lex_char(s, Single, was, k))
      BY <1>6 DEF DsLex, lex_char, Single
    <2>3. ~(s[k] = "semi" /\ was = "code")
      BY <1>6 DEF DsLex
    <2>. QED  BY <2>1, <2>2, <2>3
  <1>. QED  BY <1>1, <1>2, <1>3, <1>4, <1>5, <1>6

-----------------------------------------------------------------------------
(* What a splitter has done when k characters were read                     *)

between(s, cuts) == [k \in 1 .. Len(s) + 1 |-> trim(only(s, since(cuts, k)))]
done(s, cuts) == gathered(between(s, cuts), cuts \cup {Len(s) + 1})
buffer(s, cuts, k) == only(s, since(cuts, k + 1))

\* A function on 1..n+1 is a sequence of that length.
LEMMA LengthOfPieces ==
    ASSUME NEW n \in Nat, NEW piece, piece = [k \in 1..n+1 |-> piece[k]]
    PROVE  Len(piece) = n + 1
  <1>1. PICK m \in Nat : m = n + 1
    OBVIOUS
  <1>2. \A k \in 1..m : piece[k] \in Range(piece)
    BY <1>1 DEF Range
  <1>3. piece \in [1..m -> Range(piece)]
    BY <1>1, <1>2
  <1>4. piece \in Seq(Range(piece))
    BY <1>3
  <1>5. 1..Len(piece) = 1..m /\ Len(piece) \in Nat
    BY <1>3, <1>4
  <1>. QED  BY <1>1, <1>5

\* What statements() gathers follows the same steps as a splitter: flush at a cut,
\* append elsewhere, flush at the end.
LEMMA Splitting ==
    ASSUME NEW s, Len(s) \in Nat, NEW cuts, cuts \subseteq 1..Len(s)
    PROVE  /\ done(s, cuts)[0] = << >> /\ buffer(s, cuts, 0) = << >>
           /\ \A k \in 1..Len(s) :
                /\ k \in cuts =>
                     /\ done(s, cuts)[k] = flush(done(s, cuts)[k - 1], buffer(s, cuts, k - 1))
                     /\ buffer(s, cuts, k) = << >>
                /\ k \notin cuts =>
                     /\ done(s, cuts)[k] = done(s, cuts)[k - 1]
                     /\ buffer(s, cuts, k) = Append(buffer(s, cuts, k - 1), s[k])
           /\ pieces(between(s, cuts), cuts) = flush(done(s, cuts)[Len(s)], buffer(s, cuts, Len(s)))
  <1>. DEFINE n == Len(s)
              piece == between(s, cuts)
              ends == cuts \cup {n + 1}
  <1>1. Len(piece) = n + 1
    BY LengthOfPieces DEF between
  <1>2. /\ done(s, cuts)[0] = << >>
        /\ \A k \in 1..n+1 : done(s, cuts)[k] = gather(piece, ends, done(s, cuts)[k - 1], k)
    <2>1. Len(piece) \in Nat
      BY <1>1
    <2>. QED  BY <1>1, <2>1, GatheredUnfolds DEF done
  <1>3. ASSUME NEW k \in 1..n+1
        PROVE  piece[k] = trim(buffer(s, cuts, k - 1))
    <2>1. k - 1 + 1 = k
      OBVIOUS
    <2>. QED  BY <1>3, <2>1 DEF between, buffer
  <1>4. ASSUME NEW k \in 1..n+1, k \in ends
        PROVE  done(s, cuts)[k] = flush(done(s, cuts)[k - 1], buffer(s, cuts, k - 1))
    BY <1>2, <1>3, <1>4 DEF gather, flush
  <1>5. ASSUME NEW k \in 1..n, k \notin cuts
        PROVE  done(s, cuts)[k] = done(s, cuts)[k - 1]
    <2>1. k \notin ends /\ k \in 1..n+1
      BY <1>5
    <2>. QED  BY <1>2, <2>1 DEF gather
  <1>6. ASSUME NEW k \in 1..n
        PROVE  /\ k \in cuts => buffer(s, cuts, k) = << >>
               /\ k \notin cuts => buffer(s, cuts, k) = Append(buffer(s, cuts, k - 1), s[k])
    <2>1. k - 1 + 1 = k
      OBVIOUS
    <2>2. k \in Nat \ {0}
      OBVIOUS
    <2>3. ASSUME k \notin cuts
          PROVE  only(s, since(cuts, k + 1)) = Append(only(s, since(cuts, k)), s[k])
      <3>1. since(cuts, k + 1) = since(cuts, k) \cup {k} /\ since(cuts, k) \subseteq 1..k-1
        BY <2>2, <2>3, SinceSteps
      <3>. QED  BY <3>1, OnlyOneMore
    <2>4. k \in cuts => since(cuts, k + 1) = {}
      BY <2>2, SinceSteps
    <2>. QED  BY <2>1, <2>3, <2>4, OnlyNothing DEF buffer
  <1>7. buffer(s, cuts, 0) = << >>
    <2>1. since(cuts, 0 + 1) = {}
      BY DEF since
    <2>. QED  BY <2>1, OnlyNothing DEF buffer
  <1>8. pieces(piece, cuts) = flush(done(s, cuts)[n], buffer(s, cuts, n))
    <2>1. pieces(piece, cuts) = done(s, cuts)[n + 1]
      BY <1>1 DEF pieces, done
    <2>2. n + 1 \in 1..n+1 /\ n + 1 \in ends /\ n + 1 - 1 = n
      OBVIOUS
    <2>. QED  BY <1>4, <2>1, <2>2
  <1>9. \A k \in 1..n : k \in 1..n+1 /\ (k \in cuts => k \in ends)
    OBVIOUS
  <1>. QED  BY <1>2, <1>4, <1>5, <1>6, <1>7, <1>8, <1>9

\* A semicolon is a cut where the lexer is in code.
LEMMA Cuts ==
    ASSUME NEW s, s \in Seq(Range(s)), NEW quotes \in {Single, Both}
    PROVE  /\ top_level(s, quotes, {"semi"}) \subseteq 1..Len(s)
           /\ \A k \in 1..Len(s) : k \in top_level(s, quotes, {"semi"})
                                     <=> s[k] = "semi" /\ lexed(s, quotes)[k - 1] = "code"
  <1>1. DOMAIN s = 1..Len(s) /\ Len(s) \in Nat
    OBVIOUS
  <1>2. ASSUME NEW k \in 1..Len(s), s[k] = "semi", lexed(s, quotes)[k - 1] = "code"
        PROVE  lexed(s, quotes)[k] # "comment"
    <2>1. lexed(s, quotes)[k] = lex_char(s, quotes, lexed(s, quotes)[k - 1], k)
      BY <1>1, LexUnfolds
    <2>. QED  BY <1>2, <2>1 DEF lex_char, Single, Both
  <1>. QED  BY <1>1, <1>2 DEF top_level

\* split_ds_sql_statements cuts at the top-level semicolons: after k characters its
\* list and its buffer are what stands before and since the last cut.
LEMMA DsSplits ==
    ASSUME NEW s, s \in Seq(Range(s))
    PROVE  split_ds_sql_statements(s) = statements(s, Single)
  <1>. DEFINE n == Len(s)
              lex == lexed(s, Single)
              cuts == top_level(s, Single, {"semi"})
              Like(k) == \E string, comment, skip \in BOOLEAN :
                           /\ ds_after(s)[k] = ds(done(s, cuts)[k], buffer(s, cuts, k),
                                                  string, comment, skip)
                           /\ DsLex(s, k, string, comment, skip, lex[k])
              S == {k \in 0..n : Like(k)}
  <1>1. n \in Nat
    OBVIOUS
  <1>2. 0 \in S
    <2>1. ds_after(s)[0] = ds(<< >>, << >>, FALSE, FALSE, FALSE)
      BY <1>1, DsUnfolds DEF ds_start, ds
    <2>2. lex[0] = "code" /\ cuts \subseteq 1..n
      BY <1>1, LexUnfolds, Cuts
    <2>3. DsLex(s, 0, FALSE, FALSE, FALSE, lex[0])
      BY <2>2 DEF DsLex
    <2>4. done(s, cuts)[0] = << >> /\ buffer(s, cuts, 0) = << >>
      <3>. HIDE DEF cuts
      <3>. QED  BY <1>1, <2>2, Splitting
    <2>. HIDE DEF cuts, lex
    <2>5. ds_after(s)[0] = ds(done(s, cuts)[0], buffer(s, cuts, 0), FALSE, FALSE, FALSE)
      BY <2>1, <2>4
    <2>6. Like(0)
      BY <2>3, <2>5
    <2>. QED  BY <1>1, <2>6
  <1>3. ASSUME NEW k \in 1..n, k - 1 \in S PROVE k \in S
    <2>1. PICK string, comment, skip \in BOOLEAN :
            /\ ds_after(s)[k - 1] = ds(done(s, cuts)[k - 1], buffer(s, cuts, k - 1),
                                       string, comment, skip)
            /\ DsLex(s, k - 1, string, comment, skip, lex[k - 1])
      BY <1>3
    <2>2. /\ lex[k] = lex_char(s, Single, lex[k - 1], k)
          /\ ds_after(s)[k] = ds_char(s, ds_after(s)[k - 1], k)
      BY <1>1, LexUnfolds, DsUnfolds
    <2>3. k \in Nat \ {0}
      OBVIOUS
    <2>. PICK out, cur, was : /\ out = done(s, cuts)[k - 1]
                              /\ cur = buffer(s, cuts, k - 1) /\ was = lex[k - 1]
      OBVIOUS
    <2>4. PICK string2, comment2, skip2 \in BOOLEAN :
            /\ DsLex(s, k, string2, comment2, skip2, lex_char(s, Single, was, k))
            /\ ds_char(s, ds(out, cur, string, comment, skip), k)
                  = IF s[k] = "semi" /\ was = "code"
                    THEN ds(flush(out, cur), << >>, string2, comment2, skip2)
                    ELSE ds(out, Append(cur, s[k]), string2, comment2, skip2)
      <3>. PICK a : a = ds(out, cur, string, comment, skip)
        OBVIOUS
      <3>1. DsStep(s, k, a, was)
        BY <2>1, <2>3, DsTurn
      <3>2. a.out = out /\ a.cur = cur
        BY DEF ds
      <3>. HIDE DEF S, Like, lex, cuts
      <3>. QED  BY <3>1, <3>2 DEF DsStep
    <2>5. cuts \subseteq 1..n /\ (k \in cuts <=> s[k] = "semi" /\ was = "code")
      BY <1>1, Cuts
    <2>. HIDE DEF cuts, lex
    <2>6. ds_after(s)[k] = ds(done(s, cuts)[k], buffer(s, cuts, k), string2, comment2, skip2)
      <3>1. CASE k \in cuts
        <4>1. done(s, cuts)[k] = flush(out, cur) /\ buffer(s, cuts, k) = << >>
          BY <1>1, <2>5, <3>1, Splitting
        <4>. QED  BY <2>1, <2>2, <2>4, <2>5, <3>1, <4>1
      <3>2. CASE k \notin cuts
        <4>1. done(s, cuts)[k] = out /\ buffer(s, cuts, k) = Append(cur, s[k])
          BY <1>1, <2>5, <3>2, Splitting
        <4>. QED  BY <2>1, <2>2, <2>4, <2>5, <3>2, <4>1
      <3>. QED  BY <3>1, <3>2
    <2>. QED  BY <2>2, <2>4, <2>6
  <1>. HIDE DEF S
  <1>4. \A k \in 0..n : k \in S
    BY <1>1, <1>2, <1>3, Induction
  <1>5. n \in 0..n /\ cuts \subseteq 1..n
    BY <1>1, Cuts
  <1>. HIDE DEF cuts, lex
  <1>6. split_ds_sql_statements(s) = flush(done(s, cuts)[n], buffer(s, cuts, n))
    <2>1. PICK string, comment, skip \in BOOLEAN :
            ds_after(s)[n] = ds(done(s, cuts)[n], buffer(s, cuts, n), string, comment, skip)
      BY <1>4, <1>5 DEF S
    <2>. QED  BY <2>1 DEF split_ds_sql_statements, ds
  <1>7. statements(s, Single) = pieces(between(s, cuts), cuts)
    BY DEF statements, between, cuts
  <1>. QED  BY <1>1, <1>5, <1>6, <1>7, Splitting

-----------------------------------------------------------------------------
(* The splitter for ClickHouse                                              *)

ch(out, cur, single, double, comment) ==
    [out |-> out, cur |-> cur, single |-> single, double |-> double, comment |-> comment]

ChLex(single, double, comment, lex) ==
    /\ comment => lex = "comment" /\ ~single /\ ~double
    /\ ~comment => lex = IF single THEN "quote" ELSE IF double THEN "dquote" ELSE "code"
    /\ ~(single /\ double)

ChStep(s, k, a, was) ==
    \E single, double, comment \in BOOLEAN :
       /\ ChLex(single, double, comment, lex_char(s, Both, was, k))
       /\ ch_char(s, a, k) = IF s[k] = "semi" /\ was = "code"
                             THEN ch(flush(a.out, a.cur), << >>, single, double, comment)
                             ELSE ch(a.out, Append(a.cur, s[k]), single, double, comment)

\* One turn of split_clickhouse_statements and one of the lexer with both quotes.
LEMMA ChTurn ==
    ASSUME NEW s, NEW k, NEW out, NEW cur, NEW single \in BOOLEAN, NEW double \in BOOLEAN,
           NEW comment \in BOOLEAN, NEW was, ChLex(single, double, comment, was),
           NEW a, a = ch(out, cur, single, double, comment)
    PROVE  ChStep(s, k, a, was)
  <1>. DEFINE lex == lex_char(s, Both, was, k)
              longer(si, do, co) == ch(out, Append(cur, s[k]), si, do, co)
  <1>. SUFFICES \E si, do, co \in BOOLEAN :
                  /\ ChLex(si, do, co, lex)
                  /\ ch_char(s, a, k) = IF s[k] = "semi" /\ was = "code"
                                        THEN ch(flush(out, cur), << >>, si, do, co)
                                        ELSE longer(si, do, co)
    <2>1. a.out = out /\ a.cur = cur
      BY DEF ch
    <2>. QED  BY <2>1 DEF ChStep
  <1>1. CASE comment
    <2>1. ch_char(s, a, k) = longer(single, double, s[k] # "newline")
      BY <1>1 DEF ch_char, ch
    <2>2. ChLex(single, double, s[k] # "newline", lex) /\ was # "code"
      BY <1>1 DEF ChLex, lex_char, Both
    <2>. QED  BY <2>1, <2>2
  <1>2. CASE ~comment /\ ~single /\ ~double /\ s[k] = "dash" /\ next_is(s, k, "dash")
    <2>1. ch_char(s, a, k) = longer(FALSE, FALSE, TRUE)
      BY <1>2 DEF ch_char, ch
    <2>2. ChLex(FALSE, FALSE, TRUE, lex)
      BY <1>2 DEF ChLex, lex_char, Both
    <2>. QED  BY <1>2, <2>1, <2>2
  <1>3. CASE ~comment /\ s[k] = "quote" /\ ~double
    <2>1. ch_char(s, a, k) = longer(~single, FALSE, FALSE)
      BY <1>3 DEF ch_char, ch
    <2>2. ChLex(~single, FALSE, FALSE, lex)
      BY <1>3 DEF ChLex, lex_char, Both
    <2>. QED  BY <1>3, <2>1, <2>2
  <1>4. CASE ~comment /\ s[k] = "dquote" /\ ~single
    <2>1. ch_char(s, a, k) = longer(FALSE, ~double, FALSE)
      BY <1>4 DEF ch_char, ch
    <2>2. ChLex(FALSE, ~double, FALSE, lex)
      BY <1>4 DEF ChLex, lex_char, Both
    <2>. QED  BY <1>4, <2>1, <2>2
  <1>5. CASE ~comment /\ s[k] = "semi" /\ ~single /\ ~double
    <2>1. ch_char(s, a, k) = ch(flush(out, cur), << >>, FALSE, FALSE, FALSE)
      BY <1>5 DEF ch_char, ch
    <2>2. ChLex(FALSE, FALSE, FALSE, lex) /\ was = "code"
      BY <1>5 DEF ChLex, lex_char, Both
    <2>. QED  BY <1>5, <2>1, <2>2
  <1>6. CASE /\ ~comment /\ ~(s[k] = "quote" /\ ~double) /\ ~(s[k] = "dquote" /\ ~single)
             /\ ~(~single /\ ~double /\ s[k] = "dash" /\ next_is(s, k, "dash"))
             /\ ~(~single /\ ~double /\ s[k] = "semi")
    <2>1. ch_char(s, a, k) = longer(single, double, FALSE)
      BY <1>6 DEF ch_char, ch
    <2>2. ChLex(single, double, FALSE, lex)
      BY <1>6 DEF ChLex, lex_char, Both
    <2>3. ~(s[k] = "semi" /\ was = "code")
      BY <1>6 DEF ChLex
    <2>. QED  BY <2>1, <2>2, <2>3
  <1>. QED  BY <1>1, <1>2, <1>3, <1>4, <1>5, <1>6

\* split_clickhouse_statements cuts at the top-level semicolons.
LEMMA ChSplits ==
    ASSUME NEW s, s \in Seq(Range(s))
    PROVE  flush(ch_after(s)[Len(s)].out, ch_after(s)[Len(s)].cur) = statements(s, Both)
  <1>. DEFINE n == Len(s)
              lex == lexed(s, Both)
              cuts == top_level(s, Both, {"semi"})
              Like(k) == \E single, double, comment \in BOOLEAN :
                           /\ ch_after(s)[k] = ch(done(s, cuts)[k], buffer(s, cuts, k),
                                                  single, double, comment)
                           /\ ChLex(single, double, comment, lex[k])
              S == {k \in 0..n : Like(k)}
  <1>1. n \in Nat
    OBVIOUS
  <1>2. 0 \in S
    <2>1. ch_after(s)[0] = ch(<< >>, << >>, FALSE, FALSE, FALSE)
      BY <1>1, ChUnfolds DEF ch_start, ch
    <2>2. lex[0] = "code" /\ cuts \subseteq 1..n
      BY <1>1, LexUnfolds, Cuts
    <2>3. ChLex(FALSE, FALSE, FALSE, lex[0])
      BY <2>2 DEF ChLex
    <2>4. done(s, cuts)[0] = << >> /\ buffer(s, cuts, 0) = << >>
      <3>. HIDE DEF cuts
      <3>. QED  BY <1>1, <2>2, Splitting
    <2>. HIDE DEF cuts, lex
    <2>5. ch_after(s)[0] = ch(done(s, cuts)[0], buffer(s, cuts, 0), FALSE, FALSE, FALSE)
      BY <2>1, <2>4
    <2>6. Like(0)
      BY <2>3, <2>5
    <2>. QED  BY <1>1, <2>6
  <1>3. ASSUME NEW k \in 1..n, k - 1 \in S PROVE k \in S
    <2>1. PICK single, double, comment \in BOOLEAN :
            /\ ch_after(s)[k - 1] = ch(done(s, cuts)[k - 1], buffer(s, cuts, k - 1),
                                       single, double, comment)
            /\ ChLex(single, double, comment, lex[k - 1])
      BY <1>3
    <2>2. /\ lex[k] = lex_char(s, Both, lex[k - 1], k)
          /\ ch_after(s)[k] = ch_char(s, ch_after(s)[k - 1], k)
      BY <1>1, LexUnfolds, ChUnfolds
    <2>. PICK out, cur, was : /\ out = done(s, cuts)[k - 1]
                              /\ cur = buffer(s, cuts, k - 1) /\ was = lex[k - 1]
      OBVIOUS
    <2>3. PICK si, do, co \in BOOLEAN :
            /\ ChLex(si, do, co, lex_char(s, Both, was, k))
            /\ ch_char(s, ch(out, cur, single, double, comment), k)
                  = IF s[k] = "semi" /\ was = "code"
                    THEN ch(flush(out, cur), << >>, si, do, co)
                    ELSE ch(out, Append(cur, s[k]), si, do, co)
      <3>. PICK a : a = ch(out, cur, single, double, comment)
        OBVIOUS
      <3>1. ChStep(s, k, a, was)
        BY <2>1, ChTurn
      <3>2. a.out = out /\ a.cur = cur
        BY DEF ch
      <3>. HIDE DEF S, Like, lex, cuts
      <3>. QED  BY <3>1, <3>2 DEF ChStep
    <2>4. cuts \subseteq 1..n /\ (k \in cuts <=> s[k] = "semi" /\ was = "code")
      BY <1>1, Cuts
    <2>. HIDE DEF cuts, lex
    <2>5. ch_after(s)[k] = ch(done(s, cuts)[k], buffer(s, cuts, k), si, do, co)
      <3>1. CASE k \in cuts
        <4>1. done(s, cuts)[k] = flush(out, cur) /\ buffer(s, cuts, k) = << >>
          BY <1>1, <2>4, <3>1, Splitting
        <4>. QED  BY <2>1, <2>2, <2>3, <2>4, <3>1, <4>1
      <3>2. CASE k \notin cuts
        <4>1. done(s, cuts)[k] = out /\ buffer(s, cuts, k) = Append(cur, s[k])
          BY <1>1, <2>4, <3>2, Splitting
        <4>. QED  BY <2>1, <2>2, <2>3, <2>4, <3>2, <4>1
      <3>. QED  BY <3>1, <3>2
    <2>. QED  BY <2>2, <2>3, <2>5
  <1>. HIDE DEF S
  <1>4. \A k \in 0..n : k \in S
    BY <1>1, <1>2, <1>3, Induction
  <1>5. n \in 0..n /\ cuts \subseteq 1..n
    BY <1>1, Cuts
  <1>. HIDE DEF cuts, lex
  <1>6. flush(ch_after(s)[n].out, ch_after(s)[n].cur) = flush(done(s, cuts)[n], buffer(s, cuts, n))
    <2>1. PICK single, double, comment \in BOOLEAN :
            ch_after(s)[n] = ch(done(s, cuts)[n], buffer(s, cuts, n), single, double, comment)
      BY <1>4, <1>5 DEF S
    <2>. QED  BY <2>1 DEF ch
  <1>7. statements(s, Both) = pieces(between(s, cuts), cuts)
    BY DEF statements, between, cuts
  <1>. QED  BY <1>1, <1>5, <1>6, <1>7, Splitting

\* Texts of the run's alphabet, of any length.
Typed == kind \in {"sql", "redis"} /\ text \in Seq(Alphabet[kind])

\* Every text of a behaviour is one of its alphabet.
LEMMA TypedInvariant == Spec => []Typed
  <1>1. Init => Typed
    BY DEF Init, Typed, Alphabet
  <1>2. Typed /\ [Next]_vars => Typed'
    <2>. SUFFICES ASSUME Typed, [Next]_vars PROVE Typed'
      OBVIOUS
    <2>1. ASSUME NEW c \in Alphabet[kind], Type(c) PROVE Typed'
      BY <2>1 DEF Type, Typed
    <2>2. CASE UNCHANGED vars
      BY <2>2 DEF vars, Typed
    <2>. QED  BY <2>1, <2>2 DEF Next
  <1>. QED  BY <1>1, <1>2, PTL DEF Spec

\* A sequence is a sequence of its own elements.
LEMMA SeqOfItsRange ==
    ASSUME NEW A, NEW s \in Seq(A)
    PROVE  s \in Seq(Range(s))
  <1>1. s \in [1..Len(s) -> Range(s)] /\ Len(s) \in Nat
    BY DEF Range
  <1>. QED  BY <1>1

\* as_chars changes characters, not their number.
LEMMA AsChars ==
    ASSUME NEW A, NEW s \in Seq(A)
    PROVE  as_chars(s) \in Seq(A \cup {"latin"}) /\ Len(as_chars(s)) = Len(s)
  <1>1. PICK n \in Nat : n = Len(s) /\ DOMAIN s = 1..n
    OBVIOUS
  <1>2. as_chars(s) \in [1..n -> A \cup {"latin"}]
    BY <1>1 DEF as_chars
  <1>3. as_chars(s) \in Seq(A \cup {"latin"})
    BY <1>2
  <1>4. 1..Len(as_chars(s)) = 1..n /\ Len(as_chars(s)) \in Nat
    BY <1>2, <1>3
  <1>. QED  BY <1>1, <1>3, <1>4

\* Both splitters, the api's and ClickHouse's, cut every script at its top-level
\* semicolons and nowhere else.
THEOREM SplittersSplit == Spec => []SplitsAtTopLevel
  <1>1. Typed => SplitsAtTopLevel
    <2>. SUFFICES ASSUME Typed PROVE SplitsAtTopLevel
      OBVIOUS
    <2>1. text \in Seq(Range(text))
      BY SeqOfItsRange DEF Typed
    <2>2. PICK s : s = as_chars(text)
      OBVIOUS
    <2>3. s \in Seq(Range(s)) /\ Len(s) = Len(text)
      BY <2>2, AsChars, SeqOfItsRange DEF Typed
    <2>4. split_clickhouse_statements(text) = statements(s, Both)
      BY <2>2, <2>3, ChSplits DEF split_clickhouse_statements
    <2>. QED  BY <2>1, <2>2, <2>4, DsSplits DEF SplitsAtTopLevel
  <1>. QED  BY <1>1, TypedInvariant, PTL

-----------------------------------------------------------------------------
(* The Redis tokenizer                                                      *)

token(out, buf, single, double) == [out |-> out, buf |-> buf, single |-> single, double |-> double]

\* A finished token, unless it is empty.
ended(out, buf) == IF buf = << >> THEN out ELSE Append(out, buf)

TokenLex(single, double, lex) ==
    /\ lex = IF single THEN "quote" ELSE IF double THEN "dquote" ELSE "code"
    /\ ~(single /\ double)

TokenStep(s, k, a, was) ==
    \E single, double \in BOOLEAN :
       /\ TokenLex(single, double, lex_char(s, Both, was, k))
       /\ token_char(s, a, k) =
            IF s[k] \in whitespace /\ was = "code" THEN token(ended(a.out, a.buf), << >>, single, double)
            ELSE IF lex_char(s, Both, was, k) # was THEN token(a.out, a.buf, single, double)
            ELSE token(a.out, Append(a.buf, s[k]), single, double)

\* One turn of tokenize_redis_line and one of the lexer: a character that changes
\* what the lexer is in is a quote that is taken away.
LEMMA TokenTurn ==
    ASSUME NEW s, NEW k, s[k] # "dash", NEW out, NEW buf, NEW single \in BOOLEAN, NEW double \in BOOLEAN,
           NEW was, TokenLex(single, double, was), NEW a, a = token(out, buf, single, double)
    PROVE  TokenStep(s, k, a, was)
  <1>. DEFINE lex == lex_char(s, Both, was, k)
  <1>. SUFFICES \E si, do \in BOOLEAN :
                  /\ TokenLex(si, do, lex)
                  /\ token_char(s, a, k) =
                       IF s[k] \in whitespace /\ was = "code" THEN token(ended(out, buf), << >>, si, do)
                       ELSE IF lex # was THEN token(out, buf, si, do)
                       ELSE token(out, Append(buf, s[k]), si, do)
    <2>1. a.out = out /\ a.buf = buf
      BY DEF token
    <2>. QED  BY <2>1 DEF TokenStep
  <1>1. CASE s[k] = "quote" /\ ~double
    <2>1. token_char(s, a, k) = token(out, buf, ~single, FALSE)
      BY <1>1 DEF token_char, token, whitespace
    <2>2. TokenLex(~single, FALSE, lex) /\ lex # was /\ s[k] \notin whitespace
      BY <1>1 DEF TokenLex, lex_char, Both, whitespace
    <2>. QED  BY <2>1, <2>2
  <1>2. CASE s[k] = "dquote" /\ ~single
    <2>1. token_char(s, a, k) = token(out, buf, FALSE, ~double)
      BY <1>2 DEF token_char, token, whitespace
    <2>2. TokenLex(FALSE, ~double, lex) /\ lex # was /\ s[k] \notin whitespace
      BY <1>2 DEF TokenLex, lex_char, Both, whitespace
    <2>. QED  BY <2>1, <2>2
  <1>3. CASE s[k] \in whitespace /\ ~single /\ ~double
    <2>1. token_char(s, a, k) = token(ended(out, buf), << >>, FALSE, FALSE)
      <3>1. CASE buf = << >>
        BY <1>3, <3>1 DEF token_char, token, ended, whitespace
      <3>2. CASE buf # << >>
        BY <1>3, <3>2 DEF token_char, token, ended, whitespace
      <3>. QED  BY <3>1, <3>2
    <2>2. TokenLex(FALSE, FALSE, lex) /\ was = "code"
      BY <1>3 DEF TokenLex, lex_char, Both, whitespace
    <2>. QED  BY <1>3, <2>1, <2>2
  <1>4. CASE /\ ~(s[k] = "quote" /\ ~double) /\ ~(s[k] = "dquote" /\ ~single)
             /\ ~(s[k] \in whitespace /\ ~single /\ ~double)
    <2>1. token_char(s, a, k) = token(out, Append(buf, s[k]), single, double)
      BY <1>4 DEF token_char, token
    <2>2. lex = was /\ ~(s[k] \in whitespace /\ was = "code")
      BY <1>4 DEF TokenLex, lex_char, Both
    <2>. QED  BY <2>1, <2>2
  <1>. QED  BY <1>1, <1>2, <1>3, <1>4

\* What the tokenizer has done when k characters were read.
unquoted(s, cuts, marks) == [k \in 1 .. Len(s) + 1 |-> only(s, since(cuts, k) \ marks)]
found(s, cuts, marks) == gathered(unquoted(s, cuts, marks), cuts \cup {Len(s) + 1})
run(s, cuts, marks, k) == only(s, since(cuts, k + 1) \ marks)

RunsSoFar(s, cuts, marks) ==
    /\ found(s, cuts, marks)[0] = << >> /\ run(s, cuts, marks, 0) = << >>
    /\ \A k \in 1..Len(s) :
         /\ k \in cuts =>
              /\ found(s, cuts, marks)[k]
                   = ended(found(s, cuts, marks)[k - 1], run(s, cuts, marks, k - 1))
              /\ run(s, cuts, marks, k) = << >>
         /\ k \notin cuts =>
              /\ found(s, cuts, marks)[k] = found(s, cuts, marks)[k - 1]
              /\ k \in marks => run(s, cuts, marks, k) = run(s, cuts, marks, k - 1)
              /\ k \notin marks =>
                   run(s, cuts, marks, k) = Append(run(s, cuts, marks, k - 1), s[k])
    /\ pieces(unquoted(s, cuts, marks), cuts)
         = ended(found(s, cuts, marks)[Len(s)], run(s, cuts, marks, Len(s)))

\* What runs() gathers follows the same steps as the tokenizer.
LEMMA Running ==
    ASSUME NEW s, Len(s) \in Nat, NEW cuts, cuts \subseteq 1..Len(s), NEW marks, marks \subseteq 1..Len(s)
    PROVE  RunsSoFar(s, cuts, marks)
  <1>. DEFINE n == Len(s)
              piece == unquoted(s, cuts, marks)
              ends == cuts \cup {n + 1}
              got == found(s, cuts, marks)
  <1>1. Len(piece) = n + 1
    BY LengthOfPieces DEF unquoted
  <1>2. got[0] = << >> /\ \A k \in 1..n+1 : got[k] = gather(piece, ends, got[k - 1], k)
    <2>1. Len(piece) \in Nat
      BY <1>1
    <2>. QED  BY <1>1, <2>1, GatheredUnfolds DEF found
  <1>3. ASSUME NEW k \in 1..n+1
        PROVE  piece[k] = run(s, cuts, marks, k - 1)
    <2>1. k - 1 + 1 = k
      OBVIOUS
    <2>. QED  BY <1>3, <2>1 DEF unquoted, run
  <1>4. ASSUME NEW k \in 1..n+1, k \in ends
        PROVE  got[k] = ended(got[k - 1], run(s, cuts, marks, k - 1))
    BY <1>2, <1>3, <1>4 DEF gather, ended
  <1>5. ASSUME NEW k \in 1..n, k \notin cuts
        PROVE  got[k] = got[k - 1]
    <2>1. k \notin ends /\ k \in 1..n+1
      BY <1>5
    <2>. QED  BY <1>2, <2>1 DEF gather
  <1>6. ASSUME NEW k \in 1..n
        PROVE  /\ k \in cuts => run(s, cuts, marks, k) = << >>
               /\ k \notin cuts /\ k \in marks =>
                    run(s, cuts, marks, k) = run(s, cuts, marks, k - 1)
               /\ k \notin cuts /\ k \notin marks =>
                    run(s, cuts, marks, k) = Append(run(s, cuts, marks, k - 1), s[k])
    <2>1. k - 1 + 1 = k
      OBVIOUS
    <2>2. run(s, cuts, marks, k - 1) = only(s, since(cuts, k) \ marks)
      BY <2>1 DEF run
    <2>3. run(s, cuts, marks, k) = only(s, since(cuts, k + 1) \ marks)
      BY DEF run
    <2>4. k \in Nat \ {0} /\ {} \ marks = {}
      OBVIOUS
    <2>5. k \in cuts => since(cuts, k + 1) = {}
      BY <2>4, SinceSteps
    <2>6. k \in cuts => run(s, cuts, marks, k) = << >>
      BY <2>3, <2>4, <2>5, OnlyNothing
    <2>7. ASSUME k \notin cuts
          PROVE  since(cuts, k + 1) = since(cuts, k) \cup {k} /\ since(cuts, k) \subseteq 1..k-1
      BY <2>4, <2>7, SinceSteps
    <2>8. ASSUME k \notin cuts, k \in marks PROVE run(s, cuts, marks, k) = run(s, cuts, marks, k - 1)
      <3>1. since(cuts, k + 1) \ marks = since(cuts, k) \ marks
        BY <2>7, <2>8
      <3>. QED  BY <2>2, <2>3, <3>1
    <2>9. ASSUME k \notin cuts, k \notin marks
          PROVE  run(s, cuts, marks, k) = Append(run(s, cuts, marks, k - 1), s[k])
      <3>1. PICK ks : ks = since(cuts, k) \ marks
        OBVIOUS
      <3>2. since(cuts, k + 1) \ marks = ks \cup {k} /\ ks \subseteq 1..k-1
        BY <2>7, <2>9, <3>1
      <3>3. only(s, ks \cup {k}) = Append(only(s, ks), s[k])
        BY <3>2, OnlyOneMore
      <3>. QED  BY <2>2, <2>3, <3>1, <3>2, <3>3
    <2>. QED  BY <2>6, <2>8, <2>9
  <1>7. run(s, cuts, marks, 0) = << >>
    <2>1. since(cuts, 0 + 1) = {} /\ {} \ marks = {}
      BY DEF since
    <2>. QED  BY <2>1, OnlyNothing DEF run
  <1>8. pieces(piece, cuts) = ended(got[n], run(s, cuts, marks, n))
    <2>1. pieces(piece, cuts) = got[n + 1]
      BY <1>1 DEF pieces, found
    <2>2. n + 1 \in 1..n+1 /\ n + 1 \in ends /\ n + 1 - 1 = n
      OBVIOUS
    <2>. QED  BY <1>4, <2>1, <2>2
  <1>9. \A k \in 1..n : k \in 1..n+1 /\ (k \in cuts => k \in ends)
    OBVIOUS
  <1>. QED  BY <1>2, <1>4, <1>5, <1>6, <1>7, <1>8, <1>9 DEF RunsSoFar

\* After k characters the tokenizer has found the runs before the last cut and is
\* in the one since.
LEMMA TokensAreRuns ==
    ASSUME NEW s, s \in Seq(Range(s)), "dash" \notin Range(s)
    PROVE  tokenize_redis_line(s) = runs(s, Both)
  <1>. DEFINE n == Len(s)
              lex == lexed(s, Both)
              cuts == top_level(s, Both, whitespace)
              marks == {k \in DOMAIN s : lex[k] # lex[k - 1]}
              Like(k) == \E single, double \in BOOLEAN :
                           /\ tokens_after(s)[k] = token(found(s, cuts, marks)[k], run(s, cuts, marks, k),
                                                         single, double)
                           /\ TokenLex(single, double, lex[k])
              S == {k \in 0..n : Like(k)}
  <1>1. n \in Nat /\ DOMAIN s = 1..n /\ cuts \subseteq 1..n /\ marks \subseteq 1..n
    BY DEF top_level
  <1>0. RunsSoFar(s, cuts, marks)
    <2>. HIDE DEF cuts, lex, marks
    <2>1. Len(s) \in Nat /\ cuts \subseteq 1..Len(s) /\ marks \subseteq 1..Len(s)
      BY <1>1
    <2>. QED  BY <2>1, Running
  <1>2. 0 \in S
    <2>1. tokens_after(s)[0] = token(<< >>, << >>, FALSE, FALSE)
      BY <1>1, TokensUnfolds DEF tokens_start, token
    <2>2. lex[0] = "code"
      BY <1>1, LexUnfolds
    <2>3. TokenLex(FALSE, FALSE, lex[0])
      BY <2>2 DEF TokenLex
    <2>. HIDE DEF cuts, lex, marks
    <2>4. found(s, cuts, marks)[0] = << >> /\ run(s, cuts, marks, 0) = << >>
      BY <1>1, <1>0 DEF RunsSoFar
    <2>5. tokens_after(s)[0] = token(found(s, cuts, marks)[0], run(s, cuts, marks, 0), FALSE, FALSE)
      BY <2>1, <2>4
    <2>6. Like(0)
      BY <2>3, <2>5
    <2>. QED  BY <1>1, <2>6
  <1>3. ASSUME NEW k \in 1..n, k - 1 \in S PROVE k \in S
    <2>1. PICK single, double \in BOOLEAN :
            /\ tokens_after(s)[k - 1] = token(found(s, cuts, marks)[k - 1], run(s, cuts, marks, k - 1),
                                              single, double)
            /\ TokenLex(single, double, lex[k - 1])
      BY <1>3
    <2>2. /\ lex[k] = lex_char(s, Both, lex[k - 1], k)
          /\ tokens_after(s)[k] = token_char(s, tokens_after(s)[k - 1], k)
      BY <1>1, LexUnfolds, TokensUnfolds
    <2>. PICK out, buf, was : /\ out = found(s, cuts, marks)[k - 1]
                              /\ buf = run(s, cuts, marks, k - 1) /\ was = lex[k - 1]
      OBVIOUS
    <2>3. s[k] # "dash"
      BY <1>1 DEF Range
    <2>4. PICK si, do \in BOOLEAN :
            /\ TokenLex(si, do, lex_char(s, Both, was, k))
            /\ token_char(s, token(out, buf, single, double), k) =
                 IF s[k] \in whitespace /\ was = "code" THEN token(ended(out, buf), << >>, si, do)
                 ELSE IF lex_char(s, Both, was, k) # was THEN token(out, buf, si, do)
                 ELSE token(out, Append(buf, s[k]), si, do)
      <3>. PICK a : a = token(out, buf, single, double)
        OBVIOUS
      <3>1. TokenStep(s, k, a, was)
        BY <2>1, <2>3, TokenTurn
      <3>2. a.out = out /\ a.buf = buf
        BY DEF token
      <3>. HIDE DEF S, Like, lex, cuts
      <3>. QED  BY <3>1, <3>2 DEF TokenStep
    <2>5. k \in cuts <=> s[k] \in whitespace /\ was = "code"
      <3>1. ASSUME s[k] \in whitespace, was = "code" PROVE lex[k] # "comment"
        <4>1. lex_char(s, Both, was, k) = "code"
          BY <3>1 DEF lex_char, Both, whitespace
        <4>. QED  BY <2>2, <4>1
      <3>. QED  BY <1>1, <3>1 DEF top_level
    <2>6. k \in marks <=> lex_char(s, Both, was, k) # was
      BY <1>1, <2>2
    <2>. HIDE DEF cuts, lex, marks
    <2>7. tokens_after(s)[k] = token(found(s, cuts, marks)[k], run(s, cuts, marks, k), si, do)
      <3>1. CASE k \in cuts
        <4>1. found(s, cuts, marks)[k] = ended(out, buf) /\ run(s, cuts, marks, k) = << >>
          BY <1>1, <3>1, <1>0 DEF RunsSoFar
        <4>. QED  BY <2>1, <2>2, <2>4, <2>5, <3>1, <4>1
      <3>2. CASE k \notin cuts
        <4>1. found(s, cuts, marks)[k] = out
          BY <1>1, <3>2, <1>0 DEF RunsSoFar
        <4>2. /\ k \in marks => run(s, cuts, marks, k) = buf
              /\ k \notin marks => run(s, cuts, marks, k) = Append(buf, s[k])
          BY <1>1, <3>2, <1>0 DEF RunsSoFar
        <4>. QED  BY <2>1, <2>2, <2>4, <2>5, <2>6, <3>2, <4>1, <4>2
      <3>. QED  BY <3>1, <3>2
    <2>. QED  BY <2>2, <2>4, <2>7
  <1>. HIDE DEF S
  <1>4. \A k \in 0..n : k \in S
    BY <1>1, <1>2, <1>3, Induction
  <1>5. n \in 0..n
    BY <1>1
  <1>6. runs(s, Both) = pieces(unquoted(s, cuts, marks), cuts)
    BY DEF runs, unquoted
  <1>. HIDE DEF cuts, lex, marks
  <1>7. tokenize_redis_line(s) = ended(found(s, cuts, marks)[n], run(s, cuts, marks, n))
    <2>1. PICK single, double \in BOOLEAN :
            tokens_after(s)[n] = token(found(s, cuts, marks)[n], run(s, cuts, marks, n), single, double)
      BY <1>4, <1>5 DEF S
    <2>. QED  BY <2>1 DEF tokenize_redis_line, token, ended
  <1>. QED  BY <1>1, <1>6, <1>7, <1>0 DEF RunsSoFar

\* trim() gives a part of its text, between two characters that are not blank, and
\* leaves out blanks only.
LEMMA Trimmed ==
    ASSUME NEW A, NEW s \in Seq(A)
    PROVE  \/ /\ trim(s) = << >>
              /\ \A k \in 1..Len(s) : s[k] \in whitespace
           \/ \E b \in 1..Len(s), e \in 1..Len(s) :
                /\ b <= e /\ trim(s) = SubSeq(s, b, e)
                /\ s[b] \notin whitespace /\ s[e] \notin whitespace
                /\ \A k \in 1..Len(s) : k < b \/ k > e => s[k] \in whitespace
  <1>. DEFINE solid == {k \in DOMAIN s : s[k] \notin whitespace}
  <1>1. DOMAIN s = 1..Len(s) /\ Len(s) \in Nat
    OBVIOUS
  <1>2. CASE solid = {}
    BY <1>1, <1>2 DEF trim
  <1>3. CASE solid # {}
    <2>1. PICK b, e : b = Min(solid) /\ e = Max(solid)
      OBVIOUS
    <2>2. solid \subseteq Nat /\ solid \subseteq 0..Len(s)
      BY <1>1
    <2>3. b \in solid /\ e \in solid /\ \A y \in solid : b <= y /\ y <= e
      <3>1. b \in solid /\ \A y \in solid : b <= y
        BY <1>3, <2>1, <2>2, SmallestOf
      <3>2. e \in solid /\ \A y \in solid : e >= y
        BY <1>1, <1>3, <2>1, <2>2, LargestOf
      <3>. HIDE DEF solid
      <3>3. \A y \in solid : y \in Nat
        BY <2>2
      <3>. QED  BY <3>1, <3>2, <3>3
    <2>4. trim(s) = SubSeq(s, b, e)
      BY <1>3, <2>1 DEF trim
    <2>5. b \in 1..Len(s) /\ e \in 1..Len(s) /\ b <= e /\ s[b] \notin whitespace /\ s[e] \notin whitespace
      BY <1>1, <2>3
    <2>6. \A k \in 1..Len(s) : k < b \/ k > e => s[k] \in whitespace
      BY <1>1, <2>3
    <2>. QED  BY <2>4, <2>5, <2>6
  <1>. QED  BY <1>2, <1>3

\* trim() adds no character.
LEMMA TrimTyped ==
    ASSUME NEW A, NEW s \in Seq(A)
    PROVE  trim(s) \in Seq(A)
  <1>1. ASSUME NEW b \in 1..Len(s), NEW e \in 1..Len(s), trim(s) = SubSeq(s, b, e) PROVE trim(s) \in Seq(A)
    BY <1>1, SubSeqProperties
  <1>2. CASE trim(s) # << >>
    <2>1. \E b, e \in 1..Len(s) : trim(s) = SubSeq(s, b, e)
      BY <1>2, Trimmed
    <2>. QED  BY <1>1, <2>1
  <1>3. CASE trim(s) = << >>
    BY <1>3
  <1>. QED  BY <1>2, <1>3

\* A Redis line becomes the runs of characters between its top-level spaces.
THEOREM TokensAreTheRuns == Spec => []RedisTokensAreRuns
  <1>1. Typed => RedisTokensAreRuns
    <2>. SUFFICES ASSUME Typed, kind = "redis"
                  PROVE  tokenize_redis_line(before_hash(text)) = runs(before_hash(text), Both)
      BY DEF RedisTokensAreRuns
    <2>1. PICK A : A = Alphabet["redis"]
      OBVIOUS
    <2>2. "dash" \notin A /\ text \in Seq(A)
      BY <2>1 DEF Typed, Alphabet
    <2>3. PICK s : s = before_hash(text)
      OBVIOUS
    <2>4. s \in Seq(A)
      <3>. DEFINE hashes == {k \in DOMAIN text : text[k] = "hash"}
      <3>1. CASE hashes = {}
        BY <2>2, <2>3, <3>1, TrimTyped DEF before_hash
      <3>2. CASE hashes # {}
        <4>1. PICK m : m = Min(hashes)
          OBVIOUS
        <4>2. hashes \subseteq Nat
          BY <2>2
        <4>3. m \in 1..Len(text)
          <5>1. m \in hashes
            BY <3>2, <4>1, <4>2, SmallestOf
          <5>. QED  BY <2>2, <5>1
        <4>4. PICK p : p = SubSeq(text, 1, m - 1)
          OBVIOUS
        <4>5. p \in Seq(A)
          BY <2>2, <4>3, <4>4, SubSeqProperties
        <4>6. s = trim(p)
          BY <2>3, <3>2, <4>1, <4>4 DEF before_hash
        <4>. QED  BY <4>5, <4>6, TrimTyped
      <3>. QED  BY <3>1, <3>2
    <2>5. s \in Seq(Range(s)) /\ "dash" \notin Range(s)
      BY <2>2, <2>4, SeqOfItsRange DEF Range
    <2>. QED  BY <2>3, <2>5, TokensAreRuns
  <1>. QED  BY <1>1, TypedInvariant, PTL

-----------------------------------------------------------------------------
(* What is between two cuts, as a part of the text                          *)

\* The pieces are pieces that end somewhere.
LEMMA Gathered ==
    ASSUME NEW piece, Len(piece) \in Nat, NEW ends, NEW P,
           \A k \in 1..Len(piece) : k \in ends /\ piece[k] # << >> => piece[k] \in P
    PROVE  \A k \in 0..Len(piece) : gathered(piece, ends)[k] \in Seq(P)
  <1>. DEFINE n == Len(piece)
              S == {k \in 0..n : gathered(piece, ends)[k] \in Seq(P)}
  <1>1. 0 \in S
    <2>1. gathered(piece, ends)[0] = << >>
      BY GatheredUnfolds
    <2>2. << >> \in Seq(P)
      OBVIOUS
    <2>3. gathered(piece, ends)[0] \in Seq(P)
      BY <2>1, <2>2, Zenon
    <2>. QED  BY <2>3
  <1>2. ASSUME NEW k \in 1..n, k - 1 \in S PROVE k \in S
    <2>1. gathered(piece, ends)[k] = gather(piece, ends, gathered(piece, ends)[k - 1], k)
      BY GatheredUnfolds
    <2>2. PICK was : was = gathered(piece, ends)[k - 1] /\ was \in Seq(P)
      BY <1>2
    <2>3. gather(piece, ends, was, k) \in Seq(P)
      <3>1. CASE k \in ends /\ piece[k] # << >>
        BY <2>2, <3>1, AppendProperties DEF gather
      <3>2. CASE ~(k \in ends /\ piece[k] # << >>)
        BY <2>2, <3>2 DEF gather
      <3>. QED  BY <3>1, <3>2
    <2>. QED  BY <2>1, <2>2, <2>3
  <1>. HIDE DEF S
  <1>3. \A k \in 0..n : k \in S
    BY <1>1, <1>2, Induction
  <1>. QED  BY <1>3 DEF S

\* From the last cut, or the start, up to position k.
LEMMA SinceInterval ==
    ASSUME NEW n \in Nat, NEW cuts, NEW k \in 1..n+1
    PROVE  \E a \in 1..k : /\ since(cuts, k) = a..k-1
                           /\ a = 1 \/ a - 1 \in cuts
  <1>. DEFINE Is(j, a) == since(cuts, j) = a..j-1 /\ (a = 1 \/ a - 1 \in cuts)
              S == {i \in 0..n : \E a \in 1..i+1 : Is(i + 1, a)}
  <1>1. 0 \in S
    <2>1. since(cuts, 1) = {} /\ {} = 1..1-1
      BY SinceSteps
    <2>2. Is(0 + 1, 1)
      BY <2>1
    <2>. QED  BY <2>2
  <1>2. ASSUME NEW i \in 1..n, i - 1 \in S PROVE i \in S
    <2>1. PICK a \in 1..i : Is(i, a)
      <3>1. (i - 1) + 1 = i
        OBVIOUS
      <3>. HIDE DEF Is
      <3>. QED  BY <1>2, <3>1
    <2>2. i \in Nat \ {0}
      OBVIOUS
    <2>3. CASE i \in cuts
      <3>1. since(cuts, i + 1) = {} /\ {} = (i+1)..((i+1)-1) /\ (i + 1) - 1 = i
        BY <2>2, <2>3, SinceSteps
      <3>2. Is(i + 1, i + 1) /\ i + 1 \in 1..i+1
        BY <2>3, <3>1
      <3>. HIDE DEF Is
      <3>. QED  BY <3>2
    <2>4. CASE i \notin cuts
      <3>1. since(cuts, i + 1) = since(cuts, i) \cup {i}
        BY <2>2, <2>4, SinceSteps
      <3>2. (a..i-1) \cup {i} = a..((i+1)-1) /\ a \in 1..i+1
        OBVIOUS
      <3>3. since(cuts, i + 1) = a..((i+1)-1)
        <4>1. since(cuts, i) = a..i-1
          BY <2>1
        <4>. QED  BY <3>1, <3>2, <4>1
      <3>4. Is(i + 1, a) /\ a \in 1..i+1
        BY <2>1, <3>2, <3>3
      <3>. HIDE DEF Is
      <3>. QED  BY <3>4
    <2>. QED  BY <2>3, <2>4
  <1>. HIDE DEF S
  <1>3. \A i \in 0..n : i \in S
    BY <1>1, <1>2, Induction
  <1>4. k - 1 \in 0..n /\ (k - 1) + 1 = k
    OBVIOUS
  <1>5. \E a \in 1..k : Is(k, a)
    <2>. HIDE DEF Is
    <2>. QED  BY <1>3, <1>4 DEF S
  <1>. QED  BY <1>5

\* Keeping the positions a..m gives that part of the text.
LEMMA OnlyInterval ==
    ASSUME NEW A, NEW s \in Seq(A), NEW a \in 1..Len(s)+1, NEW m \in a-1..Len(s)
    PROVE  only(s, a..m) = SubSeq(s, a, m)
  <1>. DEFINE n == m - (a - 1)
              S == {i \in 0..n : only(s, a..((a-1)+i)) = SubSeq(s, a, (a-1)+i)}
  <1>0. Len(s) \in Nat /\ n \in Nat /\ s \in [1..Len(s) -> A]
    OBVIOUS
  <1>1. 0 \in S
    <2>1. a..((a-1)+0) = {}
      OBVIOUS
    <2>2. SubSeq(s, a, (a-1)+0) = << >>
      BY SubSeqEmpty
    <2>3. only(s, {}) = << >>
      BY <1>0, OnlyNothing
    <2>4. only(s, a..((a-1)+0)) = SubSeq(s, a, (a-1)+0)
      BY <2>1, <2>2, <2>3, Zenon
    <2>5. 0 \in 0..n
      BY <1>0
    <2>. HIDE DEF n
    <2>. QED  BY <2>4, <2>5
  <1>2. ASSUME NEW i \in 1..n, i - 1 \in S PROVE i \in S
    <2>1. PICK k \in 1..Len(s) : k = (a-1)+i
      OBVIOUS
    <2>2. (a-1)+(i-1) = k - 1 /\ a..k = (a..k-1) \cup {k} /\ a..k-1 \subseteq 1..k-1 /\ a <= k
      BY <2>1
    <2>3. only(s, a..k-1) = SubSeq(s, a, k - 1)
      BY <1>2, <2>2
    <2>4. PICK ks : ks = a..k-1
      OBVIOUS
    <2>5. only(s, ks \cup {k}) = Append(only(s, ks), s[k])
      BY <1>0, <2>2, <2>4, OnlyOneMore
    <2>6. SubSeq(s, a, k) = Append(SubSeq(s, a, k - 1), s[k])
      <3>1. \A j \in a..k : s[j] \in A
        BY <1>0
      <3>2. /\ SubSeq(s, a, k) \in Seq(A) /\ Len(SubSeq(s, a, k)) = k - a + 1
            /\ \A j \in 1..k-a+1 : SubSeq(s, a, k)[j] = s[a + j - 1]
        BY <2>2, <3>1, SubSeqProperties
      <3>3. PICK u : u = SubSeq(s, a, k - 1)
        OBVIOUS
      <3>4. u \in Seq(A) /\ Len(u) = k - a /\ \A j \in 1..k-a : u[j] = s[a + j - 1]
        <4>1. PICK l \in Int : l = k - 1
          OBVIOUS
        <4>2. \A j \in a..l : s[j] \in A
          BY <3>1, <4>1
        <4>3. /\ SubSeq(s, a, l) \in Seq(A) /\ Len(SubSeq(s, a, l)) = IF a <= l THEN l - a + 1 ELSE 0
              /\ \A j \in 1..l-a+1 : SubSeq(s, a, l)[j] = s[a + j - 1]
          BY <4>2, SubSeqProperties
        <4>4. l - a + 1 = k - a
          BY <4>1
        <4>. QED  BY <2>2, <3>3, <4>1, <4>3, <4>4
      <3>5. s[k] \in A
        BY <1>0
      <3>6. /\ Append(u, s[k]) \in Seq(A) /\ Len(Append(u, s[k])) = k - a + 1
            /\ \A j \in 1..k-a : Append(u, s[k])[j] = s[a + j - 1]
            /\ Append(u, s[k])[k - a + 1] = s[k]
        <4>1. PICK c \in A : c = s[k]
          BY <3>5
        <4>2. /\ Append(u, c) \in Seq(A) /\ Len(Append(u, c)) = Len(u) + 1
              /\ \A j \in 1..Len(u) : Append(u, c)[j] = u[j]
              /\ Append(u, c)[Len(u) + 1] = c
          BY <3>4
        <4>. QED  BY <3>4, <4>1, <4>2
      <3>7. \A j \in 1..k-a+1 : SubSeq(s, a, k)[j] = Append(u, s[k])[j]
        <4>1. ASSUME NEW j \in 1..k-a+1 PROVE SubSeq(s, a, k)[j] = Append(u, s[k])[j]
          <5>1. CASE j = k - a + 1
            <6>1. a + j - 1 = k
              BY <5>1
            <6>. QED  BY <3>2, <3>6, <5>1, <6>1
          <5>2. CASE j \in 1..k-a
            BY <3>2, <3>6, <5>2
          <5>3. k - a + 1 \in Int /\ (j = k - a + 1 \/ j \in 1..k-a)
            BY <2>2
          <5>. QED  BY <5>1, <5>2, <5>3
        <4>. QED  BY <4>1
      <3>8. SubSeq(s, a, k) = Append(u, s[k])
        <4>. PICK x, y : x = SubSeq(s, a, k) /\ y = Append(u, s[k])
          OBVIOUS
        <4>1. x \in Seq(A) /\ y \in Seq(A) /\ Len(x) = Len(y) /\ \A j \in 1..Len(x) : x[j] = y[j]
          BY <3>2, <3>6, <3>7
        <4>2. x = y
          BY <4>1, SeqEqual
        <4>. QED  BY <4>2
      <3>. QED  BY <3>3, <3>8
    <2>8. only(s, a..k) = only(s, ks \cup {k})
      <3>1. a..k = ks \cup {k}
        BY <2>2, <2>4
      <3>. QED  BY <3>1, Zenon
    <2>9. only(s, a..k) = SubSeq(s, a, k)
      <3>1. only(s, ks) = SubSeq(s, a, k - 1)
        BY <2>3, <2>4, Zenon
      <3>. QED  BY <2>5, <2>6, <2>8, <3>1, Zenon
    <2>10. only(s, a..((a-1)+i)) = SubSeq(s, a, (a-1)+i) /\ i \in 0..n
      BY <2>1, <2>9
    <2>. HIDE DEF n
    <2>. QED  BY <2>10
  <1>. HIDE DEF S
  <1>3. \A i \in 0..n : i \in S
    BY <1>0, <1>1, <1>2, Induction
  <1>4. n \in 0..n /\ (a-1)+n = m
    OBVIOUS
  <1>. HIDE DEF n
  <1>. QED  BY <1>3, <1>4 DEF S

\* A part of a part is a part.
LEMMA PartOfPart ==
    ASSUME NEW A, NEW s \in Seq(A), NEW a \in 1..Len(s), NEW m \in a..Len(s), NEW q, q = SubSeq(s, a, m),
           NEW b \in 1..Len(q), NEW e \in b..Len(q)
    PROVE  /\ Len(q) = m - a + 1 /\ q \in Seq(A) /\ \A j \in 1..Len(q) : q[j] = s[a + j - 1]
           /\ SubSeq(q, b, e) = SubSeq(s, a + b - 1, a + e - 1)
  <1>1. \A j \in 1..Len(s) : s[j] \in A
    OBVIOUS
  <1>2. Len(s) \in Nat /\ a \in Int /\ m \in Int
    OBVIOUS
  <1>3. Len(q) = m - a + 1 /\ q \in Seq(A) /\ \A j \in 1..m-a+1 : q[j] = s[a + j - 1]
    <2>1. \A j \in a..m : s[j] \in A
      BY <1>1, <1>2
    <2>2. /\ SubSeq(s, a, m) \in Seq(A) /\ Len(SubSeq(s, a, m)) = IF a <= m THEN m - a + 1 ELSE 0
          /\ \A j \in 1..m-a+1 : SubSeq(s, a, m)[j] = s[a + j - 1]
      BY <1>2, <2>1, SubSeqProperties
    <2>. QED  BY <2>2
  <1>4. PICK n \in Nat : n = Len(q) /\ b \in 1..n /\ e \in b..n
    BY <1>3
  <1>5. PICK B, E \in 1..Len(s) : B = a + b - 1 /\ E = a + e - 1
    BY <1>2, <1>3, <1>4
  <1>6. PICK x, y : x = SubSeq(q, b, e) /\ y = SubSeq(s, B, E)
    OBVIOUS
  <1>7. x \in Seq(A) /\ Len(x) = e - b + 1 /\ \A j \in 1..e-b+1 : x[j] = q[b + j - 1]
    <2>1. \A j \in b..e : q[j] \in A
      BY <1>3, <1>4
    <2>2. /\ SubSeq(q, b, e) \in Seq(A) /\ Len(SubSeq(q, b, e)) = IF b <= e THEN e - b + 1 ELSE 0
          /\ \A j \in 1..e-b+1 : SubSeq(q, b, e)[j] = q[b + j - 1]
      BY <1>4, <2>1, SubSeqProperties
    <2>. QED  BY <1>4, <1>6, <2>2
  <1>8. y \in Seq(A) /\ Len(y) = e - b + 1 /\ \A j \in 1..e-b+1 : y[j] = s[B + j - 1]
    <2>1. \A j \in B..E : s[j] \in A
      BY <1>1, <1>2, <1>5
    <2>2. /\ SubSeq(s, B, E) \in Seq(A) /\ Len(SubSeq(s, B, E)) = IF B <= E THEN E - B + 1 ELSE 0
          /\ \A j \in 1..E-B+1 : SubSeq(s, B, E)[j] = s[B + j - 1]
      BY <1>2, <2>1, SubSeqProperties
    <2>3. B <= E /\ E - B + 1 = e - b + 1
      BY <1>4, <1>5
    <2>. QED  BY <1>6, <2>2, <2>3
  <1>9. \A j \in 1..Len(x) : x[j] = y[j]
    <2>1. ASSUME NEW j \in 1..e-b+1 PROVE x[j] = y[j]
      <3>1. PICK i \in 1..n : i = b + j - 1
        BY <1>4
      <3>2. x[j] = q[i] /\ q[i] = s[a + i - 1]
        BY <1>3, <1>4, <1>7, <3>1
      <3>3. y[j] = s[B + j - 1] /\ B + j - 1 = a + i - 1
        BY <1>4, <1>5, <1>8, <3>1
      <3>. QED  BY <3>2, <3>3
    <2>. QED  BY <1>7, <2>1
  <1>10. x = y
    <2>1. Len(x) = Len(y)
      BY <1>7, <1>8
    <2>. QED  BY <1>7, <1>8, <1>9, <2>1, SeqEqual
  <1>. QED  BY <1>3, <1>5, <1>6, <1>10

\* Blanks leave the lexer in code.
LEMMA BlanksInCode ==
    ASSUME NEW s, Len(s) \in Nat, NEW a \in 1..Len(s)+1, NEW m \in a-1..Len(s),
           lexed(s, Single)[a - 1] = "code", \A j \in a..m : s[j] \in whitespace
    PROVE  lexed(s, Single)[m] = "code"
  <1>. DEFINE n == m - (a - 1)
              S == {i \in 0..n : lexed(s, Single)[(a-1)+i] = "code"}
  <1>1. 0 \in S
    OBVIOUS
  <1>2. ASSUME NEW i \in 1..n, i - 1 \in S PROVE i \in S
    <2>1. PICK k \in 1..Len(s) : k = (a-1)+i
      OBVIOUS
    <2>2. (a-1)+(i-1) = k - 1 /\ k \in a..m
      BY <2>1
    <2>3. lexed(s, Single)[k - 1] = "code"
      BY <1>2, <2>2
    <2>4. lexed(s, Single)[k] = lex_char(s, Single, lexed(s, Single)[k - 1], k)
      BY LexUnfolds
    <2>5. s[k] # "quote" /\ s[k] # "dash"
      BY <2>2 DEF whitespace
    <2>6. lexed(s, Single)[k] = "code"
      BY <2>3, <2>4, <2>5 DEF lex_char, Single
    <2>. QED  BY <2>1, <2>6
  <1>3. n \in Nat /\ n \in 0..n /\ (a-1)+n = m
    OBVIOUS
  <1>. HIDE DEF S, n
  <1>4. \A i \in 0..n : i \in S
    BY <1>1, <1>2, <1>3, Induction
  <1>. QED  BY <1>3, <1>4 DEF S

\* p is what s has at b..e: it starts in code, has no semicolon at top level, and
\* no dash follows it.
Part(s, p, b, e) ==
    /\ b \in 1..Len(s) /\ e \in b..Len(s) /\ p = SubSeq(s, b, e)
    /\ lexed(s, Single)[b - 1] = "code"
    /\ ~next_is(s, e, "dash")
    /\ \A j \in b..e : ~(s[j] = "semi" /\ lexed(s, Single)[j - 1] = "code")

\* What stands between two cuts, trimmed, is such a part: it ends at the text's end, at
\* a blank or at a semicolon.
LEMMA PieceIsPart ==
    ASSUME NEW s, s \in Seq(Range(s)), NEW cuts, cuts = top_level(s, Single, {"semi"}),
           NEW k \in 1..Len(s)+1, k \in cuts \cup {Len(s) + 1},
           NEW p, p = trim(only(s, since(cuts, k))), p # << >>
    PROVE  \E b, e \in 1..Len(s) : Part(s, p, b, e)
  <1>. DEFINE n == Len(s)
              lex == lexed(s, Single)
  <1>1. n \in Nat /\ DOMAIN s = 1..n
    OBVIOUS
  <1>2. /\ cuts \subseteq 1..n
        /\ \A j \in 1..n : j \in cuts <=> s[j] = "semi" /\ lex[j - 1] = "code"
    BY Cuts
  <1>3. PICK a \in 1..k : since(cuts, k) = a..k-1 /\ (a = 1 \/ a - 1 \in cuts)
    BY <1>1, SinceInterval
  <1>4. PICK q : q = SubSeq(s, a, k - 1)
    OBVIOUS
  <1>5. only(s, since(cuts, k)) = q
    <2>1. a \in 1..n+1 /\ k - 1 \in a-1..n
      BY <1>1
    <2>2. only(s, a..k-1) = q
      BY <1>4, <2>1, OnlyInterval
    <2>3. PICK ks : ks = since(cuts, k)
      OBVIOUS
    <2>4. ks = a..k-1
      BY <1>3, <2>3
    <2>. QED  BY <2>2, <2>3, <2>4, Zenon
  <1>6. p = trim(q)
    BY <1>5, Zenon
  <1>7. a <= k - 1
    <2>1. CASE a = k
      <3>1. q = << >>
        BY <1>1, <1>4, <2>1, SubSeqEmpty
      <3>2. trim(q) = << >>
        BY <3>1 DEF trim
      <3>. QED  BY <1>6, <3>2, Zenon
    <2>. QED  BY <2>1
  <1>8. PICK m \in a..n : m = k - 1 /\ a \in 1..n
    BY <1>1, <1>7
  <1>9. q = SubSeq(s, a, m)
    BY <1>4, <1>8
  <1>10. Len(q) = m - a + 1 /\ q \in Seq(Range(s)) /\ \A j \in 1..Len(q) : q[j] = s[a + j - 1]
    <2>1. \A j \in a..m : s[j] \in Range(s)
      BY <1>1 DEF Range
    <2>2. /\ SubSeq(s, a, m) \in Seq(Range(s)) /\ Len(SubSeq(s, a, m)) = IF a <= m THEN m - a + 1 ELSE 0
          /\ \A j \in 1..m-a+1 : SubSeq(s, a, m)[j] = s[a + j - 1]
      BY <1>1, <2>1, SubSeqProperties
    <2>. QED  BY <1>8, <1>9, <2>2
  <1>11. PICK b \in 1..Len(q), e \in 1..Len(q) :
           /\ b <= e /\ p = SubSeq(q, b, e)
           /\ \A j \in 1..Len(q) : j < b \/ j > e => q[j] \in whitespace
    BY <1>6, <1>10, Trimmed
  <1>12. PICK B, E \in 1..n : B = a + b - 1 /\ E = a + e - 1 /\ B <= E /\ E <= m
    BY <1>1, <1>8, <1>10, <1>11
  <1>13. p = SubSeq(s, B, E)
    <2>1. e \in b..Len(q)
      BY <1>10, <1>11
    <2>2. SubSeq(q, b, e) = SubSeq(s, a + b - 1, a + e - 1)
      BY <1>8, <1>9, <2>1, PartOfPart
    <2>. QED  BY <1>11, <1>12, <2>2
  <1>14. lex[B - 1] = "code"
    <2>1. lex[a - 1] = "code"
      <3>1. CASE a = 1
        BY <1>1, <3>1, LexUnfolds
      <3>2. CASE a - 1 \in cuts
        <4>1. PICK c \in 1..n : c = a - 1 /\ s[c] = "semi" /\ lex[c - 1] = "code"
          BY <1>2, <3>2
        <4>2. lex[c] = lex_char(s, Single, lex[c - 1], c)
          BY <1>1, LexUnfolds
        <4>. QED  BY <4>1, <4>2 DEF lex_char, Single
      <3>. QED  BY <1>3, <3>1, <3>2
    <2>2. PICK w \in a-1..n : w = B - 1
      BY <1>8, <1>12
    <2>3. \A j \in a..w : s[j] \in whitespace
      <3>1. ASSUME NEW j \in a..w PROVE s[j] \in whitespace
        <4>1. PICK i \in 1..Len(q) : i = j - a + 1 /\ i < b /\ a + i - 1 = j
          BY <1>10, <1>12, <2>2
        <4>. QED  BY <1>10, <1>11, <4>1
      <3>. QED  BY <3>1
    <2>4. lex[w] = "code"
      BY <1>1, <1>8, <2>1, <2>3, BlanksInCode
    <2>. QED  BY <2>2, <2>4
  <1>15. ~next_is(s, E, "dash")
    <2>1. CASE e = Len(q)
      <3>1. E + 1 = k
        BY <1>8, <1>10, <1>12, <2>1
      <3>2. k \in 1..n => s[k] = "semi"
        BY <1>1, <1>2
      <3>. QED  BY <1>1, <3>1, <3>2 DEF next_is
    <2>2. CASE e < Len(q)
      <3>1. PICK i \in 1..Len(q) : i = e + 1 /\ i > e /\ a + i - 1 = E + 1
        BY <1>10, <1>12, <2>2
      <3>2. s[E + 1] \in whitespace
        BY <1>10, <1>11, <3>1
      <3>. QED  BY <3>2 DEF next_is, whitespace
    <2>. QED  BY <1>10, <2>1, <2>2
  <1>16. \A j \in B..E : ~(s[j] = "semi" /\ lex[j - 1] = "code")
    <2>1. ASSUME NEW j \in B..E PROVE j \notin cuts /\ j \in 1..n
      <3>1. j \in a..k-1 /\ j \in 1..n /\ j \in j..k-1
        BY <1>8, <1>11, <1>12
      <3>2. j \in since(cuts, k)
        BY <1>3, <3>1
      <3>. QED  BY <3>1, <3>2 DEF since
    <2>. QED  BY <1>2, <2>1
  <1>17. B \in 1..Len(s) /\ E \in B..Len(s)
    BY <1>12
  <1>18. Part(s, p, B, E)
    BY <1>13, <1>14, <1>15, <1>16, <1>17 DEF Part
  <1>. QED  BY <1>12, <1>18

\* Each statement that split_ds_sql_statements returns is a part of its text.
LEMMA StatementsAreParts ==
    ASSUME NEW s, s \in Seq(Range(s)), NEW p \in Range(split_ds_sql_statements(s))
    PROVE  \E b, e \in 1..Len(s) : Part(s, p, b, e)
  <1>. DEFINE n == Len(s)
              cuts == top_level(s, Single, {"semi"})
              piece == between(s, cuts)
              ends == cuts \cup {n + 1}
              P == {q \in {piece[k] : k \in 1..n+1} : \E b, e \in 1..n : Part(s, q, b, e)}
  <1>1. n \in Nat
    OBVIOUS
  <1>2. Len(piece) = n + 1
    BY <1>1, LengthOfPieces DEF between
  <1>3. ASSUME NEW k \in 1..n+1, k \in ends, piece[k] # << >> PROVE piece[k] \in P
    <2>1. PICK q : q = piece[k]
      OBVIOUS
    <2>2. q = trim(only(s, since(cuts, k)))
      BY <2>1 DEF between
    <2>3. q # << >>
      BY <1>3, <2>1
    <2>4. PICK cs : cs = cuts
      OBVIOUS
    <2>. HIDE DEF cuts
    <2>5. \E b, e \in 1..n : Part(s, q, b, e)
      <3>1. cs = top_level(s, Single, {"semi"}) /\ k \in cs \cup {n + 1} /\ q = trim(only(s, since(cs, k)))
        BY <1>3, <2>2, <2>4 DEF cuts
      <3>. QED  BY <2>3, <3>1, PieceIsPart
    <2>. QED  BY <2>1, <2>5
  <1>. HIDE DEF P, piece
  <1>4. gathered(piece, ends)[n + 1] \in Seq(P)
    <2>1. Len(piece) \in Nat /\ n + 1 \in 0..Len(piece)
      BY <1>1, <1>2
    <2>2. \A k \in 1..Len(piece) : k \in ends /\ piece[k] # << >> => piece[k] \in P
      BY <1>2, <1>3
    <2>. HIDE DEF ends
    <2>3. \A k \in 0..Len(piece) : gathered(piece, ends)[k] \in Seq(P)
      BY <2>1, <2>2, Gathered
    <2>. QED  BY <2>1, <2>3
  <1>5. split_ds_sql_statements(s) = gathered(piece, ends)[n + 1]
    <2>1. split_ds_sql_statements(s) = pieces(piece, cuts)
      BY DsSplits DEF statements, between, piece
    <2>. QED  BY <1>2, <2>1 DEF pieces
  <1>6. p \in P
    BY <1>4, <1>5 DEF Range
  <1>. QED  BY <1>6 DEF P

\* One statement as it is handed to the client: no "--" in its literals, no
\* semicolon at top level.
Clean(p) ==
    /\ p \in Seq(Range(p)) /\ no_dashes_quoted(p, Single)
    /\ \A k \in 1..Len(p) : ~(p[k] = "semi" /\ lexed(p, Single)[k - 1] = "code")

\* A part is lexed on its own as it is within its text.
LEMMA PartsAreClean ==
    ASSUME NEW s, s \in Seq(Range(s)), no_dashes_quoted(s, Single), NEW p,
           NEW b \in 1..Len(s), NEW e \in 1..Len(s), Part(s, p, b, e)
    PROVE  Clean(p)
  <1>. DEFINE lex == lexed(s, Single)
              lexp == lexed(p, Single)
  <1>1. PICK n, m \in Nat : n = Len(s) /\ DOMAIN s = 1..n /\ m = e - b + 1 /\ b \in 1..n /\ e \in b..n
    BY DEF Part
  <1>2. p \in Seq(Range(s)) /\ Len(p) = m /\ \A k \in 1..m : p[k] = s[b + k - 1]
    <2>1. \A j \in b..e : s[j] \in Range(s)
      BY <1>1 DEF Range
    <2>2. /\ SubSeq(s, b, e) \in Seq(Range(s)) /\ Len(SubSeq(s, b, e)) = IF b <= e THEN e - b + 1 ELSE 0
          /\ \A j \in 1..e-b+1 : SubSeq(s, b, e)[j] = s[b + j - 1]
      BY <2>1, SubSeqProperties
    <2>3. p = SubSeq(s, b, e)
      BY DEF Part
    <2>. QED  BY <1>1, <2>2, <2>3
  <1>3. DOMAIN p = 1..m
    BY <1>2
  <1>4. ASSUME NEW k \in 1..m
        PROVE  /\ b + k - 1 \in b..e /\ b + k - 1 \in 1..n /\ p[k] = s[b + k - 1]
               /\ next_is(p, k, "dash") <=> next_is(s, b + k - 1, "dash")
    <2>1. b + k - 1 \in b..e /\ b + k - 1 \in 1..n /\ p[k] = s[b + k - 1]
      BY <1>1, <1>2
    <2>2. CASE k = m
      <3>1. b + k - 1 = e /\ ~next_is(s, e, "dash")
        BY <1>1, <2>2 DEF Part
      <3>2. k + 1 \notin 1..m
        BY <2>2
      <3>. QED  BY <1>3, <2>1, <3>1, <3>2 DEF next_is
    <2>3. CASE k # m
      <3>1. k + 1 \in 1..m /\ (b + k - 1) + 1 \in 1..n /\ b + (k + 1) - 1 = (b + k - 1) + 1
        BY <1>1, <2>3
      <3>2. p[k + 1] = s[(b + k - 1) + 1]
        BY <1>2, <3>1
      <3>. QED  BY <1>1, <1>3, <2>1, <3>1, <3>2 DEF next_is
    <2>. QED  BY <2>2, <2>3
  <1>. DEFINE S == {k \in 0..m : lexp[k] = lex[(b - 1) + k]}
  <1>5. 0 \in S
    <2>1. lexp[0] = "code"
      BY <1>2, LexUnfolds
    <2>2. lex[(b - 1) + 0] = "code"
      BY <1>1 DEF Part
    <2>. QED  BY <1>1, <2>1, <2>2
  <1>6. ASSUME NEW k \in 1..m, k - 1 \in S PROVE k \in S
    <2>1. PICK j \in 1..n : j = b + k - 1 /\ (b - 1) + k = j /\ (b - 1) + (k - 1) = j - 1
      BY <1>1, <1>4
    <2>2. PICK was : was = lexp[k - 1] /\ was = lex[j - 1]
      BY <1>6, <2>1
    <2>3. lexp[k] = lex_char(p, Single, was, k)
      <3>1. Len(p) \in Nat /\ k \in 1..Len(p)
        BY <1>2
      <3>2. lexp[k] = lex_char(p, Single, lexp[k - 1], k)
        BY <3>1, LexUnfolds
      <3>. QED  BY <2>2, <3>2
    <2>4. lex[j] = lex_char(s, Single, was, j)
      BY <1>1, <2>2, LexUnfolds
    <2>5. p[k] = s[j] /\ (next_is(p, k, "dash") <=> next_is(s, j, "dash"))
      BY <1>4, <2>1
    <2>6. lex_char(p, Single, was, k) = lex_char(s, Single, was, j)
      BY <2>5 DEF lex_char
    <2>. QED  BY <2>1, <2>3, <2>4, <2>6
  <1>. HIDE DEF S
  <1>7. \A k \in 0..m : k \in S
    BY <1>5, <1>6, Induction
  <1>8. ASSUME NEW k \in 1..m PROVE lexp[k - 1] = lex[(b + k - 1) - 1]
    <2>1. k - 1 \in 0..m /\ (b - 1) + (k - 1) = (b + k - 1) - 1
      BY <1>1
    <2>. QED  BY <1>7, <2>1 DEF S
  <1>9. no_dashes_quoted(p, Single)
    <2>1. ASSUME NEW k \in 1..m, lexp[k - 1] \in Single PROVE ~(p[k] = "dash" /\ next_is(p, k, "dash"))
      <3>1. PICK j \in 1..n : j = b + k - 1
        BY <1>4
      <3>2. ~(s[j] = "dash" /\ next_is(s, j, "dash"))
        BY <1>1, <1>8, <2>1, <3>1 DEF no_dashes_quoted
      <3>. QED  BY <1>4, <3>1, <3>2
    <2>. QED  BY <1>3, <2>1 DEF no_dashes_quoted
  <1>10. \A k \in 1..m : ~(p[k] = "semi" /\ lexp[k - 1] = "code")
    BY <1>4, <1>8 DEF Part
  <1>11. p \in Seq(Range(p))
    BY <1>2, SeqOfItsRange
  <1>. QED  BY <1>2, <1>9, <1>10, <1>11 DEF Clean

-----------------------------------------------------------------------------
(* What the client makes of it                                              *)

InCode(p) == {k \in DOMAIN p : lexed(p, Single)[k] # "comment"}

\* Outside literals and comments, the lexer is in code.
LEMMA LexerStates ==
    ASSUME NEW s, Len(s) \in Nat
    PROVE  \A k \in 0..Len(s) : lexed(s, Single)[k] \in {"code", "comment", "quote"}
  <1>. DEFINE n == Len(s)
              S == {k \in 0..n : lexed(s, Single)[k] \in {"code", "comment", "quote"}}
  <1>1. 0 \in S
    BY LexUnfolds
  <1>2. ASSUME NEW k \in 1..n, k - 1 \in S PROVE k \in S
    <2>1. lexed(s, Single)[k] = lex_char(s, Single, lexed(s, Single)[k - 1], k)
      BY LexUnfolds
    <2>2. lexed(s, Single)[k - 1] \in {"code", "comment", "quote"}
      BY <1>2
    <2>. QED  BY <2>1, <2>2 DEF lex_char, Single
  <1>. HIDE DEF S
  <1>3. \A k \in 0..n : k \in S
    BY <1>1, <1>2, Induction
  <1>. QED  BY <1>3 DEF S

\* A line is cut where its comment starts.
LEMMA StripsComments ==
    ASSUME NEW p, Clean(p)
    PROVE  strip_sql_comments(p) = uncommented(p, Single)
  <1>. DEFINE n == Len(p)
              lex == lexed(p, Single)
              K == InCode(p)
              S == {k \in 0..n : strip_after(p)[k] = [out |-> kept(p, K)[k], cut |-> lex[k] = "comment"]}
  <1>1. n \in Nat /\ DOMAIN p = 1..n
    BY DEF Clean
  <1>2. 0 \in S
    <2>1. strip_after(p)[0] = [out |-> << >>, cut |-> FALSE]
      BY <1>1, StripUnfolds DEF strip_start
    <2>2. (lex[0] = "comment") = FALSE
      <3>1. lex[0] = "code"
        BY <1>1, LexUnfolds
      <3>. QED  BY <3>1
    <2>3. kept(p, K)[0] = << >>
      BY <1>1, KeptUnfolds
    <2>4. strip_after(p)[0] = [out |-> kept(p, K)[0], cut |-> lex[0] = "comment"]
      BY <2>1, <2>2, <2>3, Zenon
    <2>. QED  BY <1>1, <2>4
  <1>3. ASSUME NEW k \in 1..n, k - 1 \in S PROVE k \in S
    <2>1. PICK out, was, a : /\ out = kept(p, K)[k - 1] /\ was = lex[k - 1]
                             /\ a = [out |-> out, cut |-> was = "comment"]
      OBVIOUS
    <2>2. strip_after(p)[k] = strip_char(p, a, k)
      <3>1. strip_after(p)[k] = strip_char(p, strip_after(p)[k - 1], k)
        BY <1>1, StripUnfolds
      <3>2. strip_after(p)[k - 1] = a
        BY <1>3, <2>1
      <3>. QED  BY <3>1, <3>2
    <2>3. lex[k] = lex_char(p, Single, was, k) /\ kept(p, K)[k] = take(p, K, out, k)
      BY <1>1, <2>1, LexUnfolds, KeptUnfolds
    <2>4. was \in {"code", "comment", "quote"}
      <3>1. k - 1 \in 0..n
        OBVIOUS
      <3>. QED  BY <1>1, <2>1, <3>1, LexerStates
    <2>5. was = "quote" => ~(p[k] = "dash" /\ next_is(p, k, "dash"))
      BY <1>1, <2>1 DEF Clean, no_dashes_quoted, Single
    <2>6. k \in K <=> lex_char(p, Single, was, k) # "comment"
      BY <1>1, <2>3 DEF InCode
    <2>7. a.out = out /\ a.cut = (was = "comment")
      BY <2>1
    <2>. HIDE DEF K, lex
    <2>8. strip_char(p, a, k) = [out |-> take(p, K, out, k), cut |-> lex_char(p, Single, was, k) = "comment"]
      <3>1. CASE p[k] = "newline"
        <4>1. lex_char(p, Single, was, k) # "comment"
          BY <2>4, <3>1 DEF lex_char, Single
        <4>2. take(p, K, out, k) = Append(out, "newline")
          BY <2>6, <3>1, <4>1 DEF take
        <4>3. strip_char(p, a, k) = [out |-> Append(out, "newline"), cut |-> FALSE]
          BY <2>7, <3>1 DEF strip_char
        <4>. QED  BY <4>1, <4>2, <4>3
      <3>2. CASE p[k] # "newline" /\ (was = "comment" \/ (p[k] = "dash" /\ next_is(p, k, "dash")))
        <4>1. lex_char(p, Single, was, k) = "comment"
          BY <2>4, <2>5, <3>2 DEF lex_char, Single
        <4>2. take(p, K, out, k) = out
          BY <2>6, <4>1 DEF take
        <4>3. strip_char(p, a, k) = [out |-> out, cut |-> TRUE]
          BY <2>1, <2>7, <3>2 DEF strip_char
        <4>. QED  BY <4>1, <4>2, <4>3
      <3>3. CASE p[k] # "newline" /\ was # "comment" /\ ~(p[k] = "dash" /\ next_is(p, k, "dash"))
        <4>1. lex_char(p, Single, was, k) # "comment"
          BY <2>4, <3>3 DEF lex_char, Single
        <4>2. take(p, K, out, k) = Append(out, p[k])
          BY <2>6, <4>1 DEF take
        <4>3. strip_char(p, a, k) = [out |-> Append(out, p[k]), cut |-> FALSE]
          <5>1. a = [out |-> out, cut |-> FALSE]
            BY <2>1, <3>3
          <5>. QED  BY <3>3, <5>1 DEF strip_char
        <4>. QED  BY <4>1, <4>2, <4>3
      <3>. QED  BY <3>1, <3>2, <3>3
    <2>9. strip_after(p)[k] = [out |-> kept(p, K)[k], cut |-> lex[k] = "comment"]
      BY <2>2, <2>3, <2>8
    <2>. QED  BY <2>9
  <1>. HIDE DEF S
  <1>4. \A k \in 0..n : k \in S
    BY <1>1, <1>2, <1>3, Induction
  <1>5. strip_after(p)[n].out = kept(p, K)[n]
    <2>1. n \in 0..n
      BY <1>1
    <2>. HIDE DEF K, lex
    <2>2. strip_after(p)[n] = [out |-> kept(p, K)[n], cut |-> lex[n] = "comment"]
      <3>. HIDE DEF n
      <3>. QED  BY <1>4, <2>1 DEF S
    <2>. QED  BY <2>2
  <1>6. uncommented(p, Single) = kept(p, K)[n] \o last_newline(p)
    BY DEF uncommented, only, InCode
  <1>. QED  BY <1>5, <1>6 DEF strip_sql_comments

begins(w, v) == Len(w) <= Len(v) /\ \A i \in 1..Len(w) : v[i] = w[i]

\* What is kept grows by one kept character after the other.
LEMMA KeptGrows ==
    ASSUME NEW A, NEW p \in Seq(A), NEW ks, NEW k \in 1..Len(p)
    PROVE  /\ k \in ks => kept(p, ks)[k] = Append(kept(p, ks)[k - 1], p[k])
           /\ k \notin ks => kept(p, ks)[k] = kept(p, ks)[k - 1]
  <1>1. kept(p, ks)[k] = take(p, ks, kept(p, ks)[k - 1], k)
    BY KeptUnfolds
  <1>. QED  BY <1>1 DEF take

\* What is kept of a text has no other characters than the text.
LEMMA KeptTyped ==
    ASSUME NEW A, NEW p \in Seq(A), NEW ks
    PROVE  \A k \in 0..Len(p) : kept(p, ks)[k] \in Seq(A)
  <1>. DEFINE n == Len(p)
              S == {k \in 0..n : kept(p, ks)[k] \in Seq(A)}
  <1>1. 0 \in S
    <2>1. kept(p, ks)[0] = << >>
      BY KeptUnfolds
    <2>2. << >> \in Seq(A)
      OBVIOUS
    <2>3. kept(p, ks)[0] \in Seq(A)
      BY <2>1, <2>2, Zenon
    <2>. QED  BY <2>3
  <1>2. ASSUME NEW k \in 1..n, k - 1 \in S PROVE k \in S
    <2>1. PICK w \in Seq(A) : w = kept(p, ks)[k - 1]
      BY <1>2
    <2>2. p[k] \in A
      OBVIOUS
    <2>3. Append(w, p[k]) \in Seq(A)
      BY <2>2
    <2>4. kept(p, ks)[k] = Append(w, p[k]) \/ kept(p, ks)[k] = w
      BY <2>1, KeptGrows
    <2>5. kept(p, ks)[k] \in Seq(A)
      BY <2>1, <2>3, <2>4, Zenon
    <2>. QED  BY <2>5
  <1>. HIDE DEF S
  <1>3. \A k \in 0..n : k \in S
    <2>1. n \in Nat
      OBVIOUS
    <2>. HIDE DEF n
    <2>. QED  BY <1>1, <1>2, <2>1, Induction
  <1>. QED  BY <1>3 DEF S

\* What is kept of the first j characters begins what is kept of more.
LEMMA KeptBegins ==
    ASSUME NEW A, NEW p \in Seq(A), NEW ks, NEW j \in 0..Len(p)
    PROVE  \A k \in j..Len(p) : begins(kept(p, ks)[j], kept(p, ks)[k])
  <1>. DEFINE n == Len(p) - j
              S == {i \in 0..n : begins(kept(p, ks)[j], kept(p, ks)[j + i])}
  <1>1. PICK w \in Seq(A) : w = kept(p, ks)[j]
    BY KeptTyped
  <1>2. 0 \in S
    <2>1. begins(w, w)
      BY DEF begins
    <2>2. j + 0 = j /\ 0 \in 0..n
      OBVIOUS
    <2>. HIDE DEF n
    <2>. QED  BY <1>1, <2>1, <2>2
  <1>3. ASSUME NEW i \in 1..n, i - 1 \in S PROVE i \in S
    <2>1. PICK k \in 1..Len(p) : k = j + i /\ j + (i - 1) = k - 1
      OBVIOUS
    <2>2. PICK v \in Seq(A) : v = kept(p, ks)[k - 1]
      <3>1. k - 1 \in 0..Len(p)
        OBVIOUS
      <3>. QED  BY <3>1, KeptTyped
    <2>3. begins(w, v)
      BY <1>1, <1>3, <2>1, <2>2
    <2>4. PICK c \in A : c = p[k]
      OBVIOUS
    <2>5. begins(w, Append(v, c))
      <3>1. Len(Append(v, c)) = Len(v) + 1 /\ \A h \in 1..Len(v) : Append(v, c)[h] = v[h]
        OBVIOUS
      <3>2. Len(w) \in Nat /\ Len(v) \in Nat
        OBVIOUS
      <3>. QED  BY <2>3, <3>1, <3>2 DEF begins
    <2>6. kept(p, ks)[k] = Append(v, c) \/ kept(p, ks)[k] = v
      BY <2>2, <2>4, KeptGrows
    <2>7. begins(w, kept(p, ks)[k])
      BY <2>3, <2>5, <2>6, Zenon
    <2>. QED  BY <1>1, <2>1, <2>7
  <1>4. n \in Nat
    OBVIOUS
  <1>. HIDE DEF S
  <1>5. \A i \in 0..n : i \in S
    <2>. HIDE DEF n
    <2>. QED  BY <1>2, <1>3, <1>4, Induction
  <1>6. ASSUME NEW k \in j..Len(p) PROVE begins(kept(p, ks)[j], kept(p, ks)[k])
    <2>1. PICK i \in 0..n : j + i = k
      <3>1. k - j \in 0..n /\ j + (k - j) = k
        OBVIOUS
      <3>. QED  BY <3>1
    <2>. QED  BY <1>5, <2>1 DEF S
  <1>. QED  BY <1>6

\* Where the characters of p are in t, without those that are not in ks: t may
\* have a newline more.
Places(p, t, ks) ==
    /\ t \in Seq(Range(p) \cup {"newline"})
    /\ Len(kept(p, ks)[0]) = 0
    /\ \A k \in 0..Len(p) : Len(kept(p, ks)[k]) \in 0..Len(t)
    /\ \A k \in 1..Len(p) : k \in ks =>
          /\ Len(kept(p, ks)[k]) = Len(kept(p, ks)[k - 1]) + 1
          /\ t[Len(kept(p, ks)[k])] = p[k]
    /\ \A k \in 1..Len(p) : k \notin ks => Len(kept(p, ks)[k]) = Len(kept(p, ks)[k - 1])
    /\ \A i \in Len(kept(p, ks)[Len(p)])+1..Len(t) : t[i] = "newline"

\* Where the characters of a statement are once its comments are gone.
LEMMA Uncommented ==
    ASSUME NEW p, p \in Seq(Range(p)), NEW t, t = uncommented(p, Single), NEW ks, ks = InCode(p)
    PROVE  Places(p, t, ks)
  <1>. DEFINE n == Len(p)
              A == Range(p) \cup {"newline"}
              upto(k) == kept(p, ks)[k]
  <1>1. n \in Nat /\ p \in Seq(A) /\ DOMAIN p = 1..n
    <2>1. p \in [1..n -> A] /\ n \in Nat
      BY DEF Range
    <2>. QED  BY <2>1
  <1>. HIDE DEF A
  <1>2. \A k \in 0..n : upto(k) \in Seq(A)
    BY <1>1, KeptTyped
  <1>3. PICK u \in Seq(A) : u = upto(n)
    BY <1>1, <1>2
  <1>4. PICK last : last = last_newline(p)
    OBVIOUS
  <1>5. last \in Seq(A) /\ \A i \in 1..Len(last) : last[i] = "newline"
    <2>1. CASE last = << >>
      BY <2>1
    <2>2. CASE last = <<"newline">>
      <3>1. "newline" \in A
        BY DEF A
      <3>. QED  BY <2>2, <3>1
    <2>3. last = << >> \/ last = <<"newline">>
      BY <1>4, Zenon DEF last_newline
    <2>. QED  BY <2>1, <2>2, <2>3
  <1>6. t = u \o last
    BY <1>3, <1>4 DEF uncommented, only, InCode
  <1>7. /\ t \in Seq(A) /\ Len(t) = Len(u) + Len(last)
        /\ \A i \in 1..Len(u) + Len(last) : t[i] = IF i <= Len(u) THEN u[i] ELSE last[i - Len(u)]
    BY <1>5, <1>6, ConcatProperties
  <1>8. Len(u) \in Nat /\ Len(last) \in Nat
    BY <1>5
  <1>9. ASSUME NEW k \in 0..n
        PROVE  Len(upto(k)) \in 0..Len(u) /\ \A i \in 1..Len(upto(k)) : t[i] = upto(k)[i]
    <2>1. PICK w \in Seq(A) : w = upto(k)
      BY <1>2
    <2>2. begins(w, u)
      <3>1. n \in k..n
        BY <1>1
      <3>2. begins(kept(p, ks)[k], kept(p, ks)[n])
        BY <1>1, <3>1, KeptBegins
      <3>. QED  BY <1>3, <2>1, <3>2
    <2>3. Len(w) \in 0..Len(u)
      BY <1>8, <2>2 DEF begins
    <2>4. ASSUME NEW i \in 1..Len(w) PROVE t[i] = w[i]
      <3>1. i \in 1..Len(u) + Len(last) /\ i <= Len(u)
        BY <1>8, <2>3
      <3>2. t[i] = u[i]
        BY <1>7, <3>1
      <3>. QED  BY <2>2, <3>2 DEF begins
    <2>. QED  BY <2>1, <2>3, <2>4
  <1>10. Len(upto(0)) = 0
    <2>1. upto(0) = << >>
      BY <1>1, KeptUnfolds
    <2>. QED  BY <2>1
  <1>11. \A k \in 0..n : Len(upto(k)) \in 0..Len(t)
    <2>1. \A k \in 0..n : Len(upto(k)) \in 0..Len(u)
      BY <1>9
    <2>. QED  BY <1>7, <1>8, <2>1
  <1>12. ASSUME NEW k \in 1..n, k \in ks
         PROVE  Len(upto(k)) = Len(upto(k - 1)) + 1 /\ t[Len(upto(k))] = p[k]
    <2>1. k \in 0..n /\ k - 1 \in 0..n
      OBVIOUS
    <2>2. PICK v, w \in Seq(A) : v = upto(k - 1) /\ w = upto(k)
      BY <1>2, <2>1
    <2>3. PICK c \in A : c = p[k]
      BY <1>1
    <2>4. w = Append(v, c)
      BY <1>1, <1>12, <2>2, <2>3, KeptGrows
    <2>5. Len(w) = Len(v) + 1 /\ w[Len(v) + 1] = c /\ Len(v) \in Nat
      BY <2>4
    <2>6. \A i \in 1..Len(w) : t[i] = w[i]
      BY <1>9, <2>1, <2>2
    <2>7. Len(w) \in 1..Len(w)
      BY <2>5
    <2>. QED  BY <2>2, <2>3, <2>5, <2>6, <2>7
  <1>13. \A k \in 1..n : k \notin ks => upto(k) = upto(k - 1)
    BY <1>1, KeptGrows
  <1>14. ASSUME NEW i \in Len(u)+1..Len(t) PROVE t[i] = "newline"
    <2>1. i \in 1..Len(u) + Len(last) /\ ~(i <= Len(u)) /\ i - Len(u) \in 1..Len(last)
      BY <1>7, <1>8
    <2>. QED  BY <1>5, <1>7, <2>1
  <1>15. \A k \in 1..n : k \notin ks => Len(upto(k)) = Len(upto(k - 1))
    BY <1>13
  <1>. QED  BY <1>3, <1>7, <1>10, <1>11, <1>12, <1>14, <1>15 DEF A, Places

\* Without its comments a statement is lexed as it was, in code where a comment
\* was.  No two dashes meet: what follows a lone dash in code is never taken away.
LEMMA NoSemicolon ==
    ASSUME NEW p, Clean(p)
    PROVE  top_level(uncommented(p, Single), Single, {"semi"}) = {}
  <1>. DEFINE n == Len(p)
              lex == lexed(p, Single)
              Code(k) == IF lex[k] = "comment" THEN "code" ELSE lex[k]
  <1>1. PICK t, ks : t = uncommented(p, Single) /\ ks = InCode(p)
    OBVIOUS
  <1>. DEFINE l(k) == Len(kept(p, ks)[k])
              lext == lexed(t, Single)
              Quiet(m) == \A i \in 1..m : ~(t[i] = "semi" /\ lext[i - 1] = "code")
              S == {k \in 0..n : lext[l(k)] = Code(k) /\ Quiet(l(k))}
  <1>2. n \in Nat /\ DOMAIN p = 1..n /\ p \in Seq(Range(p))
    BY DEF Clean
  <1>3. /\ t \in Seq(Range(p) \cup {"newline"})
        /\ l(0) = 0
        /\ \A k \in 0..n : l(k) \in 0..Len(t)
        /\ \A k \in 1..n : k \in ks => l(k) = l(k - 1) + 1 /\ t[l(k)] = p[k]
        /\ \A k \in 1..n : k \notin ks => l(k) = l(k - 1)
        /\ \A i \in l(n)+1..Len(t) : t[i] = "newline"
    <2>1. Places(p, t, ks)
      BY <1>1, <1>2, Uncommented
    <2>. QED  BY <2>1, Zenon DEF Places
  <1>4. \A k \in 1..n : k \in ks <=> lex[k] # "comment"
    BY <1>1, <1>2 DEF InCode
  <1>. HIDE DEF l
  <1>5. Len(t) \in Nat /\ DOMAIN t = 1..Len(t) /\ t \in Seq(Range(t))
    BY <1>3, SeqOfItsRange
  <1>6. 0 \in S
    <2>1. lex[0] = "code"
      BY <1>2, LexUnfolds
    <2>2. lext[0] = "code"
      BY <1>5, LexUnfolds
    <2>3. lext[l(0)] = Code(0)
      BY <1>3, <2>1, <2>2
    <2>4. Quiet(l(0))
      BY <1>3
    <2>. HIDE DEF Quiet, Code, lext
    <2>. QED  BY <1>2, <2>3, <2>4
  <1>7. ASSUME NEW k \in 1..n, k - 1 \in S PROVE k \in S
    <2>1. PICK was : was = lex[k - 1] /\ was \in {"code", "comment", "quote"}
      <3>1. k - 1 \in 0..n
        OBVIOUS
      <3>. QED  BY <1>2, <3>1, LexerStates
    <2>2. lex[k] = lex_char(p, Single, was, k)
      BY <1>2, <2>1, LexUnfolds
    <2>3. PICK from : from = lext[l(k - 1)] /\ from = (IF was = "comment" THEN "code" ELSE was)
      BY <1>7, <2>1
    <2>4. Quiet(l(k - 1))
      BY <1>7
    <2>5. CASE k \notin ks
      <3>1. l(k) = l(k - 1) /\ lex[k] = "comment"
        BY <1>3, <1>4, <2>5
      <3>2. was # "quote"
        BY <2>2, <3>1 DEF lex_char, Single
      <3>3. lext[l(k)] = Code(k)
        BY <2>1, <2>3, <3>1, <3>2
      <3>4. Quiet(l(k))
        <4>. HIDE DEF Quiet
        <4>. QED  BY <2>4, <3>1
      <3>. HIDE DEF Quiet, Code, lext
      <3>. QED  BY <3>3, <3>4
    <2>6. CASE k \in ks
      <3>1. PICK h \in 1..Len(t) : /\ h = l(k) /\ h - 1 = l(k - 1) /\ t[h] = p[k]
        <4>1. k - 1 \in 0..n /\ k \in 0..n
          OBVIOUS
        <4>2. l(k) \in 0..Len(t) /\ l(k - 1) \in 0..Len(t) /\ l(k) = l(k - 1) + 1 /\ t[l(k)] = p[k]
          BY <1>3, <2>6, <4>1
        <4>. QED  BY <1>5, <4>2
      <3>2. lex[k] # "comment"
        BY <1>4, <2>6
      <3>3. lext[h] = lex_char(t, Single, from, h)
        BY <1>5, <2>3, <3>1, LexUnfolds
      <3>4. ~(p[k] = "dash" /\ was = "code" /\ next_is(t, h, "dash"))
        <4>. SUFFICES ASSUME p[k] = "dash", was = "code", next_is(t, h, "dash") PROVE FALSE
          OBVIOUS
        <4>1. lex[k] = "code" /\ ~next_is(p, k, "dash")
          BY <2>2, <3>2 DEF lex_char, Single
        <4>2. h + 1 \in 1..Len(t) /\ t[h + 1] = "dash"
          BY <1>5 DEF next_is
        <4>3. CASE k = n
          <5>1. h + 1 \in l(n)+1..Len(t)
            BY <3>1, <4>2, <4>3
          <5>2. t[h + 1] = "newline"
            BY <1>3, <5>1
          <5>. QED  BY <4>2, <5>2
        <4>4. CASE k # n
          <5>1. PICK j \in 1..n : j = k + 1 /\ j - 1 = k
            <6>1. n \in Nat
              BY <1>2
            <6>. HIDE DEF n
            <6>2. k + 1 \in 1..n /\ (k + 1) - 1 = k
              BY <4>4, <6>1
            <6>. QED  BY <6>2
          <5>2. p[j] # "dash"
            BY <1>2, <4>1, <5>1 DEF next_is
          <5>3. lex[j] = lex_char(p, Single, lex[j - 1], j)
            BY <1>2, LexUnfolds
          <5>4. lex[j] # "comment"
            BY <4>1, <5>1, <5>2, <5>3 DEF lex_char, Single
          <5>5. l(j) = h + 1 /\ t[l(j)] = p[j]
            BY <1>3, <1>4, <3>1, <5>1, <5>4
          <5>. QED  BY <4>2, <5>2, <5>5
        <4>. QED  BY <4>3, <4>4
      <3>5. lext[h] = Code(k)
        <4>1. CASE was = "comment"
          <5>1. p[k] = "newline" /\ lex[k] = "code"
            BY <2>2, <3>2, <4>1 DEF lex_char, Single
          <5>2. lex_char(t, Single, "code", h) = "code"
            BY <3>1, <5>1 DEF lex_char, Single
          <5>3. from = "code"
            BY <2>3, <4>1
          <5>. QED  BY <3>3, <5>1, <5>2, <5>3
        <4>2. CASE was = "quote"
          <5>1. lex_char(t, Single, "quote", h) = lex_char(p, Single, "quote", k)
            BY <3>1 DEF lex_char, Single
          <5>2. from = "quote"
            BY <2>3, <4>2
          <5>. QED  BY <2>2, <3>2, <3>3, <4>2, <5>1, <5>2
        <4>3. CASE was = "code"
          <5>1. ~(p[k] = "dash" /\ next_is(p, k, "dash"))
            BY <2>2, <3>2, <4>3 DEF lex_char, Single
          <5>2. lex_char(t, Single, "code", h) = lex_char(p, Single, "code", k)
            BY <3>1, <3>4, <4>3, <5>1 DEF lex_char, Single
          <5>3. from = "code"
            BY <2>3, <4>3
          <5>. QED  BY <2>2, <3>2, <3>3, <4>3, <5>2, <5>3
        <4>. QED  BY <2>1, <4>1, <4>2, <4>3
      <3>6. ~(t[h] = "semi" /\ lext[h - 1] = "code")
        <4>. SUFFICES ASSUME p[k] = "semi", from = "code" PROVE FALSE
          BY <2>3, <3>1
        <4>1. was # "code"
          BY <2>1 DEF Clean
        <4>2. was = "comment"
          BY <2>3, <4>1
        <4>. QED  BY <2>2, <3>2, <4>2 DEF lex_char
      <3>7. Quiet(h)
        <4>1. \A i \in 1..h : i \in 1..h-1 \/ i = h
          OBVIOUS
        <4>. HIDE DEF lext
        <4>2. \A i \in 1..h-1 : ~(t[i] = "semi" /\ lext[i - 1] = "code")
          BY <2>4, <3>1
        <4>. QED  BY <3>6, <4>1, <4>2
      <3>. HIDE DEF Quiet, Code, lext
      <3>. QED  BY <3>1, <3>5, <3>7
    <2>. QED  BY <2>5, <2>6
  <1>. HIDE DEF S
  <1>8. \A k \in 0..n : k \in S
    BY <1>2, <1>6, <1>7, Induction
  <1>9. Quiet(l(n))
    <2>1. n \in 0..n
      BY <1>2
    <2>. HIDE DEF Quiet
    <2>. QED  BY <1>8, <2>1 DEF S
  <1>10. ASSUME NEW i \in 1..Len(t) PROVE ~(t[i] = "semi" /\ lext[i - 1] = "code")
    <2>1. l(n) \in 0..Len(t)
      BY <1>2, <1>3
    <2>2. CASE i \in 1..l(n)
      BY <1>9, <2>2
    <2>3. CASE i \in l(n)+1..Len(t)
      BY <1>3, <2>3
    <2>. QED  BY <1>5, <2>1, <2>2, <2>3
  <1>11. top_level(t, Single, {"semi"}) = {}
    <2>1. top_level(t, Single, {"semi"}) \subseteq 1..Len(t)
      BY <1>5 DEF top_level
    <2>2. \A k \in 1..Len(t) : k \notin top_level(t, Single, {"semi"})
      BY <1>10 DEF top_level
    <2>. QED  BY <2>1, <2>2
  <1>. QED  BY <1>1, <1>11

\* If no literal has "--" in it, each statement the api is handed, stripped by the
\* client, has lost its comments and nothing else, and no semicolon in it would
\* end it early.
THEOREM StatementsAreOnePerCall == Spec => []OneStatementPerCall
  <1>1. Typed => OneStatementPerCall
    <2>. SUFFICES ASSUME Typed, no_dashes_quoted(text, Single), NEW p \in Range(split_ds_sql_statements(text))
                  PROVE  /\ strip_sql_comments(p) = uncommented(p, Single)
                         /\ top_level(strip_sql_comments(p), Single, {"semi"}) = {}
      BY DEF OneStatementPerCall
    <2>1. text \in Seq(Range(text))
      BY SeqOfItsRange DEF Typed
    <2>2. PICK b, e \in 1..Len(text) : Part(text, p, b, e)
      BY <2>1, StatementsAreParts
    <2>3. Clean(p)
      BY <2>1, <2>2, PartsAreClean
    <2>4. strip_sql_comments(p) = uncommented(p, Single)
      BY <2>3, StripsComments
    <2>5. top_level(uncommented(p, Single), Single, {"semi"}) = {}
      BY <2>3, NoSemicolon
    <2>. QED  BY <2>4, <2>5, Zenon
  <1>. QED  BY <1>1, TypedInvariant, PTL

=============================================================================
