------------------------------- MODULE SqlText -------------------------------
(***************************************************************************)
(* The text functions between a template and the calls it becomes:         *)
(* splitting a script into statements (handlers.rs for the api,            *)
(* dispatcher.rs for ClickHouse), stripping comments (api_client.rs),      *)
(* and cutting a Redis line into arguments (dispatcher.rs).                *)
(*                                                                         *)
(* A text is a sequence of characters, one for each that some function     *)
(* treats in its own way: "wide" stands for those outside ASCII, "other"   *)
(* for all the rest.  Every text up to MaxLen is typed character by        *)
(* character and each function's result is compared with what the text     *)
(* means to its reader.                                                    *)
(***************************************************************************)
EXTENDS Integers, Sequences, FiniteSets, FiniteSetsExt, Functions

CONSTANT MaxLen     \* bound: characters of a text

ASSUME TextAssumption == MaxLen \in Nat

VARIABLES
    kind,       \* what the text is: sql, a redis line
    text

vars == <<kind, text>>

Alphabet ==
    [sql   |-> {"quote", "dquote", "dash", "semi", "newline", "wide", "other"},
     redis |-> {"quote", "dquote", "space", "hash", "other"}]

Init == kind \in DOMAIN Alphabet /\ text = << >>
Type(c) == Len(text) < MaxLen /\ text' = Append(text, c) /\ UNCHANGED kind
Next == \E c \in Alphabet[kind] : Type(c)
Spec == Init /\ [][Next]_vars

-----------------------------------------------------------------------------
(* The functions: each is a loop, and after[k] its state when the first k   *)
(* characters have been read.                                               *)

whitespace == {"space", "newline"}
next_is(s, k, c) == k + 1 \in DOMAIN s /\ s[k + 1] = c

\* str::trim
trim(s) ==
    LET solid == {k \in DOMAIN s : s[k] \notin whitespace}
    IN  IF solid = {} THEN << >> ELSE SubSeq(s, Min(solid), Max(solid))

\* A finished piece is kept unless it is blank.
flush(out, cur) == IF trim(cur) = << >> THEN out ELSE Append(out, trim(cur))

\* One turn of the loop of split_ds_sql_statements; skip: the character was
\* taken together with the one before it.
ds_char(s, a, k) ==
    LET c == s[k] b == [a EXCEPT !.cur = Append(@, c)]
    IN  CASE a.skip -> [b EXCEPT !.skip = FALSE]
          [] ~a.skip /\ a.comment -> [b EXCEPT !.comment = c # "newline"]
          [] ~a.skip /\ ~a.comment /\ ~a.string /\ c = "dash" /\ next_is(s, k, "dash") ->
               [b EXCEPT !.skip = TRUE, !.comment = TRUE]
          [] ~a.skip /\ ~a.comment /\ c = "quote" ->
               IF a.string /\ next_is(s, k, "quote") THEN [b EXCEPT !.skip = TRUE]
               ELSE [b EXCEPT !.string = ~@]
          [] ~a.skip /\ ~a.comment /\ ~a.string /\ c = "semi" ->
               [a EXCEPT !.out = flush(@, a.cur), !.cur = << >>]
          [] OTHER -> b

ds_start == [out |-> << >>, cur |-> << >>, string |-> FALSE, comment |-> FALSE, skip |-> FALSE]
ds_after(s) ==
    LET after[k \in 0 .. Len(s)] ==
            IF k = 0 THEN ds_start ELSE ds_char(s, after[k - 1], k)
    IN  after

split_ds_sql_statements(s) ==
    LET end == ds_after(s)[Len(s)] IN flush(end.out, end.cur)

\* Mutant: a comment hides nothing.
ch_char_no_comments(s, a, k) ==
    LET c == s[k] b == [a EXCEPT !.cur = Append(@, c)]
    IN  CASE c = "quote" /\ ~a.double -> [b EXCEPT !.single = ~@]
          [] c = "dquote" /\ ~a.single -> [b EXCEPT !.double = ~@]
          [] c = "semi" /\ ~a.single /\ ~a.double -> [a EXCEPT !.out = flush(@, a.cur), !.cur = << >>]
          [] OTHER -> b

\* One turn of the loop of split_clickhouse_statements; its inner loop over a
\* comment stops in front of the newline.
ch_char(s, a, k) ==
    LET c == s[k] b == [a EXCEPT !.cur = Append(@, c)]
    IN  CASE a.comment -> [b EXCEPT !.comment = c # "newline"]
          [] ~a.comment /\ ~a.single /\ ~a.double /\ c = "dash" /\ next_is(s, k, "dash") ->
               [b EXCEPT !.comment = TRUE]
          [] ~a.comment /\ c = "quote" /\ ~a.double -> [b EXCEPT !.single = ~@]
          [] ~a.comment /\ c = "dquote" /\ ~a.single -> [b EXCEPT !.double = ~@]
          [] ~a.comment /\ c = "semi" /\ ~a.single /\ ~a.double ->
               [a EXCEPT !.out = flush(@, a.cur), !.cur = << >>]
          [] OTHER -> b

ch_start == [out |-> << >>, cur |-> << >>, single |-> FALSE, double |-> FALSE, comment |-> FALSE]
ch_after(s) ==
    LET after[k \in 0 .. Len(s)] ==
            IF k = 0 THEN ch_start ELSE ch_char(s, after[k - 1], k)
    IN  after

\* bytes[i] as char: each byte of a character outside ASCII becomes a character
\* of its own; "latin" stands for what they look like together.  (That some of
\* those bytes look like blanks to trim() is left out.)
as_chars(s) == [k \in DOMAIN s |-> IF s[k] = "wide" THEN "latin" ELSE s[k]]

split_clickhouse_statements(s) ==
    LET end == ch_after(as_chars(s))[Len(s)] IN flush(end.out, end.cur)

\* Mutant: what follows a comment on the next line is lost with it.
strip_char_greedy(s, a, k) ==
    IF a.cut \/ (s[k] = "dash" /\ next_is(s, k, "dash")) THEN [a EXCEPT !.cut = TRUE]
    ELSE [a EXCEPT !.out = Append(@, s[k])]

\* Each line up to its first "--".
strip_char(s, a, k) ==
    IF s[k] = "newline" THEN [out |-> Append(a.out, "newline"), cut |-> FALSE]
    ELSE IF a.cut \/ (s[k] = "dash" /\ next_is(s, k, "dash")) THEN [a EXCEPT !.cut = TRUE]
    ELSE [a EXCEPT !.out = Append(@, s[k])]

strip_start == [out |-> << >>, cut |-> FALSE]
strip_after(s) ==
    LET after[k \in 0 .. Len(s)] ==
            IF k = 0 THEN strip_start ELSE strip_char(s, after[k - 1], k)
    IN  after

\* Every line gets a newline, the last one too.
last_newline(s) == IF s = << >> \/ s[Len(s)] = "newline" THEN << >> ELSE <<"newline">>
strip_sql_comments(s) == strip_after(s)[Len(s)].out \o last_newline(s)

\* raw.split('#').next(), trimmed
before_hash(s) ==
    LET hashes == {k \in DOMAIN s : s[k] = "hash"}
    IN  trim(IF hashes = {} THEN s ELSE SubSeq(s, 1, Min(hashes) - 1))

\* Mutant: a quote of one kind closes one of the other.
token_char_any_quote(s, a, k) ==
    LET c == s[k]
    IN  CASE c \in {"quote", "dquote"} -> [a EXCEPT !.single = ~@, !.double = ~@]
          [] c \in whitespace /\ ~a.single ->
               IF a.buf = << >> THEN a ELSE [a EXCEPT !.out = Append(@, a.buf), !.buf = << >>]
          [] OTHER -> [a EXCEPT !.buf = Append(@, c)]

token_char(s, a, k) ==
    LET c == s[k]
    IN  CASE c = "quote" /\ ~a.double  -> [a EXCEPT !.single = ~@]
          [] c = "dquote" /\ ~a.single -> [a EXCEPT !.double = ~@]
          [] c \in whitespace /\ ~a.single /\ ~a.double ->
               IF a.buf = << >> THEN a ELSE [a EXCEPT !.out = Append(@, a.buf), !.buf = << >>]
          [] OTHER -> [a EXCEPT !.buf = Append(@, c)]

tokens_start == [out |-> << >>, buf |-> << >>, single |-> FALSE, double |-> FALSE]
tokens_after(s) ==
    LET after[k \in 0 .. Len(s)] ==
            IF k = 0 THEN tokens_start ELSE token_char(s, after[k - 1], k)
    IN  after

tokenize_redis_line(s) ==
    LET end == tokens_after(s)[Len(s)]
    IN  IF end.buf = << >> THEN end.out ELSE Append(end.out, end.buf)

-----------------------------------------------------------------------------
(* What the texts mean                                                      *)

\* The characters of s at the positions in ks: of the first k, and of all.
take(s, ks, was, k) == IF k \in ks THEN Append(was, s[k]) ELSE was
kept(s, ks) ==
    LET upto[k \in 0 .. Len(s)] ==
            IF k = 0 THEN << >> ELSE take(s, ks, upto[k - 1], k)
    IN  upto
only(s, ks) == kept(s, ks)[Len(s)]

\* The positions between position k and the last cut before it.
since(cuts, k) == {j \in 1 .. k - 1 : cuts \cap (j .. k - 1) = {}}

\* The sequences piece[k] for k in ends, without the empty ones.
gather(piece, ends, was, k) ==
    IF k \in ends /\ piece[k] # << >> THEN Append(was, piece[k]) ELSE was
gathered(piece, ends) ==
    LET upto[k \in 0 .. Len(piece)] ==
            IF k = 0 THEN << >> ELSE gather(piece, ends, upto[k - 1], k)
    IN  upto
pieces(piece, cuts) == gathered(piece, cuts \cup {Len(piece)})[Len(piece)]

\* A SQL lexer: what the first k characters leave the reader in.  quotes: the
\* characters that open a literal; a literal ends at the next such character, so
\* a doubled one closes it and opens it again.
lex_char(s, quotes, was, k) ==
    LET c == s[k]
    IN  CASE was = "comment" -> IF c = "newline" THEN "code" ELSE "comment"
          [] was \in quotes  -> IF c = was THEN "code" ELSE was
          [] was = "code" /\ c \in quotes -> c
          [] was = "code" /\ c = "dash" /\ next_is(s, k, "dash") -> "comment"
          [] OTHER -> "code"

lexed(s, quotes) ==
    LET after[k \in 0 .. Len(s)] ==
            IF k = 0 THEN "code" ELSE lex_char(s, quotes, after[k - 1], k)
    IN  after

\* Characters outside literals and comments.
top_level(s, quotes, chars) ==
    LET lex == lexed(s, quotes)
    IN  {k \in DOMAIN s : s[k] \in chars /\ lex[k - 1] = "code" /\ lex[k] # "comment"}

\* The statements of a script: what stands between top-level semicolons.
statements(s, quotes) ==
    LET cuts == top_level(s, quotes, {"semi"})
    IN  pieces([k \in 1 .. Len(s) + 1 |-> trim(only(s, since(cuts, k)))], cuts)

\* No "--" inside a literal.
no_dashes_quoted(s, quotes) ==
    LET lex == lexed(s, quotes)
    IN  \A k \in DOMAIN s : lex[k - 1] \in quotes => ~(s[k] = "dash" /\ next_is(s, k, "dash"))

\* The text without its comments.
uncommented(s, quotes) ==
    LET lex == lexed(s, quotes)
    IN  only(s, {k \in DOMAIN s : lex[k] # "comment"}) \o last_newline(s)

\* The arguments of a line: what stands between top-level spaces, without the
\* quotes that open and close its literals.
runs(s, quotes) ==
    LET lex   == lexed(s, quotes)
        marks == {k \in DOMAIN s : lex[k] # lex[k - 1]}
        cuts  == top_level(s, quotes, whitespace)
    IN  pieces([k \in 1 .. Len(s) + 1 |-> only(s, since(cuts, k) \ marks)], cuts)

-----------------------------------------------------------------------------
(* Properties                                                               *)

Single == {"quote"}
Both == {"quote", "dquote"}

\* A script is cut at its top-level semicolons and nowhere else, and nothing of
\* it is lost: string literals, doubled quotes and comments are respected by both
\* splitters, the one for the api and the one for ClickHouse, where double
\* quotes open literals too.  The latter spells every character outside ASCII
\* as its bytes.
SplitsAtTopLevel ==
    kind = "sql" => /\ split_ds_sql_statements(text) = statements(text, Single)
                    /\ split_clickhouse_statements(text) = statements(as_chars(text), Both)

\* The api takes one statement per call.  If no literal has "--" in it, what the
\* splitter hands over and the client then strips has no top-level semicolon
\* left and has lost its comments and nothing else.  (With one the literal is cut
\* in two, against "leave string-literal `--` alone".)
OneStatementPerCall ==
    kind = "sql" /\ no_dashes_quoted(text, Single) =>
        \A p \in Range(split_ds_sql_statements(text)) :
            /\ strip_sql_comments(p) = uncommented(p, Single)
            /\ top_level(strip_sql_comments(p), Single, {"semi"}) = {}

\* What stands before the first "#" of a Redis line becomes the runs of characters
\* between top-level spaces, quotes taken away ("keeps the spaced value
\* intact"); empty runs, quoted ones too, are dropped.
RedisTokensAreRuns ==
    kind = "redis" =>
        LET line == before_hash(text) IN tokenize_redis_line(line) = runs(line, Both)

=============================================================================
