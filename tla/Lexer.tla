------------------------------- MODULE Lexer -------------------------------
(***************************************************************************)
(* From what the user types to a command's flags and operands in mqtt-cli: *)
(* the shell's loop that asks for more lines while a quote is open         *)
(* (cli/shell.rs, count_quotes of cli/shell/lexer.rs), the lexer           *)
(* (try_into_args), and Shell::parse with cli/spec/flag.rs.                *)
(*                                                                         *)
(* Two pieces of code decide whether a quote is open: count_quotes before  *)
(* the line is sent to the execution thread, and try_into_args after it.   *)
(* What is assumed here is checked by TLC for all short inputs; a text is  *)
(* a sequence of characters.                                               *)
(***************************************************************************)
EXTENDS Naturals, Sequences, FiniteSets

CONSTANTS
    MaxText,    \* bound: the longest text that is looked at
    MaxTokens   \* bound: the most tokens after a command's name

Space == " "
NewLine == "nl"
Single == "'"
Double == "dq"
Backslash == "bs"
Wide == "wide"   \* a character of two bytes
Quotes == {Single, Double}
Blank == {Space, NewLine}
Ascii == {"a", "$", Space, NewLine, Single, Double, Backslash}
Char == Ascii \cup {Wide}

Texts(C, n) == UNION {[1..k -> C] : k \in 0..n}

-----------------------------------------------------------------------------
(* try_into_args.                                                          *)

\* A state of the lexer, the word it is in and the words before it.
Lexing(st, w, ws) == [state |-> st, word |-> w, words |-> ws]

\* The characters that a backslash escapes between double quotes; the others
\* keep the backslash.  The backquote, treated like "$", is left out of Char.
EscapedInDouble == {"$", Double, Backslash}

\* One turn of the loop: character c in state l.
LexStep(l, c) ==
    LET Go(st) == Lexing(st, l.word, l.words)
        Push(st, cs) == Lexing(st, l.word \o cs, l.words)
        inWord == l.state \in {"Unquoted", "UnquotedBackslash"}
    IN CASE l.state \in {"Delimiter", "Unquoted"} ->
              (CASE c = Single -> Go("SingleQuoted")
                 [] c = Double -> Go("DoubleQuoted")
                 [] c = Backslash -> Go(IF inWord THEN "UnquotedBackslash"
                                                  ELSE "Backslash")
                 [] c \in Blank ->
                      IF inWord THEN Lexing("Delimiter", <<>>, Append(l.words, l.word))
                                ELSE l
                 [] OTHER -> Push("Unquoted", <<c>>))
         [] l.state \in {"Backslash", "UnquotedBackslash"} ->
              IF c = NewLine THEN Go(IF inWord THEN "Unquoted" ELSE "Delimiter")
                             ELSE Push("Unquoted", <<c>>)
         [] l.state = "SingleQuoted" ->
              IF c = Single THEN Go("Unquoted") ELSE Push("SingleQuoted", <<c>>)
         [] l.state = "DoubleQuoted" ->
              (CASE c = Double -> Go("Unquoted")
                 [] c = Backslash -> Go("DoubleQuotedBackslash")
                 [] OTHER -> Push("DoubleQuoted", <<c>>))
         [] l.state = "DoubleQuotedBackslash" ->
              (CASE c = NewLine -> Go("DoubleQuoted")
                 [] c \in EscapedInDouble -> Push("DoubleQuoted", <<c>>)
                 [] OTHER -> Push("DoubleQuoted", <<Backslash, c>>))

\* The lexer at the end of the text.
Lexed(text) ==
    LET run[k \in 0..Len(text)] ==
            IF k = 0 THEN Lexing("Delimiter", <<>>, <<>>)
                     ELSE LexStep(run[k - 1], text[k])
    IN  run[Len(text)]

MissingQuote(text) ==
    Lexed(text).state \in {"SingleQuoted", "DoubleQuoted", "DoubleQuotedBackslash"}

\* Its result, when no closing quote is missing.
TryIntoArgs(text) ==
    LET l == Lexed(text) IN
    CASE l.state = "Delimiter" -> l.words
      [] l.state = "Unquoted" -> Append(l.words, l.word)
      [] l.state \in {"Backslash", "UnquotedBackslash"} ->
            Append(l.words, Append(l.word, Backslash))

-----------------------------------------------------------------------------
(* count_quotes and the shell's loop.                                      *)

\* Is a quote at place k of a line ignored as escaped?  Its byte offset is used
\* as the number of a character, so what is looked at is the character before
\* it only if no wide one comes earlier in the line.
SeenEscaped(line, k) ==
    LET before == k - 1 + Cardinality({j \in 1..k-1 : line[j] = Wide})
    IN  before \in 1..Len(line) /\ line[before] = Backslash

\* The open quotes after one more line; never more than one.
CountQuotes(line, stack) ==
    LET run[k \in 0..Len(line)] ==
            IF k = 0 THEN stack
            ELSE LET open == run[k - 1] c == line[k] IN
                 IF c \notin Quotes \/ SeenEscaped(line, k) THEN open
                 ELSE IF open = <<>> THEN <<c>>
                      ELSE IF open = <<c>> THEN <<>> ELSE open
    IN  run[Len(line)]

\* Shell::run asks for more lines while a quote is open.  A text is one line
\* or several, each but the last ending with a NewLine.
AsksForMore(text) ==
    LET \* the end of the line that begins at k
        End(k) == CHOOSE e \in k..Len(text) :
                     /\ \A j \in k..e-1 : text[j] # NewLine
                     /\ e = Len(text) \/ text[e] = NewLine
        run[k \in 1..Len(text) + 1] ==   \* from the line that begins at k
            [stack \in {<<>>} \cup {<<c>> : c \in Quotes} |->
               IF k > Len(text) THEN stack
               ELSE run[End(k) + 1][CountQuotes(SubSeq(text, k, End(k)), stack)]]
    IN  run[1][<<>>] # <<>>

\* str::trim, before the line is sent.
Trimmed(text) ==
    LET ink == {k \in 1..Len(text) : text[k] \notin Blank}
        first == CHOOSE k \in ink : \A j \in ink : k <= j
        last == CHOOSE k \in ink : \A j \in ink : j <= k
    IN  IF ink = {} THEN <<>> ELSE SubSeq(text, first, last)

-----------------------------------------------------------------------------
(* What is checked of the two.                                             *)

EscapesQuote(text) ==
    \E k \in 2..Len(text) : text[k] \in Quotes /\ text[k - 1] = Backslash

\* As long as no backslash stands right before a quote and all characters are
\* ASCII, the shell sends a text exactly when the lexer will find every quote of
\* it closed.
ASSUME QuotesAgree ==
    \A text \in Texts(Ascii \ {"$"}, MaxText) :
        ~EscapesQuote(text) => (AsksForMore(text) <=> MissingQuote(text))

\* A backslash right before a quote is where they part: the shell goes on
\* asking after 'a\' and after "a\\", which the lexer takes as complete, and
\* sends 'a\'' with a quote that the lexer misses.
ASSUME QuotesDisagree ==
    LET raw == <<Single, "a", Backslash, Single>>
        twice == <<Double, "a", Backslash, Backslash, Double>>
    IN  /\ AsksForMore(raw) /\ TryIntoArgs(raw) = << <<"a", Backslash>> >>
        /\ AsksForMore(twice) /\ TryIntoArgs(twice) = << <<"a", Backslash>> >>
        /\ ~AsksForMore(Append(raw, Single)) /\ MissingQuote(Append(raw, Single))

\* Wide characters shift what count_quotes looks at: after one, an escaped quote
\* opens a quotation, and after two, a backslash behind a quote hides it.
ASSUME WideCharactersShift ==
    LET one == <<Backslash, Double>>
        two == <<Double, Backslash, "a", Double>>
    IN  /\ ~AsksForMore(<<"a">> \o one) /\ AsksForMore(<<Wide>> \o one)
        /\ ~AsksForMore(<<"a", "a">> \o two) /\ AsksForMore(<<Wide, Wide>> \o two)
        /\ ~MissingQuote(<<Wide>> \o one) /\ ~MissingQuote(<<Wide, Wide>> \o two)

\* Trimming a text that is sent changes nothing of its words, unless what is
\* left ends in a backslash, which then stands for itself.
ASSUME TrimKeepsWords ==
    \A text \in Texts(Char \ {"$"}, MaxText) :
        LET t == Trimmed(text) IN
        /\ ~MissingQuote(text) /\ (t # <<>> => t[Len(t)] # Backslash)
        => ~MissingQuote(t) /\ TryIntoArgs(t) = TryIntoArgs(text)

\* Every word can be typed: between single quotes if it has none, and between
\* double quotes with backslashes before the characters that need one.
InSingle(w) == <<Single>> \o w \o <<Single>>
InDouble(w) ==
    LET run[k \in 0..Len(w)] ==
            IF k = 0 THEN <<Double>>
            ELSE run[k - 1] \o (IF w[k] \in EscapedInDouble THEN <<Backslash, w[k]>>
                                                            ELSE <<w[k]>>)
    IN  Append(run[Len(w)], Double)

ASSUME WordsCanBeTyped ==
    \A v \in Texts(Char \ Blank, 2), w \in Texts(Char, 3) :
        /\ Single \notin {w[k] : k \in 1..Len(w)} =>
              TryIntoArgs(InDouble(v) \o <<Space>> \o InSingle(w)) = <<v, w>>
        /\ TryIntoArgs(InDouble(w)) = <<w>>

-----------------------------------------------------------------------------
(* Shell::parse: the tokens after the command's name.                      *)

\* A token is some dashes and letters.
Token == [dashes : 0..2, text : {<<>>} \cup [1..1 -> {"q", "r"}]
                                      \cup [1..2 -> {"q", "r"}]]

\* The flags of a command: one with a required argument, one without (no
\* command has a flag with an optional one).
FlagSpec == {[name |-> <<"q", "r">>, short |-> "q", arg |-> "Required"],
             [name |-> <<"r", "q">>, short |-> "r", arg |-> "None"]}

IsLong(t) == t.dashes = 2 /\ Len(t.text) > 1
IsShort(t) == t.dashes = 2 \/ (t.dashes = 1 /\ t.text # <<>>)
IsFlag(t) == IsLong(t) \/ IsShort(t)

\* extract and query: the flags that a token names.  Of a short one only the
\* second character counts, which is a dash when two dashes are too short for
\* a long one.
Names(t) ==
    IF IsLong(t) THEN {f \in FlagSpec : f.name = t.text}
    ELSE {f \in FlagSpec : f.short = IF t.dashes = 2 THEN "-" ELSE t.text[1]}

\* The flag's value while none is given, and when it takes none.
Absent == "absent"
Given == "given"

\* One turn of parse's loop: p is what has been parsed, tokens[k] is next.
\* takes says that tokens[k] was the last flag's argument.
ParseStep(p, tokens, k) ==
    LET t == tokens[k]
        hasNext == k < Len(tokens) /\ ~IsFlag(tokens[k + 1])
    IN  IF p.error THEN p
        ELSE IF p.takes THEN [p EXCEPT !.takes = FALSE]
        ELSE IF ~IsFlag(t) THEN [p EXCEPT !.operands = Append(@, t)]
        ELSE IF Names(t) = {} THEN [p EXCEPT !.error = TRUE]
        ELSE LET f == CHOOSE f \in FlagSpec : f \in Names(t) IN
             CASE f.arg = "None" -> [p EXCEPT !.flags[f] = Given]
               [] f.arg = "Required" /\ ~hasNext -> [p EXCEPT !.error = TRUE]
               [] f.arg = "Required" /\ hasNext ->
                    [p EXCEPT !.flags[f] = tokens[k + 1], !.takes = TRUE]

Parse(tokens) ==
    LET run[k \in 0..Len(tokens)] ==
            IF k = 0 THEN [error |-> FALSE, takes |-> FALSE, operands |-> <<>>,
                           flags |-> [f \in FlagSpec |-> Absent]]
                     ELSE ParseStep(run[k - 1], tokens, k)
    IN  run[Len(tokens)]

\* "a later value should overwrite an earlier one": the argument of a flag is
\* the token after the last one that names it.
ASSUME LaterOverwrites ==
    \A tokens \in Texts(Token, MaxTokens) : \A f \in FlagSpec :
        LET p == Parse(tokens)
            at == {k \in 1..Len(tokens) : IsFlag(tokens[k]) /\ f \in Names(tokens[k])}
            last == CHOOSE k \in at : \A j \in at : j <= k
        IN  ~p.error /\ f.arg = "Required" =>
               p.flags[f] = IF at = {} THEN Absent ELSE tokens[last + 1]

\* A flag without an argument may stand anywhere in a command that parses:
\* without it, the command has the same operands and other flags.
ASSUME SwitchesAreIndependent ==
    \A tokens \in Texts(Token, MaxTokens) : \A k \in 1..Len(tokens) :
        LET p == Parse(tokens)
            q == Parse(SubSeq(tokens, 1, k - 1) \o SubSeq(tokens, k + 1, Len(tokens)))
        IN  ~p.error /\ IsFlag(tokens[k])
                /\ (\E f \in Names(tokens[k]) : f.arg = "None")
            => /\ ~q.error /\ q.operands = p.operands
               /\ \A f \in FlagSpec \ Names(tokens[k]) : q.flags[f] = p.flags[f]

\* A comment of extract lists -a[optarg] and -abc among the forms of short
\* flags.  The letters after the first are dropped: the argument of -qr is the
\* next token, which is then no operand, and the flag -r is not given.
ASSUME ShortFormsAreCut ==
    \A v \in {t \in Token : ~IsFlag(t)} :
        Parse(<<[dashes |-> 1, text |-> <<"q", "r">>], v>>) =
            Parse(<<[dashes |-> 1, text |-> <<"q">>], v>>)
=============================================================================
