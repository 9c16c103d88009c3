-------------------------------- MODULE Scanner --------------------------------
(***************************************************************************)
(* The scanner (crowbar.l), its start conditions, the buffer in which it   *)
(* collects a literal (string.c), and the compilations it works for        *)
(* (interface.c). The automaton that flex makes of the rules is external:  *)
(* rest is the text it has read and not matched. It outlives a compilation *)
(* that an exception ends, and the start condition one that is accepted.   *)
(*                                                                         *)
(* Characters are sorted by what the rules tell apart: n is any letter,    *)
(* also the n of \n and the t of \t; pr is %%r; semi is any row of tokens  *)
(* that no other kind begins, such as 1/0; lead is the first byte of a     *)
(* character of Shift-JIS; cr is a carriage return, which the rule for     *)
(* blanks counts as a line like a newline and . matches everywhere else.   *)
(* The source is written in lexemes, which only the reference definition   *)
(* knows.                                                                  *)
(***************************************************************************)
EXTENDS Integers, SequencesExt

CONSTANTS MaxItems,          \* bound: items of a literal
          StringAllocSize,   \* STRING_ALLOC_SIZE
          SourceEncoding     \* inter->source_encoding

ASSUME ScannerAssumption == MaxItems \in Nat /\ StringAllocSize \in Nat \ {0}

VARIABLES compiling,   \* what CRB_compile is doing: idle, scanning, parsing a token that yylex has
                       \* returned, accepted or raised; or the process has exited
          input_mode,  \* inter->input_mode
          source,      \* what my_yyinput has not delivered
          rest, start, delimiter,
          literal,     \* st_string_literal_buffer
          alloc,       \* st_string_literal_buffer_alloc_size
          line,        \* inter->current_line_number
          tokens,      \* the tokens the parser has got
          written,     \* history: the lexemes of the source
          clean        \* history: nothing was left of an earlier compilation

buffer == <<literal, alloc>>
input == <<input_mode, source>>
scannerVars == <<compiling, input, rest, start, delimiter, buffer, line, tokens, written, clean>>

CharacterKinds == {"n", "semi", "bang", "quote", "bs", "hash", "pr", "lead", "space", "cr", "nl"}

-----------------------------------------------------------------------------
(* Lexemes: what is written, and what is meant.                            *)

Token(type, text) == [type |-> type, text |-> text]
Lexeme(chars, means, whole) == [chars |-> chars, means |-> means, whole |-> whole]

SeqsUpTo(S, k) == UNION {[1 .. j -> S] : j \in 0 .. k}
Concat(seqs) == FlattenSeq(seqs)

StringItems ==
  {[chars |-> <<c>>, reads |-> <<c>>] : c \in {"n", "hash", "nl"}}
    \union {[chars |-> <<"bs", "quote">>, reads |-> <<"quote">>],
            [chars |-> <<"bs", "n">>, reads |-> <<"nl">>],
            [chars |-> <<"bs", "bs">>, reads |-> <<"bs">>],
            [chars |-> <<"bs", "semi">>, reads |-> <<"bs", "semi">>]}
    \union IF SourceEncoding = "SHIFT_JIS"
           THEN {[chars |-> <<"lead", c>>, reads |-> <<"lead", c>>] : c \in {"bs", "quote"}}
           ELSE {}

CharsOf(items) == Concat([k \in DOMAIN items |-> items[k].chars])
ReadsOf(items) == Concat([k \in DOMAIN items |-> items[k].reads])

Strings(k) ==
  {Lexeme(<<"quote">> \o CharsOf(s) \o <<"quote">>, <<Token("STRING", ReadsOf(s))>>, TRUE) :
     s \in SeqsUpTo(StringItems, k)}
\* In a regular expression nothing is escaped.
RegexpsBetween(d, k) ==
  {Lexeme(<<"pr", d>> \o s \o <<d>>, <<Token("REGEXP", s)>>, TRUE) :
     s \in SeqsUpTo({"n", "bs", "hash", "quote", "bang"} \ {d}, k)}
Comments(k) ==
  {Lexeme(<<"hash">> \o s \o <<"nl">>, <<>>, TRUE) : s \in SeqsUpTo({"quote", "pr", "hash"}, k)}
Simple ==
  {Lexeme(<<"semi">>, <<Token("semi", <<>>)>>, TRUE),
   Lexeme(<<"bang">>, <<Token("bang", <<>>)>>, TRUE),
   Lexeme(<<"n", "n", "space">>, <<Token("IDENTIFIER", <<"n", "n">>)>>, TRUE),
   Lexeme(<<"nl">>, <<>>, TRUE), Lexeme(<<"cr">>, <<>>, TRUE),
   Lexeme(<<"pr", "nl">>,
          <<Token("MOD", <<>>), Token("semi", <<>>), Token("IDENTIFIER", <<"n">>)>>, TRUE)}
\* The source ends in the middle of them, or an error does.
Unfinished ==
  {Lexeme(<<"quote", "n">>, <<>>, FALSE), Lexeme(<<"hash", "n">>, <<>>, FALSE),
   Lexeme(<<"pr", "bang", "n">>, <<>>, FALSE), Lexeme(<<"pr", "bang", "nl", "n">>, <<>>, FALSE),
   Lexeme(<<"bs", "quote">>, <<>>, FALSE), Lexeme(<<"quote", "lead", "nl">>, <<>>, FALSE)}

Lexemes(k) ==
  Strings(k) \union Comments(k) \union Simple \union Unfinished
    \union UNION {RegexpsBetween(d, k) : d \in {"bang", "quote"}}

\* Bound: two lexemes; a short one after something was left.
Sources ==
  IF start = "INITIAL" /\ rest = <<>>
  THEN {<<l>> : l \in Lexemes(MaxItems)}
         \union {<<l, m>> : l \in {l \in Lexemes(MaxItems) : l.whole}, m \in Lexemes(1)}
  ELSE {<<l>> : l \in Lexemes(0)}

SourceText(lexemes) == Concat([k \in DOMAIN lexemes |-> lexemes[k].chars])
MeaningOf(lexemes) == Concat([k \in DOMAIN lexemes |-> lexemes[k].means])
NewLines(text) == Cardinality({k \in DOMAIN text : text[k] = "nl"})
\* Outside literals and comments
Breaks == {"cr", "nl"}
LineBreaks(text) == Cardinality({k \in DOMAIN text : text[k] \in Breaks})

-----------------------------------------------------------------------------
(* Compilations and their input.                                           *)

ScannerInit ==
  /\ compiling = "idle" /\ input_mode = "file" /\ source = <<>>
  /\ rest = <<>> /\ start = "INITIAL" /\ delimiter = "bang"
  /\ literal = <<>> /\ alloc = 0 /\ line = 1 /\ tokens = <<>> /\ written = <<>> /\ clean = TRUE

\* CRB_compile and CRB_compile_string
BeginCompile ==
  /\ compiling = "idle" /\ compiling' = "scanning"
  /\ written' \in Sources
  /\ input_mode' \in {"file", "string"} /\ source' = SourceText(written')
  /\ line' = 1 /\ tokens' = <<>> /\ clean' = (start = "INITIAL" /\ rest = <<>>)
  /\ UNCHANGED <<rest, start, delimiter, buffer>>

\* What begins with these is not known before the next character is.
Run(text) ==
  CHOOSE k \in 0 .. Len(text) :
    (\A i \in 1 .. k : text[i] = "n") /\ (k = Len(text) \/ text[k + 1] # "n")
NeedsMore ==
  \/ rest = <<>>
  \/ Len(rest) = 1 /\ <<start, rest[1]>> \in {<<"INITIAL", "pr">>, <<"STRING", "bs">>}
  \/ start = "INITIAL" /\ Run(rest) = Len(rest)

\* A line ends with its newline.
LineEnd ==
  CHOOSE k \in 1 .. Len(source) :
    (k = Len(source) \/ source[k] = "nl") /\ \A i \in 1 .. k - 1 : source[i] # "nl"
\* A file comes in one chunk, a string a line at a time.
Chunk == IF input_mode = "file" THEN Len(source) ELSE LineEnd

YyInput ==
  /\ compiling = "scanning" /\ NeedsMore /\ source # <<>>
  /\ rest' = rest \o SubSeq(source, 1, Chunk)
  /\ source' = SubSeq(source, Chunk + 1, Len(source))
  /\ UNCHANGED <<compiling, input_mode, start, delimiter, buffer, line, tokens, written, clean>>

\* The end of both functions, whether or not setjmp has returned twice
Finishes(how) == compiling' = how /\ literal' = <<>> /\ alloc' = 0

CompileEnds ==
  /\ compiling \in {"accepted", "raised"} /\ compiling' = "idle"
  /\ source' = <<>> /\ written' = <<>> /\ tokens' = <<>> /\ line' = 1 /\ clean' = TRUE
  /\ UNCHANGED <<input_mode, rest, start, delimiter, buffer>>

-----------------------------------------------------------------------------
(* The string literal buffer.                                              *)

KeepsLetters == literal' = literal
\* crb_open_string_literal
OpenStringLiteral == literal' = <<>>

\* crb_add_string_literal
AddStringLiteral(c) ==
  /\ literal' = Append(literal, c)
  /\ alloc' = alloc + (IF Len(literal) = alloc THEN StringAllocSize ELSE 0)

-----------------------------------------------------------------------------
(* The rules.                                                              *)

Scans(condition) ==
  /\ compiling = "scanning" /\ start = condition
  /\ rest # <<>> /\ (NeedsMore => source = <<>>)
  /\ UNCHANGED <<input, written, clean>>

Consumes(k) == rest' = SubSeq(rest, k + 1, Len(rest))
Begins(condition) == start' = condition
Returns(token) == tokens' = Append(tokens, token) /\ compiling' = "parsing"

\* crb_compile_error
Exits == compiling' = "exited" /\ UNCHANGED <<start, delimiter, buffer, line, tokens>>

ScanIdentifier ==
  /\ Scans("INITIAL") /\ Run(rest) > 0
  /\ Consumes(Run(rest)) /\ Returns(Token("IDENTIFIER", SubSeq(rest, 1, Run(rest))))
  /\ UNCHANGED <<start, delimiter, buffer, line>>

ScanOperator ==
  /\ Scans("INITIAL") /\ rest[1] \in {"semi", "bang"}
  /\ Consumes(1) /\ Returns(Token(rest[1], <<>>))
  /\ UNCHANGED <<start, delimiter, buffer, line>>

Blank ==
  /\ Scans("INITIAL") /\ rest[1] \in {"space"} \union Breaks
  /\ Consumes(1) /\ line' = line + LineBreaks(<<rest[1]>>)
  /\ UNCHANGED <<compiling, start, delimiter, buffer, tokens>>

\* CHARACTER_INVALID_ERR
InvalidCharacter ==
  /\ Scans("INITIAL") /\ rest[1] \in {"bs", "lead"}
  /\ Consumes(1) /\ Exits

OpenString ==
  /\ Scans("INITIAL") /\ rest[1] = "quote"
  /\ Consumes(1) /\ OpenStringLiteral /\ Begins("STRING")
  /\ UNCHANGED <<compiling, delimiter, alloc, line, tokens>>

\* The character after %%r ends the expression; without one a token is %, and %r is left.
IsDelimited == Len(rest) > 1 /\ rest[2] # "nl"
OpenRegexp ==
  /\ Scans("INITIAL") /\ rest[1] = "pr" /\ IsDelimited
  /\ Consumes(2) /\ delimiter' = rest[2] /\ OpenStringLiteral /\ Begins("REGEXP")
  /\ UNCHANGED <<compiling, alloc, line, tokens>>
ModMod ==
  /\ Scans("INITIAL") /\ rest[1] = "pr" /\ ~IsDelimited
  /\ rest' = <<"semi", "n">> \o Tail(rest) /\ Returns(Token("MOD", <<>>))
  /\ UNCHANGED <<start, delimiter, buffer, line>>

OpenComment ==
  /\ Scans("INITIAL") /\ rest[1] = "hash"
  /\ Consumes(1) /\ Begins("COMMENT")
  /\ UNCHANGED <<compiling, delimiter, buffer, line, tokens>>
InComment ==
  /\ Scans("COMMENT")
  /\ Consumes(1) /\ line' = line + NewLines(<<rest[1]>>)
  /\ Begins(IF rest[1] = "nl" THEN "INITIAL" ELSE "COMMENT")
  /\ UNCHANGED <<compiling, delimiter, buffer, tokens>>

Escapes == [quote |-> "quote", n |-> "nl", bs |-> "bs"]
IsEscape == Len(rest) > 1 /\ rest[1] = "bs" /\ rest[2] \in DOMAIN Escapes
EscapeInString ==
  /\ Scans("STRING") /\ IsEscape
  /\ Consumes(2) /\ AddStringLiteral(Escapes[rest[2]])
  /\ UNCHANGED <<compiling, start, delimiter, line, tokens>>
CharacterInString ==
  /\ Scans("STRING") /\ ~IsEscape /\ rest[1] # "quote"
  /\ Consumes(1) /\ AddStringLiteral(rest[1]) /\ line' = line + NewLines(<<rest[1]>>)
  /\ Begins(IF rest[1] = "lead" /\ SourceEncoding = "SHIFT_JIS" THEN "SHIFT_JIS_2ND_CHAR"
            ELSE "STRING")
  /\ UNCHANGED <<compiling, delimiter, tokens>>
\* No rule matches a newline here: flex prints it.
SecondByte ==
  /\ Scans("SHIFT_JIS_2ND_CHAR")
  /\ Consumes(1)
  /\ IF rest[1] = "nl" THEN UNCHANGED <<start, buffer>>
     ELSE AddStringLiteral(rest[1]) /\ Begins("STRING")
  /\ UNCHANGED <<compiling, delimiter, line, tokens>>

\* crb_close_string_literal, and in a regular expression crb_create_regexp_in_compile, which may
\* find what they cannot convert
ClosesLiteral(type) ==
  \/ Exits
  \/ /\ AddStringLiteral("nul") /\ Returns(Token(type, literal)) /\ Begins("INITIAL")
     /\ UNCHANGED <<delimiter, line>>

CloseString ==
  /\ Scans("STRING") /\ rest[1] = "quote"
  /\ Consumes(1) /\ ClosesLiteral("STRING")

\* CR_IN_REGEXP_ERR
NewlineInRegexp ==
  /\ Scans("REGEXP") /\ rest[1] = "nl"
  /\ Consumes(1) /\ Exits
CharacterInRegexp ==
  /\ Scans("REGEXP") /\ rest[1] \notin {"nl", delimiter}
  /\ Consumes(1) /\ AddStringLiteral(rest[1])
  /\ UNCHANGED <<compiling, start, delimiter, line, tokens>>
CloseRegexp ==
  /\ Scans("REGEXP") /\ rest[1] = delimiter
  /\ Consumes(1) /\ ClosesLiteral("REGEXP")

-----------------------------------------------------------------------------
(* The parser, reduced to how it goes on with a token.                     *)

AtEnd == compiling = "scanning" /\ rest = <<>> /\ source = <<>>
Parses ==
  /\ compiling = "parsing" \/ AtEnd
  /\ UNCHANGED <<input, rest, start, delimiter, line, tokens, written, clean>>

Shift == Parses /\ ~AtEnd /\ compiling' = "scanning" /\ UNCHANGED buffer

\* yyerror
ParseError == Parses /\ compiling' = "exited" /\ UNCHANGED buffer

\* A token may complete an expression whose folding raises (Operators), which longjmp takes to
\* do_compile: what flex has read beyond the token stays there.
FoldingRaises ==
  Parses /\ (\E k \in DOMAIN tokens : tokens[k].type = "semi") /\ Finishes("raised")

\* The input may end in any condition.
Accept == Parses /\ AtEnd /\ Finishes("accepted")

Exited == compiling = "exited" /\ UNCHANGED scannerVars

ScannerNext ==
  \/ BeginCompile \/ YyInput \/ CompileEnds \/ Exited
  \/ Shift \/ Accept \/ ParseError \/ FoldingRaises
  \/ ScanIdentifier \/ ScanOperator \/ Blank \/ InvalidCharacter
  \/ OpenComment \/ InComment
  \/ OpenString \/ EscapeInString \/ CharacterInString \/ SecondByte \/ CloseString
  \/ OpenRegexp \/ ModMod \/ NewlineInRegexp \/ CharacterInRegexp \/ CloseRegexp

ScannerSpec == ScannerInit /\ [][ScannerNext]_scannerVars

-----------------------------------------------------------------------------
(* Properties.                                                             *)

\* The buffer has room for what is in it.
LiteralFits == Len(literal) <= alloc

ScannerTypeOK ==
  /\ compiling \in {"idle", "scanning", "parsing", "accepted", "raised", "exited"}
  /\ start \in {"INITIAL", "COMMENT", "STRING", "SHIFT_JIS_2ND_CHAR", "REGEXP"}
  /\ delimiter \in CharacterKinds
  /\ rest \in Seq(CharacterKinds) /\ literal \in Seq(CharacterKinds \union {"nul"})
  /\ LiteralFits /\ line \in Nat \ {0}

\* A compilation that begins where nothing is left of an earlier one hands the parser the tokens
\* that are written (crowbar.l:103-244): what is between quotes or delimiters arrives letter by
\* letter, escapes read, and what looks like the start of something else inside a literal or a
\* comment is not. When it is accepted, all of them have arrived, each newline is counted and so is
\* each carriage return (Sources has them outside literals and comments only; \r\n counts twice),
\* and the scanner is in the middle of something only if the source ends there.
TokensAreWritten ==
  clean /\ compiling # "idle" =>
    /\ IsPrefix(tokens, MeaningOf(written))
    /\ compiling = "accepted" =>
         LET cut == \E k \in DOMAIN written : ~written[k].whole
         IN /\ tokens = MeaningOf(written) /\ rest = <<>>
            /\ ~cut => start = "INITIAL" /\ line = 1 + LineBreaks(SourceText(written))
            /\ cut => start # "INITIAL"

=============================================================================
