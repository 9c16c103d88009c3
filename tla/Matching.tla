------------------------------- MODULE Matching -------------------------------
(***************************************************************************)
(* The loops around the regular expression library (regexp.c): reg_match,  *)
(* reg_replace, reg_replace_all and reg_split.                             *)
(*                                                                         *)
(* The library is external: an expression is what its search finds, the    *)
(* length of the match that begins at each position of the subject (-1 for *)
(* none), and what its one group takes part in. The letters of the subject *)
(* are their positions, and positions are counted in letters, not in bytes *)
(* of UTF-16. The three buffers of a call, subject, region and vs (the     *)
(* growing result), are live until the call frees them or hands vs on.     *)
(*                                                                         *)
(* A replacement is written in tokens, which only the reference definition *)
(* knows; the code reads their characters.                                 *)
(***************************************************************************)
EXTENDS Integers, SequencesExt

CONSTANTS MaxSubject,     \* bound: letters of a subject
          MaxTokens,      \* bound: tokens of a replacement
          MatchLimit,     \* INT_MAX, the limit of replace_all
          MaxColumn       \* REGEXP_GROUP_INDEX_MAX_COLUMN

ASSUME MatchingAssumption ==
  /\ MaxSubject \in Nat /\ MaxTokens \in Nat /\ MaxColumn \in Nat \ {0, 1}
  /\ MatchLimit \in Nat /\ MatchLimit > MaxSubject + 1

VARIABLES phase,    \* where the call stands: idle, replace, split, done or crashed
          call,     \* the call and its arguments
          at,       \* at_p: where the next search begins
          count,    \* matched_count
          out,      \* vs.string, empty for NULL
          pieces,   \* the array that split fills
          live,     \* buffers that are allocated
          outcome   \* what the call has returned or raised

matchingVars == <<phase, call, at, count, out, pieces, live, outcome>>

-----------------------------------------------------------------------------
(* Expressions, replacements and calls.                                    *)

\* Characters are numbers: positions of the subject, a letter, the backslash and digits.
Letter == -1
Backslash == -2
Digit(d) == 10 + d
IsDigit(c) == c \in {Digit(0), Digit(1)}

Tokens == {"letter", "escaped", "lone", "group", "zero", "wide"}
Characters(token) ==
  CASE token = "letter" -> <<Letter>>
    [] token = "escaped" -> <<Backslash, Backslash>>
    [] token = "lone" -> <<Backslash, Letter>>
    [] token = "group" -> <<Backslash, Digit(1)>>
    [] token = "zero" -> <<Backslash, Digit(0)>>
    [] token = "wide" ->
         <<Backslash>> \o [i \in 1 .. MaxColumn |-> Digit(IF i = MaxColumn THEN 1 ELSE 0)]

Text(tokens) == FlattenSeq([k \in DOMAIN tokens |-> Characters(tokens[k])])

Regexps(n) ==
  [length : {f \in [0 .. n -> -1 .. n] : \A p \in 0 .. n : f[p] <= n - p},
   group : {"none", "unset", "whole"}]

Replacements == UNION {[1 .. k -> Tokens] : k \in 0 .. MaxTokens}

\* region: whether reg_match is given an object for its groups
Calls ==
  UNION {[kind : {"match"}, n : {n}, regexp : Regexps(n), region : BOOLEAN]
           \union [kind : {"replace"}, n : {n}, regexp : Regexps(n),
                   tokens : Replacements, limit : {1, MatchLimit}]
           \union [kind : {"split"}, n : {n}, regexp : Regexps(n)] : n \in 0 .. MaxSubject}
NoCall == [kind |-> "none"]

Letters(from, end) == [i \in 1 .. end - from |-> from + i - 1]

\* onig_search: the least position from p on where a match begins
Matches(p) == {q \in p .. call.n : call.regexp.length[q] >= 0}
Place(p) == CHOOSE q \in Matches(p) : \A r \in Matches(p) : q <= r

NumRegs == IF call.regexp.group = "none" THEN 1 ELSE 2
Unset == [beg |-> -1, end |-> -1]
Group(q, g) ==
  IF g = 1 /\ call.regexp.group = "unset" THEN Unset
  ELSE [beg |-> q, end |-> q + call.regexp.length[q]]

-----------------------------------------------------------------------------
(* What replace_matched_place writes for a match at q.                     *)

\* It may end with one of these instead of a letter.
NoSuchGroup == -3
Overrun == -4
Broken(text) == text # <<>> /\ Last(text) \in {NoSuchGroup, Overrun}

\* The digits that are read from position i on: when MaxColumn of them have been read, the loop
\* ends without the step back that follows the last digit otherwise.
Digits(text, i) ==
  CHOOSE k \in 0 .. MaxColumn :
    /\ \A j \in i .. i + k - 1 : j < Len(text) /\ IsDigit(text[j + 1])
    /\ k = MaxColumn \/ i + k >= Len(text) \/ ~IsDigit(text[i + k + 1])
AfterDigits(i, k) == i + k + (IF k = MaxColumn THEN 1 ELSE 0)
Number(text, i, k) ==
  LET Value[j \in 0 .. k] == IF j = 0 THEN 0 ELSE 10 * Value[j - 1] + text[i + j] - Digit(0)
  IN Value[k]

ReplaceMatchedPlace(q) ==
  LET text == Text(call.tokens)
      Written[i \in 0 .. Len(text) + 1] ==
        IF i > Len(text) THEN <<Overrun>>
        ELSE IF i = Len(text) THEN <<>>
        ELSE IF text[i + 1] # Backslash THEN <<text[i + 1]>> \o Written[i + 1]
        ELSE IF i + 1 < Len(text) /\ text[i + 2] = Backslash THEN <<Backslash>> \o Written[i + 2]
        ELSE LET k == Digits(text, i + 1)
                 g == Number(text, i + 1, k)
             IN IF k = 0 THEN <<Backslash>> \o Written[i + 1]
                ELSE IF g <= 0 \/ g >= NumRegs THEN <<NoSuchGroup>>
                ELSE Letters(Group(q, g).beg, Group(q, g).end) \o Written[AfterDigits(i + 1, k)]
  IN Written[0]

-----------------------------------------------------------------------------
(* The calls.                                                              *)

MatchingInit ==
  /\ phase = "idle" /\ call = NoCall /\ at = 0 /\ count = 0 /\ out = <<>> /\ pieces = <<>>
  /\ live = {} /\ outcome = "none"

FreesAllButRegion(buffers) == live' = live \ (buffers \ {"region"})
Frees(buffers) == live' = live \ buffers

Ends(result) == phase' = "done" /\ outcome' = result

\* NULL is dereferenced, or a string read past its end: C promises nothing, and the model stops.
Crash == phase' = "crashed" /\ UNCHANGED <<live, outcome>>

\* encode_utf16_be and onig_region_new; reg_match takes a region only for an object of groups.
Begin ==
  /\ phase = "idle"
  /\ call' \in Calls
  /\ phase' = call'.kind
  /\ live' = {"subject"} \union (IF call'.kind = "match" /\ ~call'.region THEN {} ELSE {"region"})
  /\ UNCHANGED <<at, count, out, pieces, outcome>>

\* The search of match_sub fails. The caller is left by longjmp, with what it had in vs.
SearchFails ==
  /\ phase \in {"match", "replace", "split"}
  /\ Frees({"subject", "region"}) /\ Ends("ONIG_SEARCH_FAIL")
  /\ UNCHANGED <<call, at, count, out, pieces>>

\* match_crb_if searches once and copies each group into the given object: the substr of a group
\* that begins at the end of the subject raises. What takes no part begins at -1 / 2 = 0.
Groups == IF Matches(0) = {} THEN {Unset} ELSE {Group(Place(0), g) : g \in 0 .. NumRegs - 1}
BeginsInside(group) == (IF group.beg < 0 THEN 0 ELSE group.beg) < call.n
Match ==
  /\ phase = "match"
  /\ IF call.region /\ \E group \in Groups : ~BeginsInside(group)
     THEN Frees({"subject"}) /\ Ends("STRING_POS_OUT_OF_BOUNDS")
     ELSE Frees({"subject", "region"})
          /\ Ends(IF Matches(0) = {} THEN "mismatch" ELSE "matched")
  /\ UNCHANGED <<call, at, count, out, pieces>>

NextLetter(q) == q + 1
PastEnd(q) == q + call.regexp.length[q] + 1
\* next_at
End(q) == q + call.regexp.length[q]

\* One turn of the loop of replace_crb_if
ReplaceOne ==
  /\ phase = "replace" /\ count < call.limit /\ Matches(at) # {}
  /\ LET q == Place(at)
         text == ReplaceMatchedPlace(q)
     IN /\ out' = out \o Letters(at, q) \o text
        /\ IF ~Broken(text)
           THEN /\ count' = count + 1 /\ at' = End(q)
                /\ live' = live \union (IF out' = <<>> THEN {} ELSE {"vs"})
                /\ UNCHANGED <<phase, outcome>>
           ELSE /\ UNCHANGED <<count, at>>
                /\ IF Last(text) = Overrun THEN Crash
                   ELSE Frees({"subject", "vs", "region"}) /\ Ends("NO_SUCH_GROUP_INDEX")
  /\ UNCHANGED <<call, pieces>>

\* A string object is made of vs.string; of NULL it cannot be.
ReplaceEnds ==
  /\ phase = "replace" /\ (count = call.limit \/ Matches(at) = {})
  /\ out' = IF count = 0 THEN out ELSE out \o Letters(at, call.n)
  /\ IF count = 0 THEN Frees({"subject", "region"}) /\ Ends("subject")
     ELSE IF out' = <<>> THEN Crash
     ELSE Frees({"subject", "region", "vs"}) /\ Ends("string")
  /\ UNCHANGED <<call, at, count, pieces>>

\* add_splitted_string
AddSplitted(piece) == pieces' = Append(pieces, piece)

\* One turn of the loop of split_crb_if
SplitOne ==
  /\ phase = "split" /\ Matches(at) # {}
  /\ LET q == Place(at)
     IN IF q = at THEN Crash /\ UNCHANGED <<at, pieces, count>>
        ELSE AddSplitted(Letters(at, q)) /\ at' = End(q) /\ count' = count + 1
             /\ UNCHANGED <<phase, live, outcome>>
  /\ UNCHANGED <<call, out>>

SplitEnds ==
  /\ phase = "split" /\ Matches(at) = {}
  /\ IF at = call.n THEN Crash /\ UNCHANGED pieces
     ELSE AddSplitted(Letters(at, call.n)) /\ Frees({"subject", "region"}) /\ Ends("array")
  /\ UNCHANGED <<call, at, count, out>>

\* The result is taken, and the next call may come.
Return ==
  /\ phase = "done"
  /\ phase' = "idle" /\ call' = NoCall /\ at' = 0 /\ count' = 0 /\ out' = <<>> /\ pieces' = <<>>
  /\ live' = {} /\ outcome' = "none"

\* The process has ended.
Crashed == phase = "crashed" /\ UNCHANGED matchingVars

MatchingNext ==
  \/ Begin \/ SearchFails \/ Match \/ ReplaceOne \/ ReplaceEnds \/ SplitOne \/ SplitEnds
  \/ Return \/ Crashed

MatchingSpec == MatchingInit /\ [][MatchingNext]_matchingVars

-----------------------------------------------------------------------------
(* Reference definitions.                                                  *)

Length(p) == call.regexp.length[p]
Covers(q, p) == q < p /\ p < q + Length(q)

\* No match of the subject is empty, and no group number is as long as MaxColumn.
Regular ==
  /\ \A p \in 0 .. call.n : Length(p) # 0
  /\ call.kind = "replace" => \A k \in DOMAIN call.tokens : call.tokens[k] # "wide"

\* The matches from left to right, none beginning inside another
Starts ==
  CHOOSE S \in SUBSET (0 .. call.n - 1) :
    \A p \in 0 .. call.n - 1 : p \in S <=> Length(p) > 0 /\ ~\E q \in S : Covers(q, p)

Replaced == IF call.limit > 1 THEN Starts ELSE {p \in Starts : \A q \in Starts : p <= q}

NamesNoGroup(token) == token = "zero" \/ (token = "group" /\ call.regexp.group = "none")

Meaning(token, p) ==
  CASE token = "letter" -> <<Letter>>
    [] token = "escaped" -> <<Backslash>>
    [] token = "lone" -> <<Backslash, Letter>>
    [] token = "group" -> IF call.regexp.group = "whole" THEN Letters(p, p + Length(p)) ELSE <<>>

ReplacedText ==
  FlattenSeq([i \in 1 .. call.n |->
    IF i - 1 \in Replaced
    THEN FlattenSeq([k \in DOMAIN call.tokens |-> Meaning(call.tokens[k], i - 1)])
    ELSE IF \E q \in Replaced : Covers(q, i - 1) THEN <<>> ELSE <<i - 1>>])

\* The k-th of them
Cut(k) == CHOOSE p \in Starts : Cardinality({q \in Starts : q <= p}) = k
SplittedPieces ==
  [k \in 1 .. Cardinality(Starts) + 1 |->
    Letters(IF k = 1 THEN 0 ELSE Cut(k - 1) + Length(Cut(k - 1)),
            IF k > Cardinality(Starts) THEN call.n ELSE Cut(k))]

-----------------------------------------------------------------------------
(* Properties.                                                             *)

MatchingTypeOK ==
  /\ phase \in {"idle", "match", "replace", "split", "done", "crashed"}
  /\ at \in 0 .. MaxSubject /\ count \in 0 .. MatchLimit
  /\ out \in Seq(Int) /\ \A k \in DOMAIN pieces : pieces[k] \in Seq(0 .. MaxSubject)
  /\ live \subseteq {"subject", "region", "vs"}

\* Only a match without letters leaves at where it is: reg_replace_all repeats it INT_MAX times.
Advances ==
  /\ phase \in {"replace", "split"} /\ Regular => count <= at
  /\ phase = "replace" /\ count > at => \E p \in 0 .. at : Length(p) = 0

SplitIsReference ==
  LET empty == \E k \in DOMAIN SplittedPieces : SplittedPieces[k] = <<>>
  IN /\ (phase = "crashed") => empty
     /\ (outcome = "array") => pieces = SplittedPieces /\ ~empty

ReplaceIsReference ==
  LET broken == Starts # {} /\ \E k \in DOMAIN call.tokens : NamesNoGroup(call.tokens[k])
  IN /\ (outcome = "NO_SUCH_GROUP_INDEX") => broken
     /\ (outcome = "subject") => Starts = {}
     /\ (outcome = "string") => ~broken /\ out = ReplacedText
     /\ (phase = "crashed") => ~broken /\ ReplacedText = <<>>

\* The loops of reg_replace, reg_replace_all and reg_split (regexp.c:359-530) do not search again
\* what they have replaced or split off. They give the text, or the pieces, that the matches from
\* left to right define; a group number without a group raises, once there is a match, and the
\* call crashes exactly where the text, or a piece, is empty.
ResultIsReference ==
  /\ Advances
  /\ phase \in {"done", "crashed"} /\ Regular =>
       /\ (call.kind = "split") => SplitIsReference
       /\ (call.kind = "replace") => ReplaceIsReference

\* A call frees its three buffers whichever way it ends (regexp.c:117-530), except the result of
\* a replacement whose search fails, and the region of a match whose group begins at the end.
BuffersReleased ==
  phase = "done" => \/ live = {}
                    \/ live = {"vs"} /\ outcome = "ONIG_SEARCH_FAIL" /\ call.kind = "replace"
                    \/ live = {"region"} /\ outcome = "STRING_POS_OUT_OF_BOUNDS"

=============================================================================
