---------------------------- MODULE LikePattern ----------------------------
(***************************************************************************)
(* src/src/changefeed/predicate_evaluator.cpp: LIKE.  The pattern becomes an *)
(* ECMAScript regex, matched as a whole; its . matches anything but a line   *)
(* terminator.                                                               *)
(***************************************************************************)
EXTENDS Naturals, Sequences, PureCalls

CONSTANT Characters

ASSUME LikeAssumption ==
  \A c \in Calls : c.of = "like" => c.text \in Seq(Characters) /\ c.pattern \in Seq(Characters)

\* Mutant: special characters are not escaped (a dot is one, in the patterns used).
LikePatternToRegexRaw(pattern) ==
  [i \in 1..Len(pattern) |->
     [any  |-> pattern[i] \in {"%", "_", "."},
      many |-> pattern[i] = "%",
      char |-> pattern[i]]]

\* % is .*, _ is ., and every other character is itself: those that mean
\* something in a regex are escaped.
LikePatternToRegex(pattern) ==
  [i \in 1..Len(pattern) |->
     [any  |-> pattern[i] \in {"%", "_"},
      many |-> pattern[i] = "%",
      char |-> pattern[i]]]

-----------------------------------------------------------------------------
LineTerminators == {"\n", "\r"}

Takes(item, c) == IF item.any THEN c \notin LineTerminators ELSE c = item.char

\* Where the first j items of a regex can end in the text: from where those before
\* it can end, an item takes one character, or any number of them.
Ends(text, regex) ==
  LET ends[j \in 0..Len(regex)] ==
        IF j = 0 THEN {0}
        ELSE IF regex[j].many
        THEN {i \in 0..Len(text) : \E k \in ends[j - 1] : /\ k <= i
                                                          /\ \A m \in (k + 1)..i : Takes(regex[j], text[m])}
        ELSE {i \in 1..Len(text) : i - 1 \in ends[j - 1] /\ Takes(regex[j], text[i])}
  IN ends

RegexMatch(text, regex) == Len(text) \in Ends(text, regex)[Len(regex)]

-----------------------------------------------------------------------------
MatchLike ==
  Called("like") /\ answer' = [match |-> RegexMatch(call.text, LikePatternToRegex(call.pattern))]

LikeNext == MatchLike /\ UNCHANGED call

LikeSpec == CallInit /\ [][LikeNext]_callVars

-----------------------------------------------------------------------------
\* LIKE, by cutting the text into one piece for every character of the pattern.
Cuts(text, pattern, n) ==
  {cut \in [0..n -> 0..Len(text)] :
     /\ cut[0] = 0
     /\ \A i \in 1..n :
          /\ cut[i - 1] <= cut[i]
          /\ pattern[i] # "%" => cut[i] = cut[i - 1] + 1
          /\ pattern[i] \notin {"%", "_"} => text[cut[i]] = pattern[i]}

Like(text, pattern) == \E cut \in Cuts(text, pattern, Len(pattern)) : cut[Len(pattern)] = Len(text)

\* The regex that stands for a LIKE pattern matches what LIKE matches, dots and
\* other special characters being themselves; only where the text has a line
\* terminator may it match less.
LikeMatches ==
  Answered("like") =>
    /\ answer.match => Like(call.text, call.pattern)
    /\ (\A i \in 1..Len(call.text) : call.text[i] \notin LineTerminators) =>
         (Like(call.text, call.pattern) => answer.match)

=============================================================================
