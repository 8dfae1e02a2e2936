---------------------------- MODULE LiteralReader ----------------------------
(***************************************************************************)
(* The reader of the object literals in Cursor's bundles, from the anchor   *)
(* of a table to the value it stands for or to its rejection.  Source:      *)
(* packages/patcher/src/schema/bundle-scanner.ts, called as                 *)
(* extract-descriptors.ts calls it.                                         *)
(*                                                                          *)
(* A text is a sequence of characters, a backquote being "tick"; one letter *)
(* stands for all that an identifier may hold.  One step reads one token: a *)
(* bracket, a key with its colon, or a value that has no inside.  The calls *)
(* of parseArray and parseObject that wait are the stack "nest".  A value   *)
(* is a tuple of its kind and what it holds.                                *)
(***************************************************************************)
EXTENDS Integers, Sequences, SequencesExt, FiniteSetsExt, TLC

CONSTANTS Trees,      \* values a bundle holds
          WriteInner(_, _, _), \* Written, of a value inside of another
          Characters, \* one of which a new release may write for another
          Garbage,    \* texts an anchor may be mistaken for
          MaxSpan, MaxDepth, MaxString

VARIABLES site,     \* the text from the bracket the anchor led to
          tree,     \* the value it was written from, or NoTree
          at,       \* the next character, 0 before the site was measured
          nest,     \* the literals that are open, the outermost first
          outcome,  \* "reading", "read", "skipped" or "consumed nothing"
          literal   \* the value that was read

literalVars == <<site, tree, at, nest, outcome, literal>>

NoTree == <<"none">>
Quotes == {"'", "\"", "tick"}
Letters == {"a", "0", "1"}
Char(i) == IF i <= Len(site) THEN site[i] ELSE "end"

-----------------------------------------------------------------------------
(* How the bundler writes a value: strings escaped, booleans minified, blanks *)
(* or none, and a comma after the last entry or none.                        *)

Quoted(s) == <<"\"">>
  \o FlattenSeq([k \in 1..Len(s) |-> IF s[k] \in {"\"", "\\"} THEN <<"\\", s[k]>> ELSE <<s[k]>>])
  \o <<"\"">>

Entries(parts, blank, trailing) ==
  FlattenSeq([k \in 1..Len(parts) |->
    blank \o parts[k] \o IF k < Len(parts) \/ trailing THEN <<",">> ELSE <<>>]) \o blank

Written(v, blank, trailing) ==
  LET inside == v[2]
  IN CASE v[1] = "string" -> Quoted(inside)
       [] v[1] = "boolean" -> <<"!", inside>>
       [] v[1] \in {"number", "ref"} -> inside
       [] v[1] = "call" -> inside \o <<"(">> \o blank \o v[3] \o blank \o <<")">>
       [] v[1] = "array" ->
            <<"[">> \o Entries([k \in 1..Len(inside) |-> WriteInner(inside[k], blank, trailing)],
                               blank, trailing) \o <<"]">>
       [] v[1] = "object" ->
            LET keys == SetToSeq(DOMAIN inside)
            IN <<"{">> \o Entries([k \in 1..Len(keys) |->
                 keys[k] \o blank \o <<":">> \o blank \o WriteInner(inside[keys[k]], blank, trailing)],
                                  blank, trailing) \o <<"}">>

-----------------------------------------------------------------------------
(* Spans.  "end" is the position after what was read.                       *)

SkipSpace(i) == Min({k \in i..(Len(site) + 1) : Char(k) # " "} \cup {Max({i, Len(site) + 1})})

\* Where a run of these characters stops.
RunEnd(i, characters) == Min({k \in i..(Len(site) + 1) : Char(k) \notin characters})

\* Faulty: a quote ends the literal, whatever is before it.
QuoteStepUnescaped(text, was, quote, stop) ==
  LET i == was.end
      closes == text[i] = quote
  IN IF was.closed \/ i >= stop \/ i > Len(text) THEN was
     ELSE [closed |-> closes, value |-> was.value \o IF closes THEN <<>> ELSE <<text[i]>>,
           end |-> i + 1]

\* From a quote to its partner before stop: one character of the literal at a
\* time, and after a backslash the next one whatever it is.
QuoteStep(text, was, quote, stop) ==
  LET i == was.end
      more(s, n) == [closed |-> FALSE, value |-> was.value \o s, end |-> i + n]
  IN IF was.closed \/ i >= stop \/ i > Len(text) THEN was
     ELSE IF text[i] = "\\" THEN more(IF i < Len(text) THEN <<text[i + 1]>> ELSE <<>>, 2)
     ELSE IF text[i] = quote THEN [closed |-> TRUE, value |-> was.value, end |-> i + 1]
     ELSE more(<<text[i]>>, 1)

ReadQuoted(text, start, stop) ==
  LET read[n \in 0..Len(text)] ==
        IF n = 0 THEN [closed |-> FALSE, value |-> <<>>, end |-> start + 1]
        ELSE QuoteStep(text, read[n - 1], text[start], stop)
  IN read[Len(text)]

ReadString(text, start) == ReadQuoted(text, start, start + MaxString)

SkipString(text, start) ==
  LET read == ReadQuoted(text, start, Len(text) + 1)
  IN IF read.closed THEN read.end ELSE Len(text) + 1

Closing == [c \in {"(", "[", "{"} |-> CASE c = "(" -> ")" [] c = "[" -> "]" [] c = "{" -> "}"]

\* A scan for the brackets of one kind, strings passed over: where it is, how many
\* are open, and whether the last of them was closed.
ScanStep(text, was, open, stop) ==
  LET i == was.at
      goOn(next, depth) == [at |-> next, depth |-> depth, matched |-> FALSE]
  IN IF was.matched \/ i >= stop \/ i > Len(text) THEN was
     ELSE IF text[i] \in Quotes THEN goOn(SkipString(text, i), was.depth)
     ELSE IF text[i] = open THEN goOn(i + 1, was.depth + 1)
     ELSE IF text[i] # Closing[open] THEN goOn(i + 1, was.depth)
     ELSE [at |-> i + 1, depth |-> was.depth - 1, matched |-> was.depth = 1]

Scan(text, start, depth, open, stop) ==
  LET scan[n \in 0..Len(text)] ==
        IF n = 0 THEN [at |-> start, depth |-> depth, matched |-> FALSE]
        ELSE ScanStep(text, scan[n - 1], open, stop)
  IN scan

\* The position after the bracket that matches the one at start, or -1.
MatchBracket(text, start) ==
  LET last == Scan(text, start, 0, text[start], start + MaxSpan)[Len(text)]
  IN IF last.matched THEN last.at ELSE -1

\* trim of what is between two positions.
Trimmed(from, upTo) ==
  LET solid == {k \in from..upTo : Char(k) # " "}
  IN IF solid = {} THEN <<>> ELSE SubSeq(site, Min(solid), Max(solid))

-----------------------------------------------------------------------------
(* Values without an inside, read at i: [value, end], or a rejection.       *)

Rejected == [value |-> NoTree, end |-> 0]

\* A sign and a run of digits, points, exponents and plus signs.
NumberAt(i) ==
  LET end == RunEnd(IF site[i] = "-" THEN i + 1 ELSE i, {"0", "1", "."})
  IN [value |-> <<"number", SubSeq(site, i, end - 1)>>, end |-> end]

\* A reference, or the call of one; a parenthesis without partner is left to be
\* met as the next value.
NameAt(i) ==
  LET end == RunEnd(i, Letters \cup {"."})
      name == SubSeq(site, i, end - 1)
      closed == IF Char(end) = "(" THEN MatchBracket(site, end) ELSE -1
  IN IF end = i THEN Rejected
     ELSE IF closed = -1 THEN [value |-> <<"ref", name>>, end |-> end]
     ELSE [value |-> <<"call", name, Trimmed(end + 1, closed - 2)>>, end |-> closed]

ScalarAt(i) ==
  CASE Char(i) = "end" -> Rejected
    [] Char(i) \in Quotes ->
         LET read == ReadString(site, i)
         IN IF read.closed THEN [value |-> <<"string", read.value>>, end |-> read.end] ELSE Rejected
    [] Char(i) = "!" ->
         [value |-> <<"boolean", IF Char(i + 1) = "0" THEN "0" ELSE "1">>, end |-> i + 2]
    [] Char(i) \in {"-", "0", "1"} -> NumberAt(i)
    [] OTHER -> NameAt(i)

-----------------------------------------------------------------------------
(* The reading of one site.                                                 *)

NoKey == <<"no key">>
Frame(i) == [opened |-> i, items |-> <<>>, key |-> NoKey]
Top == Last(nest)
IsArray(frame) == site[frame.opened] = "["

End(what) == outcome' = what /\ at' = at /\ nest' = <<>> /\ UNCHANGED literal

\* A rejected site is one the caller counts as skipped.
Skip == End("skipped")

\* The handlers of the scan: the brackets must match within the span, and only
\* what is between them is read.
TakeSite ==
  /\ outcome = "reading" /\ at = 0
  /\ LET end == MatchBracket(site, 1)
     IN IF end = -1
        THEN Skip /\ UNCHANGED site
        ELSE /\ site' = SubSeq(site, 1, end - 1) /\ at' = 2 /\ nest' = <<Frame(1)>>
             /\ UNCHANGED <<outcome, literal>>
  /\ UNCHANGED tree

Reading == outcome = "reading" /\ at > 0

\* The next entry of the innermost literal, after blanks; past the end of the text
\* or of the span it was never closed.
Here == SkipSpace(at)
NeverClosed == Here > Len(site) \/ Here >= Top.opened + MaxSpan
AtEntry == Reading /\ Top.key = NoKey

Assign(f, key, x) == [k \in DOMAIN f \cup {key} |-> IF k = key THEN x ELSE f[k]]

\* A value that ends before "end" goes to the literal that waits for it: blanks and one
\* comma are skipped, and an array goes on only from beyond where its entry began.
Add(value, began, end, outer) ==
  LET parent == Last(outer)
      next == SkipSpace(end)
      filled == IF IsArray(parent) THEN [parent EXCEPT !.items = Append(@, value)]
                ELSE [parent EXCEPT !.items = Assign(@, parent.key, value), !.key = NoKey]
  IN IF IsArray(parent) /\ next <= began
     THEN End("consumed nothing")
     ELSE /\ nest' = Front(outer) \o <<filled>>
          /\ at' = IF Char(next) = "," THEN next + 1 ELSE next
          /\ UNCHANGED <<outcome, literal>>

GiveUp ==
  /\ AtEntry /\ NeverClosed
  /\ Skip
  /\ UNCHANGED <<site, tree>>

CloseLiteral ==
  /\ AtEntry /\ ~NeverClosed
  /\ Char(Here) = Closing[site[Top.opened]]
  /\ LET value == <<IF IsArray(Top) THEN "array" ELSE "object", Top.items>>
     IN IF Len(nest) = 1
        THEN /\ outcome' = "read" /\ literal' = value
             /\ at' = Here + 1 /\ nest' = <<>>
        ELSE Add(value, Top.opened, Here + 1, Front(nest))
  /\ UNCHANGED <<site, tree>>

\* A quoted or a bare key and its colon; a backquote opens no key.
KeyAt(i) ==
  IF Char(i) \in {"'", "\""} THEN ReadString(site, i)
  ELSE LET end == RunEnd(i, Letters)
       IN [closed |-> end > i, value |-> SubSeq(site, i, end - 1), end |-> end]

ReadKey ==
  /\ AtEntry /\ ~NeverClosed /\ ~IsArray(Top) /\ Char(Here) # "}"
  /\ LET read == KeyAt(Here)
     IN IF read.closed /\ Char(SkipSpace(read.end)) = ":"
        THEN /\ nest' = Front(nest) \o <<[Top EXCEPT !.key = read.value]>>
             /\ at' = SkipSpace(read.end) + 1
             /\ UNCHANGED <<outcome, literal>>
        ELSE Skip
  /\ UNCHANGED <<site, tree>>

\* parseValue, called with the depth of the literal it is in.
ReadValue ==
  /\ Reading
  /\ IF IsArray(Top) THEN ~NeverClosed /\ Char(Here) # "]" ELSE Top.key # NoKey
  /\ IF Len(nest) - 1 > MaxDepth THEN Skip
     ELSE IF Char(Here) \in {"[", "{"}
     THEN nest' = Append(nest, Frame(Here)) /\ at' = Here + 1 /\ UNCHANGED <<outcome, literal>>
     ELSE LET scalar == ScalarAt(Here)
          IN IF scalar = Rejected THEN Skip
             ELSE Add(scalar.value, Here, scalar.end, nest)
  /\ UNCHANGED <<site, tree>>

-----------------------------------------------------------------------------
\* What follows a table in the call it is an argument of.
After == <<")", "]">>

\* The bundles: tables as the bundler writes them, the same with one character
\* changed, and what is no table.
LiteralInit ==
  /\ \/ /\ tree \in Trees
        /\ \E blank \in {<<>>, <<" ">>}, trailing \in BOOLEAN :
             site = Written(tree, blank, trailing) \o After
     \/ /\ tree = NoTree
        /\ \E v \in Trees, c \in Characters :
             LET text == Written(v, <<>>, FALSE)
             IN \E k \in 2..Len(text) : site = ReplaceAt(text, k, c)
     \/ /\ tree = NoTree
        /\ site \in Garbage
  /\ at = 0 /\ nest = <<>> /\ outcome = "reading" /\ literal = NoTree

LiteralNext == TakeSite \/ GiveUp \/ CloseLiteral \/ ReadKey \/ ReadValue

LiteralSpec == LiteralInit /\ [][LiteralNext]_literalVars

\* The anchor leads to a bracket, of an array for messages and of either for enums.
IsSite(text) == text \in Seq(STRING) /\ text # <<>> /\ text[1] \in {"[", "{"}

ASSUME LiteralAssumption ==
  /\ {MaxSpan, MaxDepth, MaxString} \subseteq Nat /\ Characters \subseteq STRING /\ After \in Seq(STRING)
  /\ \A text \in Garbage : IsSite(text)
  /\ \A v \in Trees, blank \in {<<>>, <<" ">>}, trailing \in BOOLEAN : IsSite(Written(v, blank, trailing))

-----------------------------------------------------------------------------
(* Properties.                                                              *)

\* The reader takes whatever follows "!" for a digit, a bracket or a quote too.
Negates == \E k \in 1..Len(site) : site[k] = "!" /\ Char(k + 1) \notin {"0", "1"}

\* And whatever a call holds for its argument; brackets are to come in pairs there.
Pairs(k) ==
  LET end == MatchBracket(site, k)
      scan == Scan(site, k, 1, site[1], 1 + MaxSpan)
  IN end # -1 => \E n \in 0..Len(site) : scan[n] = [at |-> end, depth |-> 1, matched |-> FALSE]
Hides == \E k \in 1..Len(site) : site[k] = "(" /\ ~Pairs(k)

\* Every step of the reader moves forward or is the last (the header of
\* bundle-scanner.ts: "fail on input it does not understand, never spin"), a table
\* the bundler wrote is read as the value it was written from, the backstop of the
\* array loop is never needed, and a literal that is accepted ends where its
\* brackets were matched: the two scans agree on what is inside a string, and on
\* how many brackets are open unless one is taken for something else.
MovesOn ==
  /\ outcome' = "reading" => at' > at
  /\ outcome' # "consumed nothing"
  /\ outcome' = "read" /\ ~Negates /\ ~Hides => at' = Len(site) + 1
LiteralsRead ==
  [][ /\ MovesOn
      /\ outcome' # "reading" /\ tree # NoTree => outcome' = "read" /\ literal' = tree ]_literalVars
=============================================================================
