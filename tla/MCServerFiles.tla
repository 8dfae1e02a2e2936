----------------------------- MODULE MCServerFiles -----------------------------
(***************************************************************************)
(* Bounds for the documents of a server that outlive it: the configuration, *)
(* with one renderer that follows it, the notes of the knowledge base, with *)
(* two servers that hold them, and the extracted schema, with the command   *)
(* that writes it and the reader it takes the tables from the bundles with. *)
(* A behaviour is one of the four; the others rest at an initial state.     *)
(***************************************************************************)
EXTENDS ConfigFeed, KnowledgeStore, DescriptorStore, LiteralReader

CONSTANTS server, r1

VARIABLE part   \* whose behaviour this is

mcVars == <<part, feedVars, notesVars, schemaVars, literalVars>>

(* Field tables of every construct the generator emits, with brackets and     *)
(* quotes inside strings and calls.                                          *)
Text(s) == <<"string", s>>
Name(s) == <<"ref", s>>
List(s) == <<"array", s>>
Table(m) == <<"object", m>>
MCFieldTables ==
  {List(<<>>),
   List(<<Text(<<"\"", "]", "\\", "a">>), <<"boolean", "0">>, <<"number", <<"-", "1", ".", "0">>>>>>),
   List(<<Table(<<"a">> :> <<"number", <<"1">>>> @@ <<"a", "1">> :> Name(<<"a", ".", "a">>)
             @@ <<"0">> :> <<"boolean", "1">>)>>),
   List(<<<<"call", <<"a", ".", "a">>, <<"a", "(", ")">>>>, List(<<Name(<<"a">>), Text(<<>>)>>)>>),
   Table(<<"a">> :> List(<<<<"call", <<"a">>, <<"\"", ")", "\"">>>>>>)
      @@ <<"1">> :> Table(<<"a">> :> Text(<<"'", "}">>)))}
MCCharacters ==
  {"a", "1", ".", "-", "!", "(", ")", "[", "]", "{", "}", ":", ",", " ", "\"", "'", "tick", "\\", "?"}

(* Short texts of all sorts, a nest too deep, a table too wide for the span   *)
(* and a string too long.                                                    *)
MCMistaken ==
  {<<"[">> \o s \o <<"]", "]">> : s \in UNION {[1..n -> MCCharacters \ {"1", ".", "'"}] : n \in 0..2}}
  \cup {<<"[", "[", "[", "[", "[", "]", "]", "]", "]", "]">>,
        <<"[">> \o [k \in 1..60 |-> "1"] \o <<"]">>,
        <<"[", "\"">> \o [k \in 1..12 |-> "a"] \o <<"\"", "]">>,
        <<"[", "a", "(", "[", ")", "]", "]">>, <<"[", "a", "(", "[", "\"", "]", "\"", "]", ")", "]">>}

\* The writer calls itself; behind a LET, TLC's account of the actions does not
\* follow the calls.
MCWrite(v, blank, trailing) == LET inner == Written(v, blank, trailing) IN inner

-----------------------------------------------------------------------------
FeedSteps ==
  part = "feed" /\ FeedNext /\ UNCHANGED <<part, notesVars, schemaVars, literalVars>>
NoteSteps ==
  part = "notes" /\ NotesNext /\ UNCHANGED <<part, feedVars, schemaVars, literalVars>>
SchemaSteps ==
  part = "schema" /\ SchemaNext /\ UNCHANGED <<part, feedVars, notesVars, literalVars>>
LiteralSteps ==
  part = "literal" /\ LiteralNext /\ UNCHANGED <<part, feedVars, notesVars, schemaVars>>

FeedRests == FeedInit /\ ~home
SchemaRests == SchemaInit /\ schemaFile = Absent
LiteralRests == LiteralInit /\ site = <<"[", "]", "]">>

MCInit ==
  \/ part = "feed" /\ NotesInit /\ SchemaRests /\ LiteralRests /\ FeedInit
  \/ part = "notes" /\ FeedRests /\ NotesInit /\ SchemaRests /\ LiteralRests
  \/ part = "schema" /\ FeedRests /\ NotesInit /\ SchemaInit /\ LiteralRests
  \/ part = "literal" /\ FeedRests /\ NotesInit /\ SchemaRests /\ LiteralInit

MCNext == FeedSteps \/ NoteSteps \/ SchemaSteps \/ LiteralSteps

\* The feed's fairness; nobody has to call the knowledge base, ask for the schema
\* or extract it.
MCSpec == MCInit /\ [][MCNext]_mcVars /\ FeedFairness
=============================================================================
