---------------------------- MODULE ModelCatalogue ----------------------------
(***************************************************************************)
(* The models of the user's own providers, from providers.json over the     *)
(* registry (packages/providers/src/registry.ts) and the model list that    *)
(* Cursor's picker shows (server/src/rpc/handlers/available-models.ts) to    *)
(* the turn on the model that was picked (server/src/agent/turn.ts,          *)
(* rpc/handlers/agent-run.ts).                                               *)
(*                                                                           *)
(* A provider is [id, enabled, key, models] and a model [id, enabled, wire]: *)
(* wire is apiModel, the name its provider knows it by.  The list shows      *)
(* models as [name, by, wire]; by is the provider, or Cursor itself.  Its     *)
(* order, the document's behind the official list's, is left out.            *)
(***************************************************************************)
EXTENDS Naturals, Sequences, FiniteSetsExt, Functions

CONSTANTS
  Documents, \* what providers.json may hold: sequences of providers
  Official,  \* the lists the official API answers with: sets of names
  Cursor,    \* whose models those are
  MaxEdits   \* bound: edits of providers.json

Listed(s) == s \in Seq(Range(s))

ASSUME CatalogueAssumption ==
  \A doc \in Documents : Listed(doc) /\ \A k \in DOMAIN doc : Listed(doc[k].models)

VARIABLES
  document, \* providers.json
  edits,
  registry, \* what the server made of it: [id -> [by, wire]]
  byok,     \* whether the mode is on; if not, nothing is answered here
  picker,   \* what the client was last given
  picked,   \* the model the last turn asked for, or NotPicked
  served    \* how that turn went: [by, wire]

catalogueVars == <<document, edits, registry, byok, picker, picked, served>>

NotPicked == [name |-> "", by |-> "", wire |-> ""]
NotServed == [by |-> "", wire |-> ""]
Refusal == [by |-> "refused", wire |-> ""] \* UnknownModelError, in the open stream

ShownAs(name) == [name |-> name, by |-> Cursor, wire |-> name]

-----------------------------------------------------------------------------
\* The models that are on of a provider that is on and has a key.
Usable(provider) ==
  IF provider.enabled /\ provider.key
  THEN {j \in DOMAIN provider.models : provider.models[j].enabled} ELSE {}

Named(provider, id) == {j \in Usable(provider) : provider.models[j].id = id}
Offering(doc, id) == {k \in DOMAIN doc : Named(doc[k], id) # {}}
Offered(doc) == UNION {{doc[k].models[j].id : j \in Usable(doc[k])} : k \in DOMAIN doc}

\* Faulty: a later provider of an id takes it over.
KeepLast(doc, id) ==
  LET provider == doc[Max(Offering(doc, id))]
  IN [by |-> provider.id, wire |-> provider.models[Min(Named(provider, id))].wire]

\* The first provider of an id serves it, by its first model of that id.
KeepFirst(doc, id) ==
  LET provider == doc[Min(Offering(doc, id))]
  IN [by |-> provider.id, wire |-> provider.models[Min(Named(provider, id))].wire]

FromDocument(doc) == [id \in Offered(doc) |-> KeepFirst(doc, id)]

ShowOfficial(official) == {ShownAs(name) : name \in official}

\* Cursor's own models, and ours but for the names that are taken.
WithOurs(official) ==
  ShowOfficial(official)
    \cup {[name |-> id, by |-> registry[id].by, wire |-> registry[id].wire] :
             id \in DOMAIN registry \ official}

-----------------------------------------------------------------------------
CatalogueInit ==
  /\ document \in Documents /\ edits = 0
  /\ registry = FromDocument(document)
  /\ byok \in BOOLEAN
  /\ picker = {}
  /\ picked = NotPicked /\ served = NotServed

\* The document is saved by the panel or by hand.
EditProviders ==
  /\ edits < MaxEdits /\ edits' = edits + 1
  /\ document' \in Documents
  /\ UNCHANGED <<registry, byok, picker, picked, served>>

\* Nothing watches providers.json: a revision of the configuration, which may
\* change the mode, has the server read it again.
Revised ==
  /\ byok' \in BOOLEAN
  /\ registry' = FromDocument(document)
  /\ UNCHANGED <<document, edits, picker, picked, served>>

\* AvailableModels with the mode on.  Without models of ours, or with no
\* descriptors to encode them by, the official answer is passed on; when there
\* is none either, the client keeps what it has.
ListModels ==
  /\ byok
  /\ \/ /\ DOMAIN registry # {}
        /\ \E official \in Official \cup {{}} : picker' = WithOurs(official)
     \/ \E official \in Official : picker' = ShowOfficial(official)
     \/ UNCHANGED picker
  /\ UNCHANGED <<document, edits, registry, byok, picked, served>>

ListElsewhere ==
  /\ ~byok
  /\ \E official \in Official : picker' = ShowOfficial(official)
  /\ UNCHANGED <<document, edits, registry, byok, picked, served>>

\* A turn on a model of the list.  With any model of ours the turn is served
\* here, whatever model it asks for; otherwise it is the official API's.
Turn(shown) ==
  /\ picked' = shown
  /\ \/ /\ byok /\ DOMAIN registry # {}
        /\ served' = IF shown.name \in DOMAIN registry THEN registry[shown.name] ELSE Refusal
     \/ /\ ~byok \/ DOMAIN registry = {}
        /\ served' = [by |-> Cursor, wire |-> shown.name]
  /\ UNCHANGED <<document, edits, registry, byok, picker>>

CatalogueNext ==
  \/ EditProviders \/ Revised \/ ListModels \/ ListElsewhere
  \/ \E shown \in picker : Turn(shown)

CatalogueSpec == CatalogueInit /\ [][CatalogueNext]_catalogueVars

-----------------------------------------------------------------------------
\* A provider that would serve a model, under the name it knows it by.
Serves(provider, id, wire) ==
  /\ provider.enabled /\ provider.key
  /\ \E m \in Range(provider.models) : m.id = id /\ m.enabled /\ m.wire = wire

\* To whom a turn on one of our models goes.
PickedGoesHome ==
  \/ served' = Refusal /\ \A k \in DOMAIN document : Named(document[k], picked'.name) = {}
  \/ /\ \E k \in DOMAIN document :
          /\ document[k].id = served'.by /\ Serves(document[k], picked'.name, served'.wire)
          /\ \A i \in 1..(k - 1) : Named(document[i], picked'.name) = {}
     /\ edits = 0 => served' = [by |-> picked'.by, wire |-> picked'.wire]

NamedOnce == \A x, y \in picker : x.name = y.name => x = y

\* A turn on a model that the list shows as one of ours goes, when the document
\* has not been touched since the server read it, to the first provider that is
\* on, has a key and offers that model under the name it is asked for; to the one
\* the list named, unless the document changed in between; and a name that two
\* providers, or one and Cursor, share is shown once.
PickedIsServed ==
  [][ /\ picked' # picked /\ picked'.by # Cursor /\ byok /\ DOMAIN registry # {}
         /\ registry = FromDocument(document) => PickedGoesHome
      /\ NamedOnce' ]_catalogueVars

\* "Appended to the official list; turning BYOK on does not take away the
\* models the user already had" (README.md:22, available-models.ts:15): a turn
\* on a model that the list shows as Cursor's own is Cursor's to answer.
OwnModelsStay ==
  picked # NotPicked /\ picked.by = Cursor => served.by = Cursor
=============================================================================
