---------------------------- MODULE KnowledgeStore ----------------------------
(***************************************************************************)
(* The notes of the knowledge base (packages/server/src/knowledge/store.ts  *)
(* and rpc/handlers/knowledge-base.ts): one JSON file, and in every running  *)
(* server a document that is read from it once, on the first call, and       *)
(* written back whole by every call that changes it.                         *)
(*                                                                           *)
(* Servers are processes that start, end and start again; two may run at a   *)
(* time, on ports of their own.  An entry is its id, its text, the           *)
(* repository it belongs to ("" for all) and the millisecond it was made in; *)
(* the text is the number of the change that wrote it.  A document is the    *)
(* set of its entries: notes are numbered as they are made and only ever     *)
(* appended, so that their order in every document is that of their ids.     *)
(***************************************************************************)
EXTENDS Integers, Sequences, FiniteSets, Functions

CONSTANTS
  NoteServers, \* processes that may hold the store
  Origins,     \* repositories, "" among them
  MaxNotes,    \* bound: notes ever made
  MaxChanges   \* bound: updates, removals, lists and damages

VARIABLES
  noteFile, \* [state: "absent", "damaged" or "good", entries]
  holder,  \* per server: [up, loaded, entries]
  made,    \* notes made so far, which numbers their ids
  now,     \* the clock, in milliseconds
  changes, \* calls that were no addition, so far
  listing, \* the list just given: [server, origin, limit, entries]
  \* What the callers know and what could make it untrue:
  told,    \* id |-> the text of the last success the callers were told of
  lost,    \* ids whose notes went with a damaged file, an ended server or a stale write
  unsaved, \* servers whose last write failed
  stale    \* servers that read the file before another one's last write

notesVars == <<noteFile, holder, made, now, changes, listing, told, lost, unsaved, stale>>

Ids(entries) == {e.id : e \in entries}

NoProcess == [up |-> FALSE, loaded |-> FALSE, entries |-> {}]
NoList == [server |-> "", origin |-> "", limit |-> 0, entries |-> <<>>]

NotesInit ==
  /\ noteFile = [state |-> "absent", entries |-> {}]
  /\ holder = [s \in NoteServers |-> NoProcess]
  /\ made = 0 /\ now = 0 /\ changes = 0
  /\ listing = NoList
  /\ told = <<>> /\ lost = {} /\ unsaved = {} /\ stale = {}

\* Faulty: only a list reads the file.
LoadedByList(s) == holder[s].entries

\* The document as a call of s finds it: a file that is not there or does not
\* parse is an empty one, and nothing is read a second time.
Loaded(s) == IF holder[s].loaded THEN holder[s].entries ELSE noteFile.entries

Holds(s, entries) == holder' = [holder EXCEPT ![s] = [up |-> TRUE, loaded |-> TRUE, entries |-> entries]]

\* The document becomes the file by a rename, over what others had written; or
\* the write fails, which is only logged.
SaveNotes(s, entries) ==
  \/ /\ noteFile' = [state |-> "good", entries |-> entries]
     /\ unsaved' = unsaved \ {s}
     /\ stale' = {t \in NoteServers \ {s} : holder[t].loaded}
     /\ lost' = lost \cup (IF s \in stale THEN Ids(noteFile.entries \ Loaded(s)) ELSE {})
  \/ /\ unsaved' = unsaved \cup {s}
     /\ UNCHANGED <<noteFile, stale, lost>>

NotSaved == UNCHANGED <<noteFile, unsaved, stale, lost>>
CountedCall == changes < MaxChanges /\ changes' = changes + 1

Without(id) == [other \in DOMAIN told \ {id} |-> told[other]]

\* A reply that cannot be encoded is forwarded instead: the callers do not
\* know of what was done.
Told(id, text) == told' \in {Without(id), [other \in DOMAIN told \cup {id} |-> IF other = id THEN text ELSE told[other]]}

AddNote(s, origin) ==
  /\ holder[s].up /\ made < MaxNotes
  /\ now' \in {now, now + 1}
  /\ made' = made + 1
  /\ LET entries == Loaded(s) \cup {[id |-> made', text |-> 0, origin |-> origin, at |-> now']}
     IN Holds(s, entries) /\ SaveNotes(s, entries)
  /\ Told(made', 0)
  /\ listing' = NoList
  /\ UNCHANGED changes

\* A note the document lacks is refused, and nothing is written.
RefuseNote(s, id) ==
  /\ id \notin Ids(Loaded(s))
  /\ Holds(s, Loaded(s))
  /\ NotSaved
  /\ UNCHANGED told

UpdateNote(s, id) ==
  /\ holder[s].up /\ CountedCall
  /\ \/ RefuseNote(s, id)
     \/ /\ id \in Ids(Loaded(s))
        /\ LET entries == {[e EXCEPT !.text = IF e.id = id THEN changes' ELSE @] : e \in Loaded(s)}
           IN Holds(s, entries) /\ SaveNotes(s, entries)
        /\ Told(id, changes')
  /\ listing' = NoList
  /\ UNCHANGED <<made, now>>

RemoveNote(s, id) ==
  /\ holder[s].up /\ CountedCall
  /\ \/ RefuseNote(s, id)
     \/ /\ id \in Ids(Loaded(s))
        /\ LET entries == {e \in Loaded(s) : e.id # id}
           IN Holds(s, entries) /\ SaveNotes(s, entries)
        /\ told' = Without(id)
  /\ listing' = NoList
  /\ UNCHANGED <<made, now>>

\* Newest first; the sort is stable.
Before(d, e) == d.at > e.at \/ (d.at = e.at /\ d.id < e.id)
NewestFirst(entries) ==
  {list \in Bijection(1..Cardinality(entries), entries) :
     \A j, k \in DOMAIN list : j < k => Before(list[j], list[k])}

Applies(entry, origin) == entry.origin = "" \/ origin = "" \/ entry.origin = origin

ListNotes(s, origin, limit) ==
  /\ holder[s].up /\ CountedCall
  /\ Holds(s, Loaded(s))
  /\ \E ordered \in NewestFirst({e \in Loaded(s) : Applies(e, origin)}) :
       listing' = [server |-> s, origin |-> origin, limit |-> limit,
                   entries |-> IF limit \in 1..Len(ordered) THEN SubSeq(ordered, 1, limit) ELSE ordered]
  /\ NotSaved
  /\ UNCHANGED <<made, now, told>>

StartServer(s) ==
  /\ ~holder[s].up
  /\ holder' = [holder EXCEPT ![s] = [NoProcess EXCEPT !.up = TRUE]]
  /\ NotSaved
  /\ UNCHANGED <<made, now, changes, listing, told>>

\* A server that ends takes with it what it could not write.
EndServer(s) ==
  /\ holder[s].up
  /\ holder' = [holder EXCEPT ![s] = NoProcess]
  /\ unsaved' = unsaved \ {s}
  /\ stale' = stale \ {s}
  /\ lost' = IF s \in unsaved THEN lost \cup Ids(holder[s].entries) ELSE lost
  /\ listing' = NoList
  /\ UNCHANGED <<noteFile, made, now, changes, told>>

\* Somebody leaves the file so that it does not parse.
DamageNotes ==
  /\ noteFile.state = "good" /\ CountedCall
  /\ noteFile' = [state |-> "damaged", entries |-> {}]
  /\ lost' = lost \cup Ids(noteFile.entries)
  /\ listing' = NoList
  /\ UNCHANGED <<holder, made, now, told, unsaved, stale>>

NoteCall(s) ==
  \/ \E origin \in Origins : AddNote(s, origin)
  \/ \E id \in 1..made : UpdateNote(s, id) \/ RemoveNote(s, id)
  \/ \E origin \in Origins, limit \in 0..1 : ListNotes(s, origin, limit)

NotesNext == DamageNotes \/ \E s \in NoteServers : StartServer(s) \/ EndServer(s) \/ NoteCall(s)

NotesSpec == NotesInit /\ [][NotesNext]_notesVars

-----------------------------------------------------------------------------
Noted(entries, id) == \E e \in entries : e.id = id /\ e.text = told[id]

\* A success the callers were told of is kept, over any number of calls and
\* restarts (store.ts:4, "the add appears to succeed, the list comes back
\* empty, and nothing reports an error"): the file has the note as they left
\* it, or the server that could not write it still has, unless it went with a
\* damaged file, with the end of such a server, or under the write of a server
\* that had read the file before.  And every server that is not behind lists
\* the notes of the repository that are in the file, newest first.
NotesKept ==
  /\ \A id \in DOMAIN told \ lost :
       Noted(noteFile.entries, id) \/ \E s \in unsaved : Noted(holder[s].entries, id)
  /\ listing.server # "" =>
       /\ \A j, k \in DOMAIN listing.entries : j < k => listing.entries[j].at >= listing.entries[k].at
       /\ listing.limit = 0 /\ listing.server \notin stale =>
            \A e \in noteFile.entries :
              Applies(e, listing.origin) /\ e.id \in DOMAIN told \ lost /\ e.text = told[e.id]
                => \E k \in DOMAIN listing.entries : listing.entries[k].id = e.id /\ listing.entries[k].text = e.text
=============================================================================
