--------------------------- MODULE KnowledgeGraph ---------------------------
(***************************************************************************)
(* The knowledge graph: entities, their full-text index and the relations  *)
(* between them, in one SQLite connection, with statements that fail and   *)
(* processes that end before a commit.                                     *)
(*                                                                         *)
(* Models src/src/agents/knowledge_graph.py.  SQLite is external: foreign  *)
(* keys are not enforced, a failed statement leaves the transaction open,  *)
(* and the index (an FTS5 table, which has no key but its row number)      *)
(* takes INSERT OR REPLACE as a plain insert and gives its rows back in    *)
(* their order.  A name stands for all the text of an entity.              *)
(***************************************************************************)
EXTENDS Naturals, FiniteSets, Sequences

CONSTANTS Ids,       \* identifiers of entities
          Names,     \* what an entity may be called
          Kinds,     \* relation types
          Limit,     \* how many rows search_entities asks for
          MaxRows    \* bound: rows of the index

Nameless == "no entity"

ASSUME GraphAssumption == Limit \in Nat /\ MaxRows \in Nat /\ Nameless \notin Names

VARIABLES live,    \* the tables as the connection sees them
          durable, \* the tables as last committed
          failed   \* the identifiers whose last add_entity failed half-way

graphVars == <<live, durable, failed>>

EmptyGraph == [entities |-> [i \in Ids |-> Nameless], index |-> <<>>, relations |-> {}]

GraphInit == live = EmptyGraph /\ durable = EmptyGraph /\ failed = {}

(* Fault: an entity is indexed under its first name only. *)
IndexedNew(t, id, name) ==
  IF \E i \in DOMAIN t.index : t.index[i][1] = id THEN t
  ELSE [t EXCEPT !.index = Append(@, <<id, name>>)]

(* INSERT OR REPLACE where the index has no key: one more row. *)
Indexed(t, id, name) == [t EXCEPT !.index = Append(@, <<id, name>>)]

WithEntity(t, id, name) == [t EXCEPT !.entities[id] = name]

(* The commit raises as well, and leaves both statements in the open       *)
(* transaction.                                                            *)
AddEntity(id, name) ==
  /\ Len(live.index) < MaxRows
  /\ live' = Indexed(WithEntity(live, id, name), id, name)
  /\ \/ durable' = live' /\ failed' = failed \ {id}
     \/ UNCHANGED <<durable, failed>>

(* The second statement fails: the first stays in the open transaction,    *)
(* and the next commit of anybody takes it along.                          *)
AddEntityFails(id, name) ==
  /\ live' = WithEntity(live, id, name)
  /\ failed' = failed \cup {id}
  /\ UNCHANGED durable

AddRelationship(a, b, kind) ==
  /\ live' = [live EXCEPT !.relations = @ \cup {<<a, b, kind>>}]
  /\ durable' \in {live', durable}
  /\ UNCHANGED failed

(* The process ends; another one opens the file. *)
Reopen == /\ live # durable
          /\ live' = durable
          /\ UNCHANGED <<durable, failed>>

GraphNext ==
  \/ \E id \in Ids, name \in Names : AddEntity(id, name) \/ AddEntityFails(id, name)
  \/ \E a, b \in Ids, kind \in Kinds : AddRelationship(a, b, kind)
  \/ Reopen

GraphSpec == GraphInit /\ [][GraphNext]_graphVars

------------------------------------------------------------------------------
(* The queries. *)

Exists(id) == live.entities[id] # Nameless

(* search_entities: the rows of the index that match, joined to entities,  *)
(* and of these the first Limit; an entity comes back once for each row.   *)
Rows(name) == {i \in DOMAIN live.index : live.index[i][2] = name /\ Exists(live.index[i][1])}

Returned(name) == {i \in Rows(name) : Cardinality({j \in Rows(name) : j < i}) < Limit}

Found(name, id) == \E i \in Returned(name) : live.index[i][1] = id

(* get_related joins the other end of a relation to its entity. *)
Outbound(id, kind) == {b \in Ids : Exists(b) /\ <<id, b, kind>> \in live.relations}
Inbound(id, kind) == {a \in Ids : Exists(a) /\ <<a, id, kind>> \in live.relations}

------------------------------------------------------------------------------
GraphTypeOK ==
  \A t \in {live, durable} :
    /\ t.entities \in [Ids -> Names \cup {Nameless}]
    /\ t.index \in Seq(Ids \X Names) /\ Len(t.index) <= MaxRows
    /\ t.relations \subseteq Ids \X Ids \X Kinds

(* The rows that other entities have under a name: one for each time they  *)
(* were added with it.                                                     *)
RowsOfOthers(name, id) == {i \in Rows(name) : live.index[i][1] # id}

(* However often an entity is renamed, and whatever transaction a failed   *)
(* statement left open or a restart threw away, a search by the name an    *)
(* entity has now finds it, unless its last adding failed half-way or      *)
(* others, added again and again under that name, fill the whole answer;   *)
(* its own old rows never keep it out.                                     *)
Findable ==
  \A id \in Ids :
    Exists(id) /\ id \notin failed
      => \/ Found(live.entities[id], id)
         \/ Cardinality(RowsOfOthers(live.entities[id], id)) >= Limit

(* The two ends of a relation agree: among the entities that exist, one is *)
(* reached outbound exactly when the other is reached inbound.             *)
EndsAgree ==
  \A a, b \in Ids, kind \in Kinds :
    Exists(a) /\ Exists(b) => (b \in Outbound(a, kind) <=> a \in Inbound(b, kind))

(* What the graph was told can be found again, from either end.            *)
GraphAnswers == Findable /\ EndsAgree
==============================================================================
