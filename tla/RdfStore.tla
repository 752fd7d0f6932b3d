------------------------------ MODULE RdfStore ------------------------------
(***************************************************************************)
(* The triple store (src/core/knowledge/rdf_store.py): threads that insert *)
(* into and delete from one table.  Every operation is one database        *)
(* transaction, seen by the others with its commit, and every statement is *)
(* a step.  query(), sparql_query() and export_data() change no row, and   *)
(* the cache stays empty: query() hands Redis a list, which it refuses, so *)
(* the deletions of _update_cache() and _invalidate_cache() find nothing.  *)
(***************************************************************************)
EXTENDS FiniteSets, Naturals

CONSTANTS Writers,   \* threads with a session of their own
          Triples,
          BulkSize   \* bulk_size

ASSUME RdfAssumption == BulkSize \in Nat \ {0} /\ IsFiniteSet(Triples)

VARIABLES triples,  \* the committed rows of triples_table
          asked,    \* what the operation of each writer is to insert or delete
          todo,     \* what insert_bulk() has still to insert
          op        \* "idle", "insert" or "delete"

rdfVars == <<triples, asked, todo, op>>

RdfInit ==
    /\ triples = {}
    /\ asked = [w \in Writers |-> {}] /\ todo = [w \in Writers |-> {}]
    /\ op = [w \in Writers |-> "idle"]

TransactionBegins(w, o, ts, rest) ==
    /\ op[w] = "idle"
    /\ op' = [op EXCEPT ![w] = o]
    /\ asked' = [asked EXCEPT ![w] = ts]
    /\ todo' = [todo EXCEPT ![w] = rest]
    /\ UNCHANGED triples

\* insert_triple() is insert_bulk() of one triple.
InsertBulk(w, ts) == TransactionBegins(w, "insert", ts, ts)

\* What the open transaction of w has inserted or deleted: these rows are
\* locked in the database.
Touched(w) == IF op[w] = "insert" THEN asked[w] \ todo[w] ELSE asked[w]

Waits(w, ts) == \E v \in Writers \ {w} : op[v] # "idle" /\ Touched(v) \cap ts # {}

\* The next bulk_size triples, in whatever order they were given.
Batches(w) ==
    {b \in SUBSET todo[w] :
        \/ Cardinality(b) = BulkSize
        \/ b = todo[w] /\ Cardinality(b) < BulkSize}

\* MUTANT of AfterBatch: every batch is committed.
AfterBatchCommitted(batch) == triples \cup batch

\* A batch stays in the session; only transaction() commits.
AfterBatch(batch) == triples

\* One turn of the loop.  A triple that is there already raises.
InsertTriples(w, batch) ==
    /\ op[w] = "insert" /\ todo[w] # {}
    /\ ~Waits(w, batch)
    /\ batch \cap triples = {}
    /\ triples' = AfterBatch(batch)
    /\ todo' = [todo EXCEPT ![w] = @ \ batch]
    /\ UNCHANGED <<asked, op>>

\* The rows that match a pattern.
DeleteTriple(w, ts) ==
    /\ ~Waits(w, triples \cap ts)
    /\ TransactionBegins(w, "delete", triples \cap ts, {})

TransactionOver(w) ==
    /\ op' = [op EXCEPT ![w] = "idle"]
    /\ asked' = [asked EXCEPT ![w] = {}]
    /\ todo' = [todo EXCEPT ![w] = {}]

Commit(w) ==
    /\ op[w] # "idle" /\ todo[w] = {}
    /\ \/ op[w] = "insert" /\ triples' = triples \cup asked[w]
       \/ op[w] = "delete" /\ triples' = triples \ asked[w]
    /\ TransactionOver(w)

\* Any statement of a transaction may raise: a duplicate, the database,
\* Redis, a deadlock the database detects.
Rollback(w) ==
    /\ op[w] # "idle"
    /\ TransactionOver(w)
    /\ UNCHANGED triples

RdfNext ==
    \E w \in Writers :
        \/ \E ts \in SUBSET Triples : InsertBulk(w, ts) \/ DeleteTriple(w, ts)
        \/ \E batch \in Batches(w) : InsertTriples(w, batch)
        \/ Commit(w) \/ Rollback(w)

RdfSpec == RdfInit /\ [][RdfNext]_rdfVars
-----------------------------------------------------------------------------
(* insert_bulk() is one transaction, however many batches it takes,        *)
(* whichever of them fails and whatever other threads insert meanwhile     *)
(* ("ACID transaction context manager", rdf_store.py:127): the triples     *)
(* that become visible in a step are all that one call was given, and it   *)
(* ends with them.                                                         *)
BulkAtomic ==
    [][triples' \ triples # {} =>
          \E w \in Writers :
              op[w] = "insert" /\ op'[w] = "idle" /\ triples' \ triples = asked[w]]_rdfVars
=============================================================================
