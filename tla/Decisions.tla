----------------------------- MODULE Decisions -----------------------------
(***************************************************************************)
(* The pure decisions between the concurrent parts, each asked about every *)
(* input of a bounded family: one step hands one family one input, and an  *)
(* invariant per family compares what the code's algorithm answers with    *)
(* what the answer promises.  A provider's wire arrives event by event.    *)
(***************************************************************************)
EXTENDS Assembly, Search, Grants, Scoring, Packing, ImportFile

CONSTANTS BlockBound,    \* events of an Anthropic turn
          DeltaBound,    \* deltas of an OpenAI turn
          LineBound,     \* lines of an uploaded file
          Limits,        \* top_k and limit as a model asks for them
          Targets,       \* tokens a chunk may have
          Overlaps       \* per cent of a chunk that overlaps the one before it

ASSUME BoundsAssumption == {BlockBound, DeltaBound, LineBound} \subseteq Nat
ASSUME SizesAssumption == Limits \subseteq Int /\ Targets \subseteq Nat \ {0} /\ Overlaps \subseteq 0..100

VARIABLE asked    \* the family and the input under question

Init == asked = [family |-> "none"]
Idle == asked.family = "none"

AskAnthropic ==
    \/ Idle /\ asked' = [family |-> "anthropic", wire |-> <<>>]
    \/ /\ asked.family = "anthropic" /\ Len(asked.wire) < BlockBound
       /\ \E e \in BlockEvents(Len(asked.wire) + 1) :
            asked' = [asked EXCEPT !.wire = Append(asked.wire, e)]

AskOpenAI ==
    \/ Idle /\ asked' = [family |-> "openai", wire |-> <<>>]
    \/ /\ asked.family = "openai" /\ Len(asked.wire) < DeltaBound
       /\ \E e \in Deltas(Len(asked.wire) + 1) :
            asked' = [asked EXCEPT !.wire = Append(asked.wire, e)]

AskSearch ==
    /\ Idle
    /\ \E rows \in Corpora, n \in Limits :
         \/ \E floor \in {0, 2} :
              asked' = [family |-> "search", q |-> KnowledgeQuery(rows, n, floor)]
         \/ \E distance \in {NoFloor, 3}, floor \in {NoFloor, 2} :
              asked' = [family |-> "search", q |-> ProductQuery(rows, n, distance, floor)]

AskGrants ==
    Idle /\ \E tools \in ToolTables : asked' = [family |-> "grants", tools |-> tools]

AskScore ==
    /\ Idle
    /\ \E c \in EvalCases, o \in Observations, j \in Judges :
         asked' = [family |-> "score", c |-> c, o |-> o, j |-> j]

AskChunks ==
    /\ Idle
    /\ \E doc \in Documents, t \in Targets, p \in Overlaps :
         asked' = [family |-> "chunks", doc |-> doc, target |-> t, percent |-> p]

AskFile ==
    Idle /\ \E f \in Files(LineBound) : asked' = [family |-> "file", file |-> f]

Next == AskAnthropic \/ AskOpenAI \/ AskSearch \/ AskGrants \/ AskScore \/ AskChunks \/ AskFile

Spec == Init /\ [][Next]_asked

-----------------------------------------------------------------------------
(* Invariants. *)

\* However the fragments of two calls interleave, an adapter delivers exactly the
\* calls the wire closed with arguments that parse, each with its own fragments
\* in order (an OpenAI turn of which one does not parse raises there); a turn is
\* empty exactly if no text came and its reason excuses none
\* (anthropic_provider.py and openai_provider.py, _stream).
CallsAreWhole ==
    /\ asked.family = "anthropic" => AnthropicIsFaithful(asked.wire)
    /\ asked.family = "openai" => OpenAIIsFaithful(asked.wire)

\* Every answer search may give holds as many relevant rows as fit and no other,
\* none twice, and a row both retrievers found, or found ahead on both lists,
\* comes first (rag/retrieve.py, rag/products.py, core/rrf.py).
AnswersAreSound ==
    asked.family = "search" => \A a \in Answers(asked.q) : AnswerIsSound(asked.q, a)

\* The dashboard shows no tool on that chat refuses, its toggle is what chat does
\* next, and neither chat nor MCP runs a tool that is switched off
\* (tools/runtime.py, agents/service.py, db/builtin_tools.py, mcp/server.py).
GrantsFollowTheToggle == asked.family = "grants" => GrantsAreSound(asked.tools)

\* A case passes exactly if each of its expectations was measured and met by a
\* turn that did not fail, and a known cost is the cost of the usage rows written
\* (evaluations/scorers.py, judge.py, runner.py).
VerdictsAreEarned ==
    asked.family = "score" =>
       /\ VerdictIsEarned(asked.c, asked.o, asked.j)
       /\ \A turn \in TurnUsages, priced \in BOOLEAN :
            CostIsBilled(asked.c, asked.o, asked.j, turn, priced)

\* The chunks of a document cover it, in order, with no sentence lost to the
\* packing or the overlap and none of them over its size for want of a cut, and
\* the batches embed each of them once (rag/chunk.py, embeddings/batch.py).
ChunksTileTheText ==
    asked.family = "chunks" =>
       \A chunks \in {ChunkDocument(asked.doc, asked.target, asked.percent)} :
          /\ ChunksTile(asked.doc, chunks, asked.target, asked.percent)
          /\ \A size \in 1..3 : BatchesCover(chunks, size)

\* Every filled line of a catalogue file is imported or reported, once, and of
\* the rows of one external_id the last one (products/importer.py).
LinesAreAccountedFor == asked.family = "file" => EveryLineIsAccountedFor(asked.file)

-----------------------------------------------------------------------------
(* What the code says of itself and does not keep; see the README. *)

\* tools/products.py, _SHARP_LEADER_NOTE: the top results in this list have a
\* vector_distance clearly separated from the rest.
SharpNoteNamesTheTop ==
    asked.family = "search" =>
       \A a \in Answers(asked.q) :
          MatchShapeNote(asked.q, a) = "sharp" =>
             \A r \in ToSet(a.vector) : asked.q.rows[a.list[1]].dist <= asked.q.rows[r].dist

\* agents/service.py, list_tools: its flag is exactly what the resolver requires.
ScreenIsTheResolver == asked.family = "grants" => ScreenAgreesWithGrants(asked.tools)

\* products/importer.py, RowError: the number a reader of the file would point at.
RowNumbersPointAtTheFile == asked.family = "file" => RowNumbersAreTheFiles(asked.file)

=============================================================================
