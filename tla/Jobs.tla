-------------------------------- MODULE Jobs -------------------------------
(***************************************************************************)
(* The three programs from their start to their work: the batch command    *)
(* (src/src/main.py), the walker and the processor.  Each loads the        *)
(* settings and builds what it needs, in its own order; the batch command  *)
(* is followed to its end, and may be run again over the files and the     *)
(* output the last run left.  An AppError or a ValidationError becomes     *)
(* exit code 1; anything else is raised out of the program.                *)
(***************************************************************************)
EXTENDS CategoryFile, Settings, Extraction, Jev

CONSTANTS
    Inputs,         \* the inputs a behaviour may start from
    Suffix,         \* Suffix[f]: the suffix of file f, in lower case
    OutputFile,     \* the file of the source the output is written to, or 0
    Lengths,        \* lengths of a document's text
    Responses,      \* what the inference service may answer
    MaxRuns         \* bound: runs of the program in a behaviour

Programs == {"classify", "walker", "processor"}

\* What a document is classified as, where it is.
Labels == [category : Names, confidence : 0 .. 100]

\* files: the files the source of the batch command may hold, numbered in the
\* order of their names.
ASSUME JobsAssumption ==
    /\ \A input \in Inputs :
          /\ input.program \in Programs /\ input.env \in Environments
          /\ input.lines \in Seq(Lines)
          /\ input.files \subseteq DOMAIN Suffix /\ IsFiniteSet(input.files)
    /\ DOMAIN Suffix \subseteq Nat /\ OutputFile \in Nat /\ MaxRuns \in Nat
    /\ Lengths \subseteq Nat /\ ClassificationError \notin Labels

VARIABLES
    input,          \* the program, its environment, category file and source
    pc,             \* the next thing the program does, or how it ended
    listing,        \* the documents enumerated
    results,        \* the rows collected for the output
    answers,        \* history: what extraction and the service said, in order
    output,         \* the output file
    before,         \* history: the output when the run began
    runs            \* runs so far

batchVars == <<listing, results, answers, output>>
vars == <<file, parse, input, pc, batchVars, before, runs>>

NoOutput == [rows |-> <<>>, whole |-> FALSE, exists |-> FALSE]

Ended == pc \in {"exit0", "exit1", "raised", "killed", "work"}

Init ==
    /\ input \in Inputs
    /\ file = input.lines /\ parse = NoParse
    /\ pc = "settings"
    /\ listing = <<>> /\ results = <<>> /\ answers = <<>>
    /\ output = NoOutput /\ before = NoOutput
    /\ runs = 1

env == input.env

GoOn(next) ==
    /\ pc' = next
    /\ UNCHANGED <<file, parse, input, batchVars, before, runs>>

----------------------------------------------------------------------------
\* Settings(): every section is loaded.
LoadSettings ==
    /\ pc = "settings"
    /\ GoOn(IF SettingsRefused(env) THEN "exit1"
            ELSE CASE input.program = "classify"  -> "categories"
                   [] input.program = "processor" -> "needs"
                   [] input.program = "walker"    -> "source")

\* The processor finds its category file through its settings.
NeedCategoryFile ==
    /\ pc = "needs"
    /\ GoOn(IF ProcessorConfigured(env) THEN "categories" ELSE "raised")

\* The file cannot be read or is not UTF-8; an empty path is a directory.
ReadFails ==
    /\ pc = "categories" /\ parse = NoParse
    /\ GoOn("exit1")

Categories ==
    /\ pc = "categories"
    /\ input.program = "processor" => Truthy(env, "processor_category_file")
    /\ ParseStep
    /\ UNCHANGED <<input, pc, batchVars, before, runs>>

CategoriesDone ==
    /\ pc = "categories" /\ ParseEnded
    /\ GoOn(IF parse.pc = "parsed" THEN "classifier" ELSE "exit1")

\* create_classifier enforces the credentials the settings do not.
BuildClassifier ==
    /\ pc = "classifier"
    /\ GoOn(IF ~JevConfigured(env) THEN "raised"
            ELSE IF input.program = "classify" THEN "list" ELSE "source")

\* _run_*_walk and _process_via_*: the section the source needs.  The library's
\* container client refuses an empty URL or name.
SourceConfigured ==
    CASE Source(env) = "filesystem" -> FilesystemConfigured(env)
      [] Source(env) = "blob" ->
            /\ BlobConfigured(env)
            /\ Truthy(env, "blob_account_url") /\ Truthy(env, "blob_container")
      [] Source(env) = "sharepoint" ->
            input.program = "walker" => WalkerConfigured(env)

BindSource ==
    /\ pc = "source"
    /\ GoOn(IF SourceConfigured THEN "clients" ELSE "raised")

\* The credential the queue client is built from.
QueueBackend ==
    IF Given(env, "queue_connection_string") THEN "queue_connection_string"
    ELSE "queue_account_url"

\* Mutant: the database is not asked for before the work begins.
ClientsBuildLazily ==
    /\ Source(env) = "sharepoint" => GraphConfigured(env)
    /\ QueueConfigured(env)
    /\ Truthy(env, "queue_name") /\ Truthy(env, QueueBackend)

\* The clients are built in turn: Graph where it is the source, the queue, the
\* database.  The libraries refuse an empty name, URL or connection string.
ClientsBuild ==
    /\ Source(env) = "sharepoint" => GraphConfigured(env)
    /\ QueueConfigured(env)
    /\ Truthy(env, "queue_name") /\ Truthy(env, QueueBackend)
    /\ DatabaseConfigured(env) /\ Truthy(env, "database_url")

BuildClients ==
    /\ pc = "clients"
    /\ GoOn(IF ClientsBuild THEN "work" ELSE "raised")

----------------------------------------------------------------------------
Supported(f) == Suffix[f] \in SupportedSuffixes

\* The source is not there.
SourceMissing ==
    /\ pc = "list"
    /\ GoOn("exit1")

\* sorted(): the files in the order of their names.
Sorted(fs) ==
    {s \in [1 .. Cardinality(fs) -> fs] : \A i, j \in DOMAIN s : i < j => s[i] < s[j]}

\* documents(): one file, or everything under a directory in sorted order.  An
\* earlier run's output is a file like the others.
ListDocuments ==
    /\ pc = "list"
    /\ \E present \in SUBSET (input.files \ {OutputFile}) :
          LET all == present \cup (IF output.exists THEN {OutputFile} \cap input.files
                                   ELSE {}) IN
          listing' \in Sorted({f \in all : Supported(f)})
    /\ pc' = "documents"
    /\ UNCHANGED <<file, parse, input, results, answers, output, before, runs>>

\* A text of some length and the service's response, or a failed extraction.
Unread  == [length |-> 0, response |-> Failure, read |-> FALSE]
Answers == {Unread} \cup
           [length : Lengths, response : Responses, read : {TRUE}]

Classified(answer) ==
    IF answer.read THEN Classify(answer.length, answer.response, EnumValues)
    ELSE ClassificationError

\* The next document, extracted and classified; one that fails is skipped.
ClassifyDocument ==
    /\ pc = "documents" /\ Len(answers) < Len(listing)
    /\ \E answer \in Answers :
          /\ answers' = Append(answers, answer)
          /\ results' =
                IF Classified(answer) = ClassificationError THEN results
                ELSE Append(results, [filename |-> listing[Len(answers) + 1],
                                      label |-> Classified(answer)])
    /\ UNCHANGED <<file, parse, input, pc, listing, output, before, runs>>

EndDocuments ==
    /\ pc = "documents" /\ Len(answers) = Len(listing)
    /\ GoOn("write")

\* The directory cannot be made or the file not opened (OutputError).
OpenFails ==
    /\ pc = "write"
    /\ GoOn("exit1")

\* Mutant: the output is opened before the documents are classified.
OpenOutputEarly ==
    /\ pc = "documents"
    /\ output' = [rows |-> <<>>, whole |-> FALSE, exists |-> TRUE]
    /\ pc' = "rows"
    /\ UNCHANGED <<file, parse, input, listing, results, answers, before, runs>>

\* open("w") empties the file.
OpenOutput ==
    /\ pc = "write"
    /\ output' = [rows |-> <<>>, whole |-> FALSE, exists |-> TRUE]
    /\ pc' = "rows"
    /\ UNCHANGED <<file, parse, input, listing, results, answers, before, runs>>

WriteRows ==
    /\ pc = "rows"
    /\ output' = [output EXCEPT !.rows = results, !.whole = TRUE]
    /\ pc' = "exit0"
    /\ UNCHANGED <<file, parse, input, listing, results, answers, before, runs>>

\* The disk is full (OutputError), a file name has no UTF-8 form (a ValueError), or
\* the program is killed: some of the rows are written.
WriteStops ==
    /\ pc = "rows"
    /\ \E n \in 0 .. Len(results) :
          output' = [output EXCEPT !.rows = SubSeq(results, 1, n)]
    /\ pc' \in {"exit1", "raised", "killed"}
    /\ UNCHANGED <<file, parse, input, listing, results, answers, before, runs>>

\* The program is killed anywhere else.
Killed ==
    /\ ~Ended /\ pc # "rows"
    /\ GoOn("killed")

RunAgain ==
    /\ Ended /\ input.program = "classify" /\ runs < MaxRuns
    /\ pc' = "settings" /\ parse' = NoParse
    /\ listing' = <<>> /\ results' = <<>> /\ answers' = <<>>
    /\ before' = output
    /\ runs' = runs + 1
    /\ UNCHANGED <<file, input, output>>

Next ==
    \/ LoadSettings \/ NeedCategoryFile \/ ReadFails \/ Categories
    \/ CategoriesDone \/ BuildClassifier \/ BindSource \/ BuildClients
    \/ SourceMissing \/ ListDocuments \/ ClassifyDocument \/ EndDocuments
    \/ OpenFails \/ OpenOutput \/ WriteRows \/ WriteStops
    \/ Killed \/ RunAgain

Spec == Init /\ [][Next]_vars

(***************************************************************************)
(* Properties                                                              *)
(***************************************************************************)

\* The documents the service gave an answer for that can be believed.
Answered ==
    {k \in DOMAIN answers :
        LET a == answers[k] IN
        /\ a.read /\ a.length <= MaxInputChars
        /\ a.response.choice \in EnumValues
        /\ Valid(a.response.probability)}

\* A row about the document at k, in the place it has among the answered ones.
RowOf(k) == [filename |-> listing[k],
             label |-> [category |-> answers[k].response.choice,
                        confidence |-> answers[k].response.probability]]

PlaceOf(k) == Cardinality({j \in Answered : j <= k})

\* The output of a run that exits with 0 has one row for every listed document
\* that was read and answered with a label from the category file, in the order of
\* the listing; whatever a failed or killed run leaves is the beginning of that
\* (classify_documents, write_results_csv).
OutputIsTheBatch ==
    /\ output # before =>
          /\ Len(output.rows) <= Cardinality(Answered)
          /\ \A k \in Answered :
                PlaceOf(k) <= Len(output.rows) => output.rows[PlaceOf(k)] = RowOf(k)
    /\ pc = "exit0" => output.whole /\ Len(output.rows) = Cardinality(Answered)

\* An earlier run's output is only lost to a run that parsed its category file and
\* got through every document of its listing: the file is opened last (main.run).
OldOutputIsKept ==
    output # before =>
        parse.pc = "parsed" /\ Len(answers) = Len(listing)

\* A job that reaches its work, where the processor receives its message and the
\* walker marks its row, has what it will ask of its settings; with something
\* missing it stops before it touches the queue or the database (walker.run,
\* processor.run).
StartedIsConfigured ==
    pc = "work" =>
        /\ Truthy(env, "database_url") /\ Truthy(env, "queue_name")
        /\ \/ Truthy(env, "queue_connection_string")
           \/ /\ Truthy(env, "queue_use_managed_identity")
              /\ Truthy(env, "queue_account_url")
        /\ CASE Source(env) = "sharepoint" ->
                  /\ \/ Truthy(env, "graph_use_managed_identity")
                     \/ \A v \in GraphTrio : Truthy(env, v)
                  /\ input.program = "walker" => Given(env, "walker_drive_id")
             [] Source(env) = "filesystem" -> Given(env, "filesystem_root")
             [] Source(env) = "blob" ->
                  Truthy(env, "blob_account_url") /\ Truthy(env, "blob_container")
        /\ input.program = "processor" =>
              /\ parse.pc = "parsed"
              /\ Given(env, "jev_api_key") /\ Truthy(env, "jev_base_url")

\* The client builders take a configured section's credential without asking again:
\* "is_configured guarantees an account URL here" (message_queue._build_backend),
\* "GraphSettings validation already guarantees this" (_build_credential).
CredentialsAreGuaranteed ==
    pc = "clients" =>
        /\ QueueConfigured(env) => Given(env, "queue_name") /\ Given(env, QueueBackend)
        /\ GraphConfigured(env) /\ ~Truthy(env, "graph_use_managed_identity")
              => \A v \in GraphTrio : Given(env, v)

\* Every listed document has an extractor, and the same one whether the batch
\* command goes by its suffix or the processor by the type a walker gave it.
RoutesAgree ==
    \A k \in DOMAIN listing :
        LET s == Suffix[listing[k]] IN
        BySuffix(s) # NoExtractor /\ ByMime(MimeFor(s)) = BySuffix(s)

\* main.py: "convert any domain failure - or a missing/invalid setting such as
\* CLASSIFIER__JEV_API_KEY - into a clean, logged exit code".
FailureIsAnExitCode == input.program = "classify" => pc # "raised"
============================================================================
