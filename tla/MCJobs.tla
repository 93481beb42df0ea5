------------------------------- MODULE MCJobs ------------------------------
(***************************************************************************)
(* Inputs for Jobs: environments that vary one section at a time, category *)
(* files of every shape up to a length, and batch runs over a few files.   *)
(***************************************************************************)
EXTENDS Jobs, TLC

MCNames == {"Invoice", "invoice", "contract", "Unknown", "unknown"}
MCLower == "Invoice" :> "invoice" @@ "Unknown" :> "unknown" @@ [n \in MCNames |-> n]

\* 1, 2 and 3 are what the batch runs are about, and 3 is the output; the rest are
\* there for their suffixes.
MCSuffix == <<".pdf", ".yaml", ".csv", ".docx", ".txt", ".json", ".yml", ".md",
              ".xml", ".doc">>

MCResponses ==
    {Failure} \cup
    {[choice |-> c, probability |-> p] : c \in {"Invoice"}, p \in {100, 101, NaN}}
    \cup {[choice |-> "unknown", probability |-> p] : p \in {0, -1, NoProbability}}
    \cup {[choice |-> "outside", probability |-> 50]}

----------------------------------------------------------------------------
SectionsVaried ==
    {{"jev_api_key", "jev_base_url"}, {"database_url"},
     GraphTrio \cup {"graph_use_managed_identity"},
     {"queue_name", "queue_connection_string", "queue_account_url",
      "queue_use_managed_identity"},
     {"walker_drive_id", "walker_time_budget_seconds"},
     {"processor_category_file"}, {"filesystem_root"},
     {"blob_account_url", "blob_container"}}

\* Everything is given, with or without managed identity.
Base(source, flags) ==
    [v \in Variables |->
        IF v = "source" THEN source
        ELSE IF v \in {"graph_use_managed_identity", "queue_use_managed_identity"}
             THEN flags ELSE "set"]

Varied(e, vs) ==
    {[v \in Variables |-> IF v \in vs THEN x[v] ELSE e[v]] :
        x \in {y \in [vs -> {"unset", "blank", "set", "bad"}] :
                  \A v \in vs : y[v] \in Values(v)}}

MCEnvironments ==
    UNION {Varied(Base(source, flags), vs) :
        source \in Values("source"), flags \in {"unset", "set"}, vs \in SectionsVaried}

AllSet   == Base("unset", "set")
OneKind  == <<"Invoice", "bullet">>

SeqsUpTo(S, n) == UNION {[1 .. m -> S] : m \in 0 .. n}

Starts ==
    [program : Programs, env : MCEnvironments, lines : {OneKind}, files : {{}}]

Parses ==
    [program : {"classify"}, env : {AllSet}, files : {{}},
     lines : SeqsUpTo(Lines, 4) \cup
             [1 .. 6 -> {"Invoice", "contract", "unknown", "bullet"}]]

Batches ==
    [program : {"classify"}, env : {AllSet}, lines : {OneKind},
     files : {{1, 2, 3}} \cup {{f} : f \in DOMAIN MCSuffix}]

MCInputs == Starts \cup Parses \cup Batches
============================================================================
