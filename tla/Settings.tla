------------------------------ MODULE Settings -----------------------------
(***************************************************************************)
(* The configuration (src/src/config.py): eight optional sections, each    *)
(* read from its slice of the environment.  A section is absent,           *)
(* configured, or refused, which ends the program.  Python tells apart a   *)
(* variable that is not set (None), one set to the empty string (falsy,    *)
(* but not None) and one with a value, and the sections test now one, now  *)
(* the other.                                                              *)
(***************************************************************************)

Variables ==
    {"source", "jev_api_key", "jev_base_url", "database_url",
     "graph_tenant_id", "graph_client_id", "graph_client_secret",
     "graph_use_managed_identity", "queue_name", "queue_connection_string",
     "queue_account_url", "queue_use_managed_identity", "walker_drive_id",
     "walker_time_budget_seconds", "processor_category_file",
     "filesystem_root", "blob_account_url", "blob_container"}

\* Variables whose type refuses the empty string and other values: a URL, a
\* flag, a positive number, one of the three sources.
Typed == {"source", "jev_base_url", "graph_use_managed_identity",
          "queue_use_managed_identity", "walker_time_budget_seconds"}

Sources == {"sharepoint", "filesystem", "blob"}

\* "bad": a value the type of the variable refuses;  a flag that is "set" is true.
Values(v) ==
    IF v = "source" THEN Sources \cup {"unset", "blank", "bad"}
    ELSE {"unset", "blank", "set"} \cup (IF v \in Typed THEN {"bad"} ELSE {})

Environments == {e \in [Variables -> Sources \cup {"unset", "blank", "set", "bad"}] :
                    \A v \in Variables : e[v] \in Values(v)}

Given(e, v)  == e[v] # "unset"          \* is not None
Truthy(e, v) == e[v] = "set"            \* neither None nor empty
Invalid(e, v) == v \in Typed /\ e[v] \in {"blank", "bad"}

Source(e) == IF Given(e, "source") THEN e["source"] ELSE "sharepoint"

----------------------------------------------------------------------------
JevConfigured(e) == Given(e, "jev_api_key") /\ Given(e, "jev_base_url")

JevRefused(e) ==
    \/ Invalid(e, "jev_base_url")
    \/ /\ Truthy(e, "jev_api_key") \/ Truthy(e, "jev_base_url")
       /\ ~JevConfigured(e)

DatabaseConfigured(e) == Given(e, "database_url")

GraphTrio == {"graph_tenant_id", "graph_client_id", "graph_client_secret"}

GraphConfigured(e) ==
    \/ Truthy(e, "graph_use_managed_identity")
    \/ \A v \in GraphTrio : Truthy(e, v)

GraphRefused(e) ==
    \/ Invalid(e, "graph_use_managed_identity")
    \/ ~GraphConfigured(e) /\ \E v \in GraphTrio : Truthy(e, v)

\* Mutant: the flag alone counts as a way to authenticate.
QueueConfiguredByFlag(e) ==
    /\ Given(e, "queue_name")
    /\ \/ Given(e, "queue_connection_string")
       \/ Truthy(e, "queue_use_managed_identity")

QueueConfigured(e) ==
    /\ Given(e, "queue_name")
    /\ \/ Given(e, "queue_connection_string")
       \/ Truthy(e, "queue_use_managed_identity") /\ Given(e, "queue_account_url")

QueueRefused(e) ==
    \/ Invalid(e, "queue_use_managed_identity")
    \/ /\ ~QueueConfigured(e)
       /\ \E v \in {"queue_name", "queue_connection_string", "queue_account_url",
                    "queue_use_managed_identity"} : Truthy(e, v)

WalkerConfigured(e) == Given(e, "walker_drive_id")
WalkerRefused(e)    == Invalid(e, "walker_time_budget_seconds")

ProcessorConfigured(e)  == Given(e, "processor_category_file")
FilesystemConfigured(e) == Given(e, "filesystem_root")

\* No validator here: half a blob section is an absent one.
BlobConfigured(e) == Given(e, "blob_account_url") /\ Given(e, "blob_container")

\* Every section is loaded, whichever of them the program needs.
SettingsRefused(e) ==
    \/ Invalid(e, "source") \/ JevRefused(e) \/ GraphRefused(e)
    \/ QueueRefused(e) \/ WalkerRefused(e)
============================================================================
