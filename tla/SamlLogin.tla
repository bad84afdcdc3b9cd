------------------------------ MODULE SamlLogin ------------------------------
(***************************************************************************)
(* The SAML connection: db/auth_config.py (what is stored), the PUT and    *)
(* DELETE of api/routes/settings.py, api/cognito_saml.py (what the Cognito *)
(* pool and its app client hold), and the seed at API start.               *)
(*                                                                         *)
(* A request writes the rows in its transaction, calls Cognito step by     *)
(* step and commits at its end: an error rolls back the rows and leaves    *)
(* what Cognito has done.  The app client is read, edited and written back *)
(* whole; the installer edits its callback URL too.                        *)
(***************************************************************************)
EXTENDS Naturals

CONSTANTS
    Providers,      \* provider names
    EnvProvider,    \* TG_OIDC_OKTA_PROVIDER_NAME, or NoProvider
    NoProvider,
    SamlRequests,   \* requests in flight at once
    MaxSaml         \* bound on requests, restarts, deploys and faults

ASSUME SamlAssumption == /\ NoProvider \notin Providers
                         /\ EnvProvider \in Providers \cup {NoProvider}
                         /\ "COGNITO" \notin Providers \cup {NoProvider}
                         /\ MaxSaml \in Nat

VARIABLES
    stored,     \* the committed provider name, or NoProvider
    idps,       \* per name, its provider in the pool
    client,     \* the app client: supported providers and callback URL
    edit,       \* per request, its progress
    edited,     \* history: the connection has been changed in Settings
    rough,      \* history: a request failed half way, overlapped another, or
                \* the API started, so stored and pool may have parted
    tries

samlVars == <<stored, idps, client, edit, edited, rough, tries>>
cognito == <<idps, client>>

Ours == SUBSET (Providers \cup {"COGNITO"})
Clients == [supported : Ours, callback : {"old", "current"}]
Steps == {"none", "put", "recreate", "readPut", "writePut", "delete",
          "writeDelete", "deleteIdp", "commit"}

NoEdit == [step |-> "none", name |-> NoProvider, wants |-> NoProvider,
           read |-> [supported |-> {}, callback |-> "current"]]

SamlTypeOK ==
    /\ stored \in Providers \cup {NoProvider}
    /\ idps \in [Providers -> {"absent", "signed", "unsigned"}]
    /\ client \in Clients
    /\ edit \in [SamlRequests -> [step : Steps, name : Providers \cup {NoProvider},
                    wants : Providers \cup {NoProvider}, read : Clients]]
    /\ edited \in BOOLEAN /\ rough \in BOOLEAN
    /\ tries \in 0..MaxSaml

Try == tries < MaxSaml /\ tries' = tries + 1
Quiet == \A q \in SamlRequests : edit[q].step = "none"

\* The rows a request has changed are locked until it ends.
Locked(r) == \E q \in SamlRequests \ {r} :
                edit[q].step # "none" /\ edit[q].wants # NoProvider

To(r, step) == edit' = [edit EXCEPT ![r].step = step]
-----------------------------------------------------------------------------
(* PUT /settings/saml *)

\* set_saml_config validates and flushes the rows.
Put(r, name) ==
    /\ Try
    /\ edit[r].step = "none" /\ ~Locked(r)
    /\ edit' = [edit EXCEPT ![r] = [NoEdit EXCEPT !.step = "put", !.name = name,
                                                 !.wants = name]]
    /\ edited' = TRUE
    /\ rough' = (rough \/ ~Quiet \/ stored \notin {name, NoProvider})
    /\ UNCHANGED <<stored, cognito>>

\* Mutant of Applied: forgets to add the provider to the app client.
AppliedDone == "commit"

\* What follows once the provider is in the pool.
Applied == "readPut"

\* describe, then create or update.  A provider that still signs its requests
\* cannot be updated out of it, and is deleted to be created again.
ApplyProvider(r) ==
    /\ edit[r].step = "put"
    /\ IF idps[edit[r].name] = "signed"
       THEN idps' = [idps EXCEPT ![edit[r].name] = "absent"] /\ To(r, "recreate")
       ELSE idps' = [idps EXCEPT ![edit[r].name] = "unsigned"] /\ To(r, Applied)
    /\ UNCHANGED <<stored, client, edited, rough, tries>>

\* Creating what somebody else has created meanwhile is an error: see FailEdit.
Recreate(r) ==
    /\ edit[r].step = "recreate"
    /\ idps[edit[r].name] = "absent"
    /\ idps' = [idps EXCEPT ![edit[r].name] = "unsigned"]
    /\ To(r, Applied)
    /\ UNCHANGED <<stored, client, edited, rough, tries>>

\* _add_to_app_client: nothing is written when nothing would change.
ReadClient(r) ==
    /\ edit[r].step = "readPut"
    /\ edit' = [edit EXCEPT ![r].read = client,
          ![r].step = IF {"COGNITO", edit[r].name} \subseteq client.supported
                      THEN "commit" ELSE "writePut"]
    /\ UNCHANGED <<stored, cognito, edited, rough, tries>>

\* The password login stays whatever is added.
Supporting(read, name) ==
    [read EXCEPT !.supported = @ \cup {"COGNITO"} \cup
                               (IF name = NoProvider THEN {} ELSE {name})]

\* update_user_pool_client replaces the whole client: what was read of its
\* other fields goes back with it.  Naming a provider the pool does not have
\* is an error.
WriteClient(r) ==
    /\ edit[r].step = "writePut"
    /\ \A name \in Supporting(edit[r].read, edit[r].name).supported \cap Providers :
          idps[name] # "absent"
    /\ client' = Supporting(edit[r].read, edit[r].name)
    /\ To(r, "commit")
    /\ UNCHANGED <<stored, idps, edited, rough, tries>>

-----------------------------------------------------------------------------
(* DELETE /settings/saml *)

Delete(r) ==
    /\ Try
    /\ edit[r].step = "none"
    /\ edit' = [edit EXCEPT ![r] = [NoEdit EXCEPT !.name = stored,
          !.step = IF stored = NoProvider THEN "commit" ELSE "delete"]]
    /\ edited' = TRUE
    /\ rough' = (rough \/ ~Quiet)
    /\ UNCHANGED <<stored, cognito>>

ReadClientToDelete(r) ==
    /\ edit[r].step = "delete"
    /\ edit' = [edit EXCEPT ![r].read =
                    [client EXCEPT !.supported = @ \ {edit[r].name}],
                ![r].step = "writeDelete"]
    /\ UNCHANGED <<stored, cognito, edited, rough, tries>>

WriteClientToDelete(r) ==
    /\ edit[r].step = "writeDelete"
    /\ \A name \in edit[r].read.supported \cap Providers : idps[name] # "absent"
    /\ client' = Supporting(edit[r].read, NoProvider)
    /\ To(r, "deleteIdp")
    /\ UNCHANGED <<stored, idps, edited, rough, tries>>

\* Already gone is success.
DeleteIdp(r) ==
    /\ edit[r].step = "deleteIdp"
    /\ idps' = [idps EXCEPT ![edit[r].name] = "absent"]
    /\ To(r, "commit")
    /\ UNCHANGED <<stored, client, edited, rough, tries>>

-----------------------------------------------------------------------------
(* Both *)

\* The handler returns: PUT commits its rows, DELETE removes them first, once
\* no other request holds them.
CommitEdit(r) ==
    /\ edit[r].step = "commit"
    /\ edit[r].wants = NoProvider => ~Locked(r)
    /\ stored' = edit[r].wants
    /\ edit' = [edit EXCEPT ![r] = NoEdit]
    /\ UNCHANGED <<cognito, edited, rough, tries>>

\* Cognito refuses a call, or the process dies: the rows roll back.
FailEdit(r) ==
    /\ edit[r].step # "none"
    /\ edit' = [edit EXCEPT ![r] = NoEdit]
    /\ rough' = TRUE
    /\ UNCHANGED <<stored, cognito, edited, tries>>

\* seed_saml_config_from_env: only when no provider name is stored.
Seed == IF stored = NoProvider THEN EnvProvider ELSE stored

SamlStart ==
    /\ Try
    /\ Quiet
    /\ stored' = Seed
    /\ rough' = (rough \/ stored' # stored)
    /\ UNCHANGED <<cognito, edit, edited>>

\* The installer points the client's callback at the current load balancer.
Deploy ==
    /\ Try
    /\ client' = [client EXCEPT !.callback = "current"]
    /\ UNCHANGED <<stored, idps, edit, edited, rough>>

\* An installation federated by its environment has that provider in the pool,
\* perhaps signing; another starts with passwords only.  The load balancer may
\* have moved since the client was last written.
SamlInit ==
    /\ stored = EnvProvider
    /\ idps \in {f \in [Providers -> {"absent", "signed", "unsigned"}] :
                    \A name \in Providers : f[name] # "absent" <=> name = EnvProvider}
    /\ client \in [supported : {{"COGNITO", EnvProvider} \ {NoProvider}},
                   callback : {"old", "current"}]
    /\ edit = [r \in SamlRequests |-> NoEdit]
    /\ edited = FALSE /\ rough = FALSE /\ tries = 0

SamlStep(r) ==
    \/ ApplyProvider(r) \/ Recreate(r) \/ ReadClient(r) \/ WriteClient(r)
    \/ ReadClientToDelete(r) \/ WriteClientToDelete(r) \/ DeleteIdp(r)
    \/ CommitEdit(r)

SamlNext ==
    \/ SamlStart \/ Deploy
    \/ \E r \in SamlRequests :
          SamlStep(r) \/ FailEdit(r) \/ Delete(r) \/ \E name \in Providers : Put(r, name)

SamlSpec == SamlInit /\ [][SamlNext]_samlVars

-----------------------------------------------------------------------------
(* Properties *)

\* settings.py:555-607: after requests that ran to their end, one at a time,
\* the stored provider is the one the pool has and the login page may use, and
\* without a stored provider the pool has none.  A rename, a failure, an
\* overlap and the seed after a DELETE may part them.
StoredIsLive ==
    Quiet /\ ~rough =>
       \A name \in Providers :
          /\ (name = stored) <=> (idps[name] # "absent")
          /\ (name = stored) <=> (name \in client.supported)

\* cognito_saml.py:281-284: through every overlap and half-done change the
\* password login remains on the app client.
PasswordLoginStays == "COGNITO" \in client.supported

\* What the login page relies on: that what is stored is live, and that the
\* password login is offered whatever happened.
LoginPage == StoredIsLive /\ PasswordLoginStays

\* auth_config.py:230-236: "runtime config is authoritative thereafter.
\* Insert-if-absent: never overwrites an admin's later change".
RuntimeConfigRules == [][ SamlStart /\ edited => stored' = stored ]_samlVars
=============================================================================
