------------------------------ MODULE ConfigFiles ------------------------------
(***************************************************************************)
(* Where the settings come from (config/settings.py, config/paths.py) and  *)
(* what the admin page writes (api/admin_config.py, api/admin_routes.py):  *)
(* a repo's .env below the managed file of the active profile, below an    *)
(* explicit file, below the process environment; and the server that loads *)
(* them, caches them, and is started again for some changes                *)
(* (cli/entrypoints.py).  A file is a function from the fields it sets.    *)
(* Nothing but the admin page changes a file here, and its posts run from  *)
(* the first read of the files to the last write without an await.         *)
(***************************************************************************)
EXTENDS Naturals, Functions

CONSTANTS ConfigField,  \* FIELDS of the manifest
          Secret,       \* ... that are masked on the page
          Restarting,   \* ... that are restart_required or session_sensitive
          AuthToken,    \* ... whose value in a file beats the environment
          Template,     \* .env.example
          ManifestDefault, \* ConfigFieldSpec.default
          BuiltIn,      \* the defaults of Settings
          Profile,      \* names of profiles beside "default"
          Outside,      \* what the page does not change: see outside
          Updates,      \* what is posted to the page
          WriteMax      \* bound: how often the page writes

Masked == "********"
Invalid == "invalid" \* a value that Settings refuses

NoFile == [f \in {} |-> ""]

ASSUME ConfigAssumption ==
    /\ Secret \cup Restarting \cup {AuthToken} \cup DOMAIN Template \subseteq ConfigField
    /\ {DOMAIN ManifestDefault, DOMAIN BuiltIn} = {ConfigField}
    /\ "default" \notin Profile
    /\ \A u \in Updates : DOMAIN u \subseteq ConfigField
    /\ WriteMax \in Nat

VARIABLES outside,      \* the repo's and the explicit file, the environment, a legacy file,
                        \* and whether serve() runs the server
          managed,      \* the managed files that exist
          profile,      \* active_profile.txt, with ACTIVE_PROFILE
          imported,     \* the profile whose file Settings.model_config names
          cached,       \* get_settings' cache
          started,      \* the settings the server was started with
          restart_requested,      \* a restart has been asked for
          pending_fields,      \* app.state.admin_pending_fields
          writes,       \* number of writes so far
          last          \* history: the write that was the last step

configVars == <<outside, managed, profile, imported, cached, started, restart_requested,
                pending_fields, writes, last>>

NotCached == [f \in {} |-> ""]
NoWrite == [before |-> NoFile, updates |-> NoFile, file |-> NoFile]

Over(upper, lower) ==
    [f \in DOMAIN upper \cup DOMAIN lower |-> IF f \in DOMAIN upper THEN upper[f] ELSE lower[f]]

File(p) == IF p \in DOMAIN managed THEN managed[p] ELSE NoFile

TemplateValues == Over(Template, ManifestDefault)

(* What the admin page shows: _load_value_state. *)
InFiles(p) == Over(outside.explicit, Over(File(p), outside.repo))
Shown == Over(outside.process, Over(InFiles(profile), TemplateValues))
Locked == DOMAIN outside.process \cup DOMAIN outside.explicit

\* prefer_dotenv_anthropic_auth_token: a file decides the token.
WithDotenvToken(values, p) ==
    IF AuthToken \in DOMAIN InFiles(p)
    THEN [values EXCEPT ![AuthToken] = InFiles(p)[AuthToken]]
    ELSE values

\* Settings()
Loaded(p) == WithDotenvToken(Over(outside.process, Over(InFiles(p), BuiltIn)), p)

InUse == IF cached = NotCached THEN Loaded(imported) ELSE cached

\* serve() before each start: _migrate_legacy_env_if_missing, or the template.
Initialised(p) ==
    IF p \in DOMAIN managed \/ ~outside.supervised THEN managed
    ELSE Over([q \in {p} |-> IF outside.legacy # NoFile THEN outside.legacy ELSE Template], managed)

\* The server starts and loads its settings, which the process has just
\* imported or imported long ago.
StartServer(p) ==
    /\ UNCHANGED <<outside, profile, writes>>
    /\ managed' = Initialised(profile)
    /\ imported' = p
    /\ started' = Loaded(p)'
    /\ cached' = started'
    /\ restart_requested' = FALSE
    /\ pending_fields' = {}
    /\ last' = NoWrite

ConfigInit ==
    /\ outside \in Outside
    /\ profile = "default"
    /\ imported = profile
    /\ managed = (IF ~outside.supervised THEN NoFile
                  ELSE [p \in {"default"} |-> IF outside.legacy # NoFile THEN outside.legacy ELSE Template])
    /\ started = Loaded(imported)
    /\ cached = started
    /\ restart_requested = FALSE
    /\ pending_fields = {}
    /\ writes = 0
    /\ last = NoWrite

-----------------------------------------------------------------------------
(* The admin page. *)

\* A slip that starts the first file from the template.
Kept_Template == Over(File(profile), TemplateValues)

\* The managed file's values; an empty one starts with what is in force, but
\* for what another source has locked.
Kept ==
    IF File(profile) # NoFile THEN Over(File(profile), TemplateValues)
    ELSE Over(Restrict(Shown, ConfigField \ Locked), TemplateValues)

\* _target_values_with_updates
Taken(u) == {f \in DOMAIN u \ Locked : ~(f \in Secret /\ u[f] = Masked)}

Target(u) == Over(Restrict(u, Taken(u)), Kept)

\* _effective_values_for_validation and validate_values
Valid(u) == \A f \in ConfigField \ Locked : Target(u)[f] # Invalid

\* changed_pending_fields
Pending(u) == {f \in DOMAIN u \cap Restarting : u[f] # Shown[f]}

\* write_managed_env: every field of the manifest is written.
Write(u) ==
    /\ writes < WriteMax
    /\ Valid(u)
    /\ managed' = Over([p \in {profile} |-> Target(u)], managed)
    /\ writes' = writes + 1
    /\ last' = [before |-> Shown, updates |-> u, file |-> File(profile)]
    /\ UNCHANGED <<outside, profile, imported, started>>

\* apply_admin_config
ApplyConfig(u) ==
    /\ Write(u)
    /\ cached' = NotCached
    /\ IF outside.supervised /\ Pending(u) # {}
       THEN restart_requested' = TRUE /\ pending_fields' = {}
       ELSE pending_fields' = Pending(u) /\ UNCHANGED restart_requested

ImportConfig_KeepsCache(u) ==
    /\ Write(u)
    /\ UNCHANGED <<cached, restart_requested, pending_fields>>

\* import_config tells of fields that need a restart, but asks for none.
ImportConfig(u) ==
    /\ Write(u)
    /\ cached' = NotCached
    /\ UNCHANGED <<restart_requested, pending_fields>>

\* switch_profile: a new profile has an empty file.
SwitchProfile(p) ==
    /\ profile' = p
    /\ managed' = IF p = "default" \/ p \in DOMAIN managed THEN managed
                  ELSE Over([q \in {p} |-> NoFile], managed)
    /\ cached' = NotCached
    /\ restart_requested' = (restart_requested \/ outside.supervised)
    /\ last' = NoWrite
    /\ UNCHANGED <<outside, imported, started, pending_fields, writes>>

(* The server. *)

\* A request, or anything else that calls get_settings.
UseSettings ==
    /\ cached = NotCached
    /\ cached' = Loaded(imported)
    /\ last' = NoWrite
    /\ UNCHANGED <<outside, managed, profile, imported, started, restart_requested, pending_fields, writes>>

\* The loop of serve(): the process goes on, with the class it has imported.
ServeAgain == restart_requested /\ StartServer(imported)

\* The process ends, in whatever way, and is started again.
StartProcess == StartServer(profile)

ConfigNext ==
    \/ \E u \in Updates : ApplyConfig(u) \/ ImportConfig(u)
    \/ \E p \in Profile \cup {"default"} : SwitchProfile(p)
    \/ UseSettings \/ ServeAgain \/ StartProcess

ConfigSpec == ConfigInit /\ [][ConfigNext]_configVars

-----------------------------------------------------------------------------
\* A file that sets some of the fields only, as a template or a legacy file
\* does, hands the others to the repo's .env until the first write; that
\* write then gives them their default.
HandedDown == IF last.file = NoFile THEN {} ELSE DOMAIN outside.repo \ DOMAIN last.file

\* A write changes what is in force for the fields that were posted and for no
\* other: not for those locked by the environment or an explicit file, not for
\* secrets that came back masked, and not for those that the repo's .env set
\* before there was a managed file (admin_config.py:1237 "Preserve existing
\* managed values when present", "seed the first write").
AppliedAsAsked ==
    last # NoWrite => \A f \in ConfigField \ HandedDown :
        Shown[f] = IF f \in DOMAIN last.updates \ Locked
                        /\ ~(f \in Secret /\ last.updates[f] = Masked)
                   THEN last.updates[f]
                   ELSE last.before[f]

\* Once the page has written the file of the profile, what the server uses is
\* what the page shows, whatever was cached and however the server was started
\* again; but for the token, and after a switch of the profile.
UsedAsShown ==
    profile = imported /\ DOMAIN File(profile) = ConfigField =>
        \A f \in ConfigField \ {AuthToken} : InUse[f] = Shown[f]

\* The page switches between profiles (admin_static/index.html:367), and the
\* server it starts again uses the settings of the active one.
SwitchIsInUse == outside.supervised /\ ~restart_requested => InUse = Loaded(profile)
=============================================================================
