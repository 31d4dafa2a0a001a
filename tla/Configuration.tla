---------------------------- MODULE Configuration ----------------------------
(***************************************************************************)
(* The configuration (backend/app/core/config): the YAML files of each     *)
(* namespace and their overlays for an environment (loader.py), the        *)
(* variables of the environment (settings.py), the ranges and the code     *)
(* defaults of the options (schemas.py), and Config and get_config, which  *)
(* put them together (manager.py).                                         *)
(*                                                                         *)
(* A document is a tree of mappings with values at its leaves.  The tables *)
(* hold the options whose value can be refused or comes from a variable;   *)
(* any other flag or text is copied and no rule looks at it.  Fractions    *)
(* are counted in tenths.                                                  *)
(*                                                                         *)
(* A run varies the files and variables about one option, the subject; of  *)
(* the other namespaces there is no file, so they have their defaults.     *)
(***************************************************************************)
EXTENDS Integers, Sequences

CONSTANTS
  Subjects,    \* the options the run varies
  Documents,   \* for each of them, the documents tried
  Candidates,  \* for each of them, the values tried for its variable
  MaxEdits,    \* bound: edits of files and variables
  Unset,       \* a variable that is not set
  Null,        \* a namespace that is there and empty
  Unreadable,  \* a file that is missing, broken or without its namespace
  Texts,       \* the texts of a free option
  Providers    \* the names of AI providers

VARIABLES
  subject,  \* the option whose layers vary
  base,     \* the document of its namespace: a mapping, Null or Unreadable
  overlay,  \* the overlay of the environment: a mapping, or Unreadable
  overlaid, \* the environment the overlay is for
  env,      \* the variables of the environment
  secrets,  \* the secrets that are set
  edits,    \* edits so far
  config    \* _config: the value of every option, or Unloaded

vars == <<subject, base, overlay, overlaid, env, secrets, edits, config>>

-----------------------------------------------------------------------------
(* The options: range and code default.                                    *)

Option(path, range, default) == [path |-> path, range |-> range, default |-> default]
Off == FALSE
Blank == ""
Between(least, most) == least .. most
Environments == {"development", "staging", "production"}
Levels == {"DEBUG", "INFO", "WARNING", "ERROR", "CRITICAL"}

AppOptions == <<
  Option(<<"environment">>, Environments, "development"),
  Option(<<"debug">>, BOOLEAN, Off),
  Option(<<"server", "host">>, Texts, "0.0.0.0"),
  Option(<<"server", "port">>, Between(1, 65535), 8000),
  Option(<<"server", "reload">>, BOOLEAN, Off),
  Option(<<"server", "workers">>, Between(1, 32), 1),
  Option(<<"cors", "allow_origins">>, Texts, "none")>>

ApiOptions == <<
  Option(<<"sse", "heartbeat_interval">>, Between(1, 300), 15),
  Option(<<"sse", "max_timeout">>, Between(10, 3600), 300),
  Option(<<"limits", "max_request_size">>, Between(1024, 2147483647), 10485760),
  Option(<<"limits", "max_response_tokens">>, Between(1, 128000), 4096),
  Option(<<"limits", "rate_limit_per_minute">>, Between(1, 10000), 60)>>

EngineOptions == <<
  Option(<<"ai", "default_provider">>, Providers, "openai"),
  Option(<<"ai", "providers">>, SUBSET Providers, {}),
  Option(<<"user_profile", "timeout">>, Between(1, 600), 30),
  Option(<<"tools", "timeout">>, Between(10, 3000), 300),
  Option(<<"tools", "max_iterations">>, Between(1, 20), 5)>>

ContextOptions == <<
  Option(<<"token_budget", "max_context_tokens">>, Between(1000, 1000000), 100000),
  Option(<<"token_budget", "reserve_for_completion">>, Between(100, 128000), 4096),
  Option(<<"token_budget", "personalization_budget">>, Between(100, 100000), 10000),
  Option(<<"parallel_execution", "max_workers">>, Between(1, 10), 3),
  Option(<<"parallel_execution", "timeout">>, Between(10, 600), 100),
  Option(<<"degradation", "min_required_engines">>, Between(0, 3), 0)>>

ToolOptions == <<
  Option(<<"whitelist", "mode">>, {"strict", "permissive"}, "strict"),
  Option(<<"mcp", "timeout">>, Between(1, 600), 50),
  Option(<<"limits", "max_concurrent_calls">>, Between(1, 50), 5),
  Option(<<"limits", "max_retry_attempts">>, Between(0, 5), 2),
  Option(<<"limits", "timeout_per_call">>, Between(10, 3000), 300),
  Option(<<"limits", "max_calls_per_minute">>, Between(1, 1000), 10)>>

StorageOptions == <<
  Option(<<"database", "pool_size">>, Between(1, 100), 10),
  Option(<<"database", "max_overflow">>, Between(0, 100), 20),
  Option(<<"database", "pool_timeout">>, Between(10, 3000), 300),
  Option(<<"database", "pool_recycle">>, Between(300, 86400), 3600),
  Option(<<"redis", "max_connections">>, Between(1, 1000), 50),
  Option(<<"redis", "socket_timeout">>, Between(1, 600), 50),
  Option(<<"redis", "socket_connect_timeout">>, Between(1, 600), 50),
  Option(<<"redis", "cache", "default_ttl">>, Between(1, 604800), 3600)>>

ObservabilityOptions == <<
  Option(<<"logging", "level">>, Levels, "INFO"),
  Option(<<"logging", "format">>, {"json", "text"}, "json"),
  Option(<<"metrics", "export_interval">>, Between(1, 3600), 60),
  Option(<<"tracing", "enabled">>, BOOLEAN, Off),
  Option(<<"tracing", "sample_rate">>, Between(0, 10), 1),
  Option(<<"tracing", "export_protocol">>, {"otlp", "jaeger", "zipkin"}, "otlp"),
  Option(<<"sentry", "enabled">>, BOOLEAN, Off),
  Option(<<"sentry", "traces_sample_rate">>, Between(0, 10), 1),
  Option(<<"sentry", "profiles_sample_rate">>, Between(0, 10), 0),
  Option(<<"sentry", "environment">>, Texts, "development")>>

SecurityOptions == <<
  Option(<<"authentication", "jwt", "access_token_expire_minutes">>, Between(1, 1440), 30),
  Option(<<"authentication", "jwt", "refresh_token_expire_days">>, Between(1, 90), 7),
  Option(<<"rate_limiting", "strategy">>,
         {"sliding_window", "fixed_window", "token_bucket"}, "sliding_window"),
  Option(<<"rate_limiting", "requests_per_minute">>, Between(1, 10000), 60)>>

Schema == [app |-> AppOptions, api |-> ApiOptions, engines |-> EngineOptions,
           context |-> ContextOptions, tools |-> ToolOptions, storage |-> StorageOptions,
           observability |-> ObservabilityOptions, security |-> SecurityOptions]

Options ==
  UNION {{<<ns, Schema[ns][i].path>> : i \in DOMAIN Schema[ns]} : ns \in DOMAIN Schema}

(* The row of an option, a pair of namespace and path. *)
Declared(o) ==
  LET rows == Schema[o[1]] IN rows[CHOOSE i \in DOMAIN rows : rows[i].path = o[2]]

RangeOf(o) == Declared(o).range
DefaultOf(o) == Declared(o).default

-----------------------------------------------------------------------------
(* The variables of the environment: the default Settings has for each,    *)
(* and when it goes over the YAML: always, if the document has anything in *)
(* the option's section, or if, besides, the variable is not empty.        *)

Variable(ns, path, default, when) ==
  [option |-> <<ns, path>>, default |-> default, when |-> when]

Variables == <<
  Variable("app", <<"environment">>, "development", "always"),
  Variable("app", <<"debug">>, Off, "always"),
  Variable("app", <<"server", "host">>, "0.0.0.0", "section"),
  Variable("app", <<"server", "port">>, 8000, "section"),
  Variable("app", <<"server", "reload">>, Off, "section"),
  Variable("app", <<"cors", "allow_origins">>, Blank, "filled"),
  Variable("storage", <<"database", "pool_size">>, 10, "section"),
  Variable("storage", <<"database", "max_overflow">>, 20, "section"),
  Variable("storage", <<"redis", "max_connections">>, 50, "section"),
  Variable("observability", <<"logging", "level">>, "INFO", "section"),
  Variable("observability", <<"tracing", "enabled">>, Off, "section"),
  Variable("observability", <<"sentry", "enabled">>, Off, "section"),
  Variable("observability", <<"sentry", "environment">>, Blank, "filled")>>

(* The options a variable stands for, and the variable of each. *)
Overridable == {Variables[i].option : i \in DOMAIN Variables}
VariableOf(o) == Variables[CHOOSE i \in DOMAIN Variables : Variables[i].option = o]

EnvironmentOption == <<"app", <<"environment">>>>

(* The value Settings has for an option that a variable stands for. *)
Setting(o) == IF env[o] = Unset THEN VariableOf(o).default ELSE env[o]

(* Settings validates what the variables say, with the ranges of the       *)
(* options, before any file is read.                                       *)
SettingsValid == \A o \in Overridable : env[o] = Unset \/ env[o] \in RangeOf(o)

-----------------------------------------------------------------------------
(* Documents.  A document is what it has at each of its paths: a mapping,  *)
(* or a value.                                                             *)

Leaf(value) == [kind |-> "leaf", value |-> value]
Mapping == [kind |-> "dict"]
IsMapping(node) == node.kind = "dict"
Empty == [path \in {<<>>} |-> Mapping]
Files == {Null, Unreadable}

(* The sections on the way to a path, from the root to the one it is in.   *)
Sections(path) == {SubSeq(path, 1, n) : n \in 0 .. Len(path) - 1}
SectionOf(path) == SubSeq(path, 1, Len(path) - 1)

(* A tree of mappings: whatever is there is inside mappings. *)
IsDocument(doc) ==
  /\ <<>> \in DOMAIN doc /\ IsMapping(doc[<<>>])
  /\ \A path \in DOMAIN doc :
       /\ path \in Seq(STRING)
       /\ \A section \in Sections(path) :
            section \in DOMAIN doc /\ IsMapping(doc[section])

(* What deep_merge leaves of the base: it descends where base and overlay  *)
(* both have a mapping, and anything else the overlay has replaces what    *)
(* the base has there, with all that is in it.                             *)
Kept(a, b) ==
  {path \in DOMAIN a : \A at \in Sections(path) \cup {path} :
     at \in DOMAIN b => IsMapping(a[at]) /\ IsMapping(b[at])}

Merge(a, b) ==
  [path \in Kept(a, b) \cup DOMAIN b |->
     IF path \in Kept(a, b) THEN a[path] ELSE b[path]]

(* A mapping with something in it, as if app_data.get("server"): tests.    *)
Filled(doc, section) ==
  /\ section \in DOMAIN doc /\ IsMapping(doc[section])
  /\ \E path \in DOMAIN doc : path # <<>> /\ SectionOf(path) = section

(* Some section on the way to an option is a value and not a mapping. *)
Blocked(doc, path) ==
  \E section \in Sections(path) : section \in DOMAIN doc /\ ~IsMapping(doc[section])

ASSUME ConfigurationAssumption ==
  /\ MaxEdits \in Nat
  /\ {"none", "0.0.0.0", "development"} \subseteq Texts /\ "openai" \in Providers
  /\ \A o \in Subjects : \A doc \in Documents[o] : IsDocument(doc)

(* What load_all has of a namespace: nothing if its file cannot be loaded. *)
BaseOf(ns) == IF ns # subject[1] \/ base = Unreadable THEN Empty ELSE base

(* The overlay is the one of the environment the settings name. *)
OverlayOf(ns) ==
  IF ns = subject[1] /\ overlay \notin Files /\ overlaid = Setting(EnvironmentOption)
  THEN overlay ELSE Empty

(* A buggy variant: the base goes over the overlay. *)
DocumentSwapped(ns) == Merge(OverlayOf(ns), BaseOf(ns))

DocumentOf(ns) == Merge(BaseOf(ns), OverlayOf(ns))

-----------------------------------------------------------------------------
(* Config.                                                                 *)

(* The variable goes over what the document says. *)
Overrides(o, filled) ==
  /\ o \in Overridable
  /\ \/ VariableOf(o).when = "always"
     \/ filled /\ VariableOf(o).when = "section"
     \/ filled /\ VariableOf(o).when = "filled" /\ Setting(o) # Blank

Overridden(o) == Overrides(o, Filled(DocumentOf(o[1]), SectionOf(o[2])))

(* What the model of the option is given: by the variable or the document. *)
IsGiven(o) == Overridden(o) \/ o[2] \in DOMAIN DocumentOf(o[1])
Given(o) == IF Overridden(o) THEN Leaf(Setting(o)) ELSE DocumentOf(o[1])[o[2]]

ValueOf(o) == IF IsGiven(o) THEN Given(o).value ELSE DefaultOf(o)

DefaultProvider == <<"engines", <<"ai", "default_provider">>>>
ProvidersOption == <<"engines", <<"ai", "providers">>>>

(* A buggy variant: the models are built without validation. *)
Unvalidated == \A o \in Options : IsGiven(o) => ~IsMapping(Given(o))

(* What the models accept: a mapping for each section, a value in range    *)
(* for each option given, and, if providers are given, the default one     *)
(* among them.                                                             *)
Validates ==
  /\ \A o \in Options :
       /\ ~Blocked(DocumentOf(o[1]), o[2])
       /\ IsGiven(o) => ~IsMapping(Given(o)) /\ Given(o).value \in RangeOf(o)
  /\ IsGiven(ProvidersOption)
       => ValueOf(DefaultProvider) \in ValueOf(ProvidersOption)

(* The secrets an environment cannot do without. *)
Required(environment) ==
  {"ai_provider"} \cup (IF environment = "development" THEN {} ELSE {"database_url"})
                  \cup (IF environment = "production" THEN {"secret_key"} ELSE {})

(* Config(...) gets through its steps, in the order of the code. *)
Loads ==
  /\ SettingsValid
  /\ base # Null
  /\ Validates
  /\ Required(Setting(EnvironmentOption)) \subseteq secrets

Unloaded == [o \in {} |-> Unset]

(* get_config: the instance there is, unless there is none or the caller   *)
(* wants it reloaded; when the new one cannot be built the old one stays.  *)
GetConfig ==
  /\ \E reload \in BOOLEAN :
       config' = IF (config = Unloaded \/ reload) /\ Loads
                 THEN [o \in Options |-> ValueOf(o)] ELSE config
  /\ UNCHANGED <<subject, base, overlay, overlaid, env, secrets, edits>>

-----------------------------------------------------------------------------
(* The files and variables, and who edits them.                            *)

SettingsOf(o) == IF o \in Overridable THEN {Unset} \cup Candidates[o] ELSE {}
Secrets == {"ai_provider", "database_url", "secret_key"}

Init ==
  /\ subject \in Subjects
  /\ base \in Documents[subject] \cup Files
  /\ overlay \in Documents[subject] \cup Files
  /\ overlaid \in {"development", "production"}
  /\ env \in {[o \in Overridable |-> IF o = subject THEN value ELSE Unset] :
                value \in SettingsOf(subject) \cup {Unset}}
  /\ secrets = Secrets
  /\ edits = 0 /\ config = Unloaded

EditFiles ==
  /\ edits < MaxEdits /\ edits' = edits + 1
  /\ \/ base' \in Documents[subject] \cup Files /\ UNCHANGED overlay
     \/ overlay' \in Documents[subject] \cup Files /\ UNCHANGED base
  /\ UNCHANGED <<subject, overlaid, env, secrets, config>>

(* A restart is not needed: Settings reads the variables anew at a reload. *)
EditEnvironment ==
  /\ edits < MaxEdits /\ edits' = edits + 1
  /\ \/ \E o \in {subject, EnvironmentOption} \cap Overridable :
          \E value \in SettingsOf(o) :
            env' = [env EXCEPT ![o] = value] /\ UNCHANGED secrets
     \/ \E secret \in Secrets : secrets' = secrets \ {secret} /\ UNCHANGED env
  /\ UNCHANGED <<subject, base, overlay, overlaid, config>>

Next == GetConfig \/ EditFiles \/ EditEnvironment

Spec == Init /\ [][Next]_vars

-----------------------------------------------------------------------------
(* The configuration is not loaded or gives every option a value in its    *)
(* range: whatever files and variables say, the program never runs with    *)
(* another one.                                                            *)
TypeOK ==
  /\ subject \in Subjects /\ edits \in 0 .. MaxEdits /\ secrets \subseteq Secrets
  /\ base \in Documents[subject] \cup Files
  /\ overlay \in Documents[subject] \cup Files
  /\ overlaid \in Environments /\ DOMAIN env = Overridable
  /\ config # Unloaded =>
       DOMAIN config = Options /\ \A o \in Options : config[o] \in RangeOf(o)

(* The value the layers call for, each looked up without merging: a        *)
(* variable that goes over the files, then the overlay, then the base,     *)
(* then the code default.                                                  *)
Wanted(o) ==
  LET over == OverlayOf(o[1])
      under == BaseOf(o[1])
      section == SectionOf(o[2])
  IN  IF Overrides(o, Filled(over, section) \/ Filled(under, section)) THEN Setting(o)
      ELSE IF o[2] \in DOMAIN over THEN over[o[2]].value
      ELSE IF o[2] \in DOMAIN under THEN under[o[2]].value
      ELSE DefaultOf(o)

(* get_config only ever changes the configuration to a complete one: every *)
(* option has the value of the layer that comes first for it, looked up in *)
(* each layer by itself, the default provider is one of the providers if   *)
(* there are any, and no secret its environment requires is unset.  A load *)
(* that fails leaves the configuration as it was.                          *)
(*                                                                         *)
(* The order of the layers is the code's: where a variable overrides, it   *)
(* goes over the YAML files, and so does its default in Settings if nobody *)
(* set it.  CONFIG.md, the docstring of Config and the design document say *)
(* YAML > environment > defaults, which this program does not do.          *)
LoadedIsSound ==
  [][config' # config =>
       /\ config' # Unloaded
       /\ \A o \in Options : config'[o] = Wanted(o)
       /\ config'[ProvidersOption] # {}
            => config'[DefaultProvider] \in config'[ProvidersOption]
       /\ Required(config'[EnvironmentOption]) \subseteq secrets]_vars
===============================================================================
