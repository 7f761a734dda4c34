------------------------------- MODULE Options --------------------------------
(***************************************************************************)
(* How a server gets its options (meilisearch/src/option.rs, main.rs): the *)
(* arguments are parsed, the configuration file is looked for, what it     *)
(* says is put into the environment variables that are not set, and the    *)
(* arguments are parsed again.  A value is a string; an argument, a        *)
(* variable or a line of the file that is not there has no place in the    *)
(* function.  The parser of the arguments is the crate clap.               *)
(***************************************************************************)
EXTENDS Naturals, FiniteSets, TLC, ClientRequest

CONSTANTS
    Givens,    \* what is given: [args, env, file, path, windows]
    ShortKeys  \* the master keys of less than MASTER_KEY_MIN_SIZE bytes

\* Not given, and without a default.
NotGiven == "absent"

\* The options of struct Opt: those with a default, those without, and the flags.
Defaults ==
    [db_path |-> "./data.ms", http_addr |-> "localhost:7700", env |-> "development",
     http_payload_size_limit |-> "100 MB", snapshot_dir |-> "snapshots/", dump_dir |-> "dumps/",
     log_level |-> "INFO", max_indexing_memory |-> "two thirds", max_indexing_threads |-> "half",
     schedule_snapshot |-> "disabled"]
SslPaths == {"ssl_cert_path", "ssl_key_path", "ssl_auth_path", "ssl_ocsp_path"}
Imports == {"import_snapshot", "import_dump"}
ImportFlags == "ignore_missing_snapshot" :> "import_snapshot"
               @@ "ignore_snapshot_if_db_exists" :> "import_snapshot"
               @@ "ignore_missing_dump" :> "import_dump"
               @@ "ignore_dump_if_db_exists" :> "import_dump"
Flags == DOMAIN ImportFlags
         \cup {"no_analytics", "ssl_require_auth", "ssl_resumption", "ssl_tickets",
               "experimental_enable_metrics", "experimental_reduce_indexing_memory_usage"}

Opt == Defaults @@ [o \in {"master_key"} \cup SslPaths \cup Imports |-> NotGiven]
       @@ [o \in Flags |-> "false"]
OptNames == DOMAIN Opt

POSSIBLE_ENV == {"development", "production"}

-------------------------------------------------------------------------------
\* clap: an argument comes before a variable, a variable before a default.
Parsed(args, env) == args @@ env @@ Opt

\* clap refuses a flag without the import it is about, two imports, and an unknown environment.
ClapRefuses(args, env) ==
    LET given == DOMAIN args \cup DOMAIN env
    IN  \/ \E f \in DOMAIN ImportFlags : f \in given /\ ImportFlags[f] \notin given
        \/ Imports \subseteq given
        \/ Parsed(args, env).env \notin POSSIBLE_ENV

\* What export_to_env does not take out of the file.
NotExported == Imports \cup DOMAIN ImportFlags

\* export_to_env: the options of the file, its defaults included, except those that have no value.
Exported(file) ==
    LET opts == file @@ Opt
        without == NotExported \cup {o \in OptNames : opts[o] = NotGiven}
                   \cup {o \in {"schedule_snapshot"} : opts[o] = "disabled"}
    IN  [o \in OptNames \ without |-> opts[o]]

\* Mutant: the variable is set whether it is present or not.
ExportAlways(env, file) == Exported(file) @@ env

\* export_to_env_if_not_present, for every option.
export_to_env(env, file) == env @@ Exported(file)

-------------------------------------------------------------------------------
(* request: [kind, phase, given, env, opts, protocol, clients], given being   *)
(* what the process was started with and env its variables now.               *)

OptionsInit ==
    \E g \in Givens :
        request = [kind |-> "options", phase |-> "parse", given |-> g, env |-> g.env,
                   opts |-> Opt, protocol |-> "none", clients |-> "none"]

Starting(phase) == request.kind = "options" /\ request.phase = phase
Refuse == request' = [request EXCEPT !.phase = "refused"]

\* The first Opt::parse.
ParseArguments ==
    /\ Starting("parse")
    /\ IF ClapRefuses(request.given.args, request.env) THEN Refuse
       ELSE request' = [request EXCEPT !.phase = "file", !.opts = Parsed(request.given.args, request.env)]

\* The file named by the argument or by the variable must be readable, the one by default need not.
ReadConfigFile ==
    /\ Starting("file")
    /\ LET file == request.given.file
       IN  CASE file.state = "missing" ->
                  IF request.given.path = "default" THEN request' = [request EXCEPT !.phase = "checks"]
                  ELSE Refuse
             [] file.state = "invalid" -> Refuse
             [] file.state = "names a file" -> Refuse
             [] OTHER -> request' = [request EXCEPT !.phase = "again",
                                                    !.env = export_to_env(@, file.options)]

\* The arguments once again, with the variables that the file has set.
ParseAgain ==
    /\ Starting("again")
    /\ IF ClapRefuses(request.given.args, request.env) THEN Refuse
       ELSE request' = [request EXCEPT !.phase = "checks", !.opts = Parsed(request.given.args, request.env)]

\* main: what cannot be run in production, or on Windows.
CheckMasterKey ==
    /\ Starting("checks")
    /\ LET opts == request.opts
       IN  IF \/ request.given.windows /\ opts.experimental_reduce_indexing_memory_usage = "true"
              \/ opts.env = "production" /\ opts.master_key \in ShortKeys \cup {NotGiven}
           THEN Refuse ELSE request' = [request EXCEPT !.phase = "resume"]

\* print_launch_resume has no word for a production without a master key.
PrintLaunchResume ==
    /\ Starting("resume")
    /\ LET known == \/ request.opts.env = "development"
                    \/ request.opts.env = "production" /\ request.opts.master_key # NotGiven
       IN  request' = [request EXCEPT !.phase = IF known THEN "bind" ELSE "panicked"]

\* get_ssl_config: which clients are let in.
ClientVerifier(opts) ==
    IF opts.ssl_auth_path = NotGiven THEN "anyone"
    ELSE IF opts.ssl_require_auth = "true" THEN "authenticated" ELSE "anonymous or authenticated"

\* run_http: over TLS if there are a certificate and a key.  The files may not be readable and the
\* address not free, which are errors; a root certificate that is not one, a key file without any
\* key and a ticketer that cannot be made are panics (the two unwraps of get_ssl_config and the
\* assertion of load_private_key).
UsesTls(opts) == opts.ssl_cert_path # NotGiven /\ opts.ssl_key_path # NotGiven

RunHttp ==
    /\ Starting("bind")
    /\ LET opts == request.opts
           tls == UsesTls(opts)
       IN  \/ Refuse
           \/ tls /\ request' = [request EXCEPT !.phase = "panicked", !.protocol = "https"]
           \/ request' = [request EXCEPT !.phase = "launched",
                                         !.protocol = IF tls THEN "https" ELSE "http",
                                         !.clients = IF tls THEN ClientVerifier(opts) ELSE @]

OptionsNext ==
    \/ ParseArguments \/ ReadConfigFile \/ ParseAgain \/ CheckMasterKey \/ PrintLaunchResume
    \/ RunHttp

-------------------------------------------------------------------------------
\* Infos: what the analytics tell of the options; of a path or an address only whether it was chosen.
Sensible == [o \in {"db_path", "dump_dir", "snapshot_dir", "http_addr"} \cup Imports \cup SslPaths |-> Opt[o]]
Infos(opts) ==
    [o \in OptNames \ {"master_key", "no_analytics"} |->
        IF o \in DOMAIN Sensible THEN IF opts[o] # Sensible[o] THEN "true" ELSE "false" ELSE opts[o]]

-------------------------------------------------------------------------------
\* What each option was given as: toml < env vars < cli args.
Wanted(o) ==
    LET g == request.given
    IN  IF o \in DOMAIN g.args THEN g.args[o]
        ELSE IF o \in DOMAIN g.env THEN g.env[o]
        ELSE IF g.file.state = "readable" /\ o \in DOMAIN g.file.options
             THEN g.file.options[o] ELSE Opt[o]

(* A server that runs has for each option the argument, else the variable, else the line of *)
(* the file, else the default, although the file is read between two readings of the        *)
(* arguments and its own defaults are exported too; for the imports and their four flags    *)
(* nothing is said of a line of the file, which FileRespected is about.  It never runs      *)
(* without a file that was asked for, in production without a long master key, or with      *)
(* clients let in that ssl_require_auth excludes.  Only the set-up of TLS may panic, when a *)
(* certificate and a key are given; and the analytics repeat no path or address.            *)
OptionsRespected ==
    request.kind = "options" =>
        /\ request.phase = "panicked" =>
             request.protocol = "https" /\ \A o \in {"ssl_cert_path", "ssl_key_path"} : Wanted(o) # NotGiven
        /\ request.phase = "launched" =>
             LET opts == request.opts
                 g == request.given
                 ofFile == DOMAIN g.file.options \ (DOMAIN g.args \cup DOMAIN g.env)
             IN  /\ \A o \in OptNames \ (NotExported \cap ofFile) : opts[o] = Wanted(o)
                 /\ g.file.state = "readable" \/ (g.file.state = "missing" /\ g.path = "default")
                 /\ Wanted("env") = "production" => Wanted("master_key") \notin ShortKeys \cup {NotGiven}
                 /\ /\ request.protocol = "https" /\ Wanted("ssl_require_auth") = "true"
                    /\ Wanted("ssl_auth_path") # NotGiven
                    => request.clients = "authenticated"
                 /\ \A o \in {"master_key"} \cup DOMAIN Sensible : \A i \in DOMAIN Infos(opts) :
                       opts[o] # Opt[o] => Infos(opts)[i] # opts[o]

(* The priority toml < env vars < cli args that try_build states, for every option, the     *)
(* imports that config.toml shows as lines of the file included: a server that runs has the *)
(* value of the file when nothing comes before it.                                          *)
FileRespected ==
    (request.kind = "options" /\ request.phase = "launched") =>
        \A o \in OptNames : request.opts[o] = Wanted(o)
===============================================================================
