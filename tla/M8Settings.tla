----------------------------- MODULE M8Settings -----------------------------
(***************************************************************************)
(* cmd/root.go and internal/config/config.go: the settings of an           *)
(* invocation, from its flags, the environment and .m8.yaml.               *)
(*                                                                         *)
(* "given" is what the three sources say.  The safety settings, the shadow *)
(* and the URL of the target are modelled in full, the separate settings   *)
(* of the target and the two timeouts by one each.                         *)
(***************************************************************************)
EXTENDS Naturals

\* What a source may say of a boolean in the environment, and of a timeout.
EnvValues == {"unset", "true", "false", "junk"}
FlagTimeouts == {"unset", "positive", "negative"}
FileTimeouts == {"unset", "positive", "negative", "junk"}

Givens ==
    [flag : [strict : BOOLEAN, fail : BOOLEAN, shadow : BOOLEAN, url : BOOLEAN,
             database : BOOLEAN, timeout : FlagTimeouts],
     env  : [require : EnvValues, fail : EnvValues, shadow : BOOLEAN, url : BOOLEAN,
             database : BOOLEAN],
     file : [broken : BOOLEAN, strict : BOOLEAN, require : BOOLEAN, fail : BOOLEAN,
             shadow : BOOLEAN, url : BOOLEAN, database : BOOLEAN, timeout : FileTimeouts]]

\* strconv.ParseBool of a set variable; an unset one leaves the file's value.
EnvBool(raw, fallback) == IF raw = "unset" THEN fallback ELSE raw = "true"
BadBool(raw) == raw = "junk"

\* The flag when it is set, otherwise the file's; neither may be negative, nor
\* may the file's be junk, unless the flag overrides it.
BadTimeout(flag, configured) ==
    \/ flag = "negative"
    \/ flag = "unset" /\ configured \in {"negative", "junk"}
TimeoutSource(flag, configured) ==
    CASE flag = "positive" -> "flag"
      [] flag = "unset" /\ configured = "positive" -> "file"
      [] OTHER -> "derived"

\* The command ends before it has settings.
Unresolvable(g) ==
    \/ g.file.broken
    \/ BadBool(g.env.require)
    \/ BadBool(g.env.fail)
    \/ BadTimeout(g.flag.timeout, g.file.timeout)

\* The source that names the target: a URL from anywhere comes before the
\* separate settings, here the name of the database.
FirstOf(bySource) ==
    IF bySource.flag THEN "flag"
    ELSE IF bySource.env THEN "env"
    ELSE IF bySource.file THEN "file" ELSE "default"
ConnStrSource(g) ==
    LET urls  == [flag |-> g.flag.url, env |-> g.env.url, file |-> g.file.url]
        names == [flag |-> g.flag.database, env |-> g.env.database, file |-> g.file.database]
    IN  IF FirstOf(urls) # "default" THEN FirstOf(urls) ELSE FirstOf(names)

RequireShadow(g) == EnvBool(g.env.require, g.file.require)

\* Faulty: a shadow is not asked for by what requires one.
FailSansRequire(g) == g.flag.fail \/ EnvBool(g.env.fail, g.file.fail)

FailOnUnvalidated(g) == g.flag.fail \/ EnvBool(g.env.fail, g.file.fail) \/ RequireShadow(g)

Settings(g) ==
    [strict  |-> g.flag.strict \/ g.file.strict,
     require |-> RequireShadow(g),
     fail    |-> FailOnUnvalidated(g),
     target  |-> ConnStrSource(g),
     shadow  |-> g.flag.shadow \/ g.env.shadow \/ g.file.shadow,
     timeout |-> TimeoutSource(g.flag.timeout, g.file.timeout)]

\* A command that diffs would have to work on the target it must not work on.
RefusesToStart(settings) == settings.require /\ ~settings.shadow
=============================================================================
