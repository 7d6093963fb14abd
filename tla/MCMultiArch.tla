---------------------------- MODULE MCMultiArch ----------------------------
(* Multi-architecture builds of small configurations, for TLC.             *)
EXTENDS MultiArch

Pkg(n, v, prov) == [name |-> n, version |-> v, provides |-> prov]

app1 == Pkg("app", 1, {})
app2 == Pkg("app", 2, {})
ssl1 == Pkg("ssl", 1, {"tls"})
ssl2 == Pkg("ssl", 2, {"tls"})
gnu1 == Pkg("gnu", 1, {"tls"})

MCArchOrder == <<"amd64", "arm64", "riscv64">>
MCPackages == {app1, app2, ssl1, ssl2, gnu1}
MCRequires == [n \in {"app", "ssl", "gnu"} |->
                 IF n = "app" THEN {"tls"} ELSE {}]
MCBuildTime == (app1 :> 1) @@ (app2 :> 4) @@ (ssl1 :> 2) @@ (ssl2 :> 3)
                 @@ (gnu1 :> 1)
MCNoarch == {"gnu"}

\* What a repository has: an older and a newer state, and a provider less.
Small == {app1, ssl1}
Newer == {app1, app2, ssl1, gnu1}
Other == {app2, ssl2, gnu1}
Providers == {app1, ssl1, ssl2, gnu1}
MCReleases == {Newer, Other}

Two == {"amd64", "arm64"}
Unset == [kind |-> "unset", at |-> 0]
Blank == [kind |-> "blank", at |-> 0]
Dated == [kind |-> "date", at |-> 3]

Asked(names) == [n \in names |-> IF n = "app" THEN "@edge" ELSE ""]

Scenario(archSet, repos, names, lockfile, edited, etag, env, date, cmd, max) ==
  [archs |-> archSet, repo |-> repos, packages |-> Asked(names),
   lockfile |-> lockfile, edited |-> edited, etagCache |-> etag, env |-> env,
   buildDate |-> date, command |-> cmd, maxUpdates |-> max]

\* The same repository everywhere, or one architecture ahead.
Level(r) == [a \in ToSet(MCArchOrder) |-> r]
Apart(r, s) == [a \in ToSet(MCArchOrder) |-> IF a = "amd64" THEN r ELSE s]

MCScenarios ==
  \* Repositories that change while two architectures are resolved and built.
  {Scenario(Two, r, names, lockfile, FALSE, etag, Unset, 0, cmd, 2)
     : r \in {Level(Small), Apart(Newer, Small)}, names \in {{"app"}},
       lockfile \in BOOLEAN, etag \in BOOLEAN, cmd \in {"publish-cmd"}}
  \cup
  \* Providers that differ, on three architectures.
  {Scenario(ToSet(MCArchOrder), r, names, FALSE, FALSE, TRUE, Unset, 0,
            "build-cmd", 0)
     : r \in {Level(Newer), Level(Providers)}, names \in {{"app"}, {"tls"}}}
  \cup
  \* Dates, an edited configuration, nothing to install, the daemon.
  {Scenario(Two, Apart(Newer, Other), names, lockfile, edited, TRUE, env, date,
            "load-cmd", 0)
     : names \in {{}, {"tls"}}, lockfile \in BOOLEAN, edited \in BOOLEAN,
       env \in {Unset, Blank, Dated}, date \in {0, 5}}
============================================================================
