------------------------- MODULE MCRollingManifest -------------------------
(* The reference snapshot with two configuration files, two repositories and *)
(* two things bound to one of them, and what a hand edit may make of it.     *)
EXTENDS RollingManifest

CONSTANTS f1, f2, x1, x2, a, b, c0, c1, h1, h2

Sha(n, r) == [repository |-> n, revision |-> r]

Files0 == [f \in {f1, f2} |-> x1]

Base == [wellFormed |-> TRUE,
         candidate |-> [status |-> "not-promoted", evidence |-> FALSE, passed |-> {}],
         outcome |-> [status |-> "absent", gate_result |-> "failed", retained |-> TRUE,
                      previous |-> c0, previous_sha256 |-> c0],
         repositories |-> <<Sha("bitbake", b), Sha("oe-core", a)>>,
         bindings |-> <<Sha("oe-core", a), Sha("oe-core", a)>>,
         configuration |-> [files |-> Files0, machine |-> "qemux86-64",
                            identity |-> [files |-> Files0, machine |-> "qemux86-64"]],
         toolchain |-> [host |-> h1, identity |-> [host |-> h1]]]

MCManifest0 == [k \in DOMAIN Base \cup {"manifest_sha256"} |->
                   IF k = "manifest_sha256" THEN Base ELSE Base[k]]

Candidates ==
    LET c == Base.candidate IN
    {c, [c EXCEPT !.evidence = TRUE], [c EXCEPT !.status = "unhashable"],
     [status |-> "promoted", evidence |-> TRUE, passed |-> G!Gates],
     [status |-> "promoted", evidence |-> TRUE, passed |-> G!Gates \ {"security"}]}

Outcomes ==
    LET rejected == [Base.outcome EXCEPT !.status = "rejected"] IN
    {rejected, [rejected EXCEPT !.previous_sha256 = c1],
     [rejected EXCEPT !.gate_result = "passed"], [rejected EXCEPT !.retained = FALSE],
     [Base.outcome EXCEPT !.status = "accepted"], [Base.outcome EXCEPT !.status = "not-run"]}

MCRevisions(m) ==
    {[m EXCEPT !.wellFormed = FALSE],
     [m EXCEPT !.configuration.machine = "qemuarm64"], [m EXCEPT !.toolchain.host = h2]} \cup
    {[m EXCEPT !.candidate = c] : c \in Candidates} \cup
    {[m EXCEPT !.outcome = o] : o \in Outcomes} \cup
    {[m EXCEPT !.repositories = s] :
        s \in {<<Sha("bitbake", b), Sha("oe-core", b)>>,
               Base.repositories \o <<Sha("oe-core", b)>>}} \cup
    {[m EXCEPT !.bindings = s] :
        s \in {<<Sha("oe-core", a), Sha("oe-core", b)>>,
               <<Sha("oe-core", b), Sha("oe-core", b)>>}} \cup
    {[m EXCEPT !.configuration.files[f] = x2] : f \in {f1, f2}}

MCDisk0 == Files0
=============================================================================
