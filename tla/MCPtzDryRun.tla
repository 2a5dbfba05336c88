---------------------------- MODULE MCPtzDryRun ----------------------------
(***************************************************************************)
(* Values for the small instance of PtzDryRun: every operation once with   *)
(* good arguments, moves of one axis and of both, each defect alone and    *)
(* two together, and durations at every limit of parse_ptz_timeout_ms.     *)
(***************************************************************************)
EXTENDS PtzDryRun

OneWay == {0, 1}
OnlyOk == {"ok"}

At(x, y) == [x |-> x, y |-> y]
Amount(n, unit) == [number |-> "finite", amount |-> n, unit |-> unit]
PT(parts) == [prefix |-> "PT", parts |-> parts]
Absent == [prefix |-> "", parts |-> <<>>]

Digest(age) == [user |-> "known", password |-> "digest", proof |-> TRUE, age |-> age]
Profile(base) == [prefixed |-> FALSE, base |-> base]

Good(op) ==
    [op |-> op, header |-> Digest(0), profile |-> Profile("main"), preset |-> "home", zoom |-> FALSE,
     vector |-> At(1, 0), timeout |-> Absent, panTilt |-> TRUE]
Move == Good("ContinuousMove")

Durations ==
    {PT(<<Amount(n, u)>>) : n \in {-1, 0, 1, 4, 5, 9, 166, 10000, 600000, 600001, 36000000, 36000001}, u \in {"S"}}
    \union {PT(<<Amount(n, "H")>>) : n \in {1, 5000, 10000, 10001}}
    \union {PT(<<Amount(n, "M"), Amount(k, "S")>>) : n \in {0, 10000, 590000}, k \in {0, 5, 600000, 600005}}
    \union {PT(<<Amount(1, "S"), Amount(2, "H"), Amount(3, "S")>>)}
    \union {PT(<<[number |-> kind, amount |-> 0, unit |-> "S"]>> \o rest) :
               kind \in {"nan", "none"}, rest \in {<<>>, <<Amount(10000, "S")>>}}
    \union {PT(<<Amount(1, "D")>>), PT(<<>>), Absent, [prefix |-> "P", parts |-> <<Amount(1, "S")>>]}

SomeCalls ==
    {Good(op) : op \in CallOps}
    \union {[Move EXCEPT !.vector = v] : v \in {At(0, 0), At(0, 1), At(1, 1)}}
    \union {[Move EXCEPT !.timeout = d] : d \in Durations}
    \union {[Good("Stop") EXCEPT !.header = Digest(age)] : age \in {-301, -300, 300, 301}}
    \union {[Good("Stop") EXCEPT !.panTilt = FALSE],
            [Good("RelativeMove") EXCEPT !.vector = NoVector, !.zoom = TRUE],
            [Good("RelativeMove") EXCEPT !.vector = NoVector],
            [Good("Stop") EXCEPT !.header = [Digest(0) EXCEPT !.proof = FALSE], !.profile = Profile("")],
            [Good("Stop") EXCEPT !.header = [Digest(301) EXCEPT !.password = "text"]],
            [Good("Stop") EXCEPT !.profile = [prefixed |-> TRUE, base |-> "main"]],
            [Good("GotoHomePosition") EXCEPT !.profile = Profile("other")],
            [Good("GotoHomePosition") EXCEPT !.zoom = TRUE],
            [Good("GotoPreset") EXCEPT !.preset = ""],
            [Good("SetPreset") EXCEPT !.preset = ""],
            [Good("SetPreset") EXCEPT !.preset = "other"]}

=============================================================================
