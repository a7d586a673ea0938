----------------------------- MODULE MCReportDo -----------------------------
(***************************************************************************)
(* Thresholds in files, as integers and as float64, in the middle and the  *)
(* extreme 100, one alone, both and several at odds, with flags and the    *)
(* environment over them; then the ways a file may be named and fail, and  *)
(* the outputs.                                                            *)
(***************************************************************************)
EXTENDS ReportDo

Nothing == <<>>
IntOf(n) == [type |-> "int", n |-> n]
FloatOf(n) == [type |-> "float64", n |-> n]
Good(values) == [ok |-> TRUE, values |-> values]
Broken == [ok |-> FALSE, values |-> Nothing]

Plain ==
    [flag |-> Nothing, env |-> Nothing, disk |-> Nothing, home |-> TRUE, module |-> TRUE,
     config |-> [given |-> FALSE, ext |-> FALSE, isFile |-> FALSE],
     silent |-> FALSE, statuses |-> {}, diffStatuses |-> {"l"}, output |-> TRUE,
     outputFault |-> "none"]

Flags ==
    {Nothing, [efficacy |-> Text(50)], [mcoverage |-> Text(50)],
     [efficacy |-> Text(100), mcoverage |-> Text(60)]}

Disks ==
    {Nothing, "." :> Good([efficacy |-> IntOf(60)]),
     "." :> Good([efficacy |-> FloatOf(50), mcoverage |-> IntOf(60)]), "root" :> Good([mcoverage |-> IntOf(60)]),
     ("etc" :> Good([efficacy |-> IntOf(40)])) @@ ("." :> Good([efficacy |-> FloatOf(100)])),
     ("etc" :> Broken) @@ ("." :> Good([efficacy |-> IntOf(60)])),
     ("config" :> Good([efficacy |-> IntOf(60)])) @@ ("." :> Good([mcoverage |-> IntOf(60)])),
     ("config" :> Broken) @@ ("home" :> Good([efficacy |-> IntOf(60)]))}

Configs == [given : {TRUE}, ext : BOOLEAN, isFile : BOOLEAN]

MCSources ==
    {[Plain EXCEPT !.flag = flag, !.disk = disk] : flag \in Flags, disk \in Disks}
    \cup {[Plain EXCEPT !.disk = disk, !.config = config] : disk \in Disks, config \in Configs}
    \cup {[Plain EXCEPT !.disk = disk, !.home = FALSE] : disk \in Disks}
    \cup {[Plain EXCEPT !.flag = [dryrun |-> Bool(1)], !.disk = disk, !.module = FALSE] :
              disk \in {d \in Disks : "root" \notin DOMAIN d}}
    \cup {[Plain EXCEPT !.env = [efficacy |-> Text(50), dryrun |-> Text(1)], !.flag = flag,
                        !.disk = "." :> Good([efficacy |-> IntOf(60)])] : flag \in Flags}
    \cup {[Plain EXCEPT !.statuses = statuses, !.diffStatuses = ds, !.silent = silent] :
              statuses \in {{"l", "k"}, {"l", "x"}}, ds \in {{"k"}, {"l", "t"}}, silent \in BOOLEAN}
    \cup {[Plain EXCEPT !.disk = "." :> Good([efficacy |-> IntOf(50)]), !.outputFault = fault, !.output = output] :
              fault \in {"create", "write"}, output \in BOOLEAN}

(* The flag alone.                                                         *)
MCFlag == {[Plain EXCEPT !.flag = [efficacy |-> Text(50)]]}

MCMutants == {[file |-> "f", type |-> "ArithmeticBase"], [file |-> "g", type |-> "InvertLogical"]}
=============================================================================
