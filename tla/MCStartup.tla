------------------------------ MODULE MCStartup ------------------------------
(***************************************************************************)
(* Startup with up to two cameras: one camera of every type in both modes  *)
(* with every combination of services, and pairs of cameras that share a   *)
(* pipeline name or not.  "pipeX" is a pipeline main has no callback for.  *)
(***************************************************************************)
EXTENDS Startup

MCCamOrder  == <<"cam0", "cam1">>
MCPipeNames == {"pipe0", "pipe1", "pipeX"}

One(cam) ==
    [mode : Modes, cams : [{cam} -> [type : Types, pipe : {"pipe0", "pipeX"}]],
     sensors : BOOLEAN, zmq : BOOLEAN, zcm : BOOLEAN]

Two ==
    [mode : {"nv"},
     cams : {c \in [{"cam0", "cam1"} -> [type : {"imx219", "virtual"}, pipe : {"pipe0", "pipe1"}]] :
                c["cam0"].type = "imx219"},
     sensors : {FALSE}, zmq : BOOLEAN, zcm : BOOLEAN]

None == [mode : {"nv"}, cams : {<<>>}, sensors : BOOLEAN, zmq : {TRUE}, zcm : {FALSE}]

MCConfigs == One("cam0") \cup Two \cup None
=============================================================================
