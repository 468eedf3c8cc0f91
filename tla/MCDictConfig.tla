---------------------------- MODULE MCDictConfig ----------------------------
(* Constants for model checking DictConfig: the API with a request and the  *)
(* worker with a job.                                                       *)
EXTENDS DictConfig, TLC

MCProcessOf == "request" :> "api" @@ "job" :> "worker"
=============================================================================
