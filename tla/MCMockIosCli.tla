---------------------------- MODULE MCMockIosCli -----------------------------
(* Small instances of MockIosCli for TLC. *)
EXTENDS MockIosCli

AllCommands ==
    {"", "show", "enable", "disable", "configure", "configure terminal",
     "copy http:", "copy flash:", "delete", "reload", "reload in",
     "install activate", "exit", "interface", "end", "do show", "do disable"}

AnswersTo == [q \in Pendings \cup Logins |->
    CASE q = "username"               -> {"user", "bad"}
      [] q = "password"               -> {"pass", "bad"}
      [] q = "enablePassword"         -> {"secret", "bad", ""}
      [] q = "installActivateConfirm" -> {"y", "n"}
      [] q = "reloadSave"             -> {"y", "n"}
      [] OTHER                        -> {"", "bad"}]

EveryLineEnd == {<<"cr">>, <<"lf">>, <<"cr", "lf">>}
CrLf == {<<"cr", "lf">>}
NoKeys == {}
CtrlCOnly == {"ctrl_c"}
=============================================================================
