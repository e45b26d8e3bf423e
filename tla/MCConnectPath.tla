---------------------------- MODULE MCConnectPath ----------------------------
(* Paths, devices and templates for TLC. *)
EXTENDS ConnectPath, IosTemplates

Path(hops) == [over |-> FALSE, hops |-> hops]
Over(hops) == [over |-> TRUE, hops |-> hops]

(* In the shell of a jump host: "telnet device", "Trying ...", "Open". *)
Jump ==
    [Start      |-> << Sends({"shell_prompt"}, "jump", "Connecting") >>,
     Connecting |-> << On({"text"}, "Next", "Opening") >>,
     Opening    |-> << On({"text"}, "Done", Stay) >>]
(* The template of path.rs:428: the user name is sent, and that is all. *)
SendDone == [Start |-> << Sends({"username"}, "username", "Done") >>]
SendEnd  == [Start |-> << Sends({"username"}, "username", "End") >>]

MCPaths ==
    { Path(IosHops("telnet")), Path(IosHops("ssh")),
      Path(<< To("shell"), By(Jump), By(CiscoIosTelnetLogin) >>),
      Path(<< To("telnet") >> \o IosHops("ssh")),
      Path(<< To("telnet"), By(SendDone) >>), Path(<< To("telnet"), By(SendEnd) >>),
      Path(<< By(CiscoIosTelnetLogin) >>), Path(<< >>),
      Over(<< By(Jump), By(CiscoIosTelnetLogin) >>),
      Over(<< By(Jump), To("ssh") >>) }
DonePath == { Path(<< To("telnet"), By(SendDone) >>) }

MCServers ==
    [banner  : { << >>, << "text" >>, << "percent", "hash", "text", "hash" >> },
     motd    : { << >>, << "percent", "text" >>, << "hash" >> },
     enabled : BOOLEAN]
MCCredentials == {"good", "bad_user", "bad_password"}
=============================================================================
