-------------------------- MODULE ConnectPath_proofs --------------------------
(***************************************************************************)
(* Theorems about ConnectPath, for the logins of IosTemplates: for every   *)
(* banner and message of the day, of any length, whatever chunks they      *)
(* arrive in, and wherever the transport or the timeout cuts the login     *)
(* short.                                                                  *)
(***************************************************************************)
EXTENDS ConnectPath, IosTemplates, StreamLemmas, TLAPS

(* A banner has lines of any kind but the prompts a login looks for.       *)
BannerLine == IosKind \ {"prompt"}
Kind  == BannerLine \cup {"username", "password", "prompt", "user_prompt"}
Token == [kind : Kind]

(* What the host has still to see of the device: what is in its buffer, on *)
(* its way, and to be printed is lines, in this order.                     *)
InOrder(buf, coming, out, lines) ==
    /\ Len(lines) = Len(buf) + Len(coming) + Len(out)
    /\ \A i \in 1 .. Len(buf) : buf[i].kind = lines[i]
    /\ \A i \in 1 .. Len(coming) : coming[i].kind = lines[Len(buf) + i]
    /\ \A i \in 1 .. Len(out) : out[i] = lines[Len(buf) + Len(coming) + i]

(* A line that is printed is still in order ...                            *)
LEMMA PrintLemma ==
    ASSUME NEW buf \in Seq(Token), NEW coming \in Seq(Token), NEW out \in Seq(Kind),
           NEW lines \in Seq(Kind), out # <<>>, InOrder(buf, coming, out, lines)
    PROVE  /\ InOrder(buf, Append(coming, [kind |-> Head(out)]), Tail(out), lines)
           /\ Append(coming, [kind |-> Head(out)]) \in Seq(Token) /\ Tail(out) \in Seq(Kind)
  <1> DEFINE token == [kind |-> Head(out)]
  <1>1. /\ Head(out) \in Kind /\ Head(out) = out[1] /\ Len(out) \in Nat \ {0}
        /\ Tail(out) \in Seq(Kind) /\ Len(Tail(out)) = Len(out) - 1
        /\ \A i \in 1 .. (Len(out) - 1) : Tail(out)[i] = out[i + 1]
    BY TailLemma
  <1>2. token \in Token /\ token.kind = out[1]
    BY <1>1 DEF Token
  <1> HIDE DEF token
  <1> DEFINE more == Append(coming, token)  rest == Tail(out)
  <1>3. /\ more \in Seq(Token) /\ Len(more) = Len(coming) + 1
        /\ \A i \in 1 .. Len(coming) : more[i] = coming[i]
        /\ more[Len(coming) + 1] = token
    BY <1>2, AppendLemma
  <1>4. Len(buf) \in Nat /\ Len(coming) \in Nat /\ Len(out) \in Nat \ {0}
    BY <1>1
  <1>5. /\ rest \in Seq(Kind) /\ Len(rest) = Len(out) - 1
        /\ \A i \in 1 .. Len(rest) : rest[i] = out[i + 1]
    BY <1>1
  <1> HIDE DEF more, rest
  <1>6. Len(lines) = Len(buf) + Len(more) + Len(rest)
    BY <1>3, <1>4, <1>5 DEF InOrder
  <1>7. \A i \in 1 .. Len(more) : more[i].kind = lines[Len(buf) + i]
    <2>1. /\ Len(coming) + 1 \in Nat /\ Len(buf) + Len(coming) + 1 = Len(buf) + (Len(coming) + 1)
          /\ 1 \in 1 .. Len(out)
      BY <1>4
    <2>2. \A i \in 1 .. (Len(coming) + 1) : i \in 1 .. Len(coming) \/ i = Len(coming) + 1
      BY <1>4
    <2>3. lines[Len(buf) + (Len(coming) + 1)] = out[1]
      BY <2>1 DEF InOrder
    <2> QED BY <1>2, <1>3, <2>2, <2>3, ZenonT(40) DEF InOrder
  <1>8. \A i \in 1 .. Len(rest) : rest[i] = lines[Len(buf) + Len(more) + i]
    <2>1. \A b, c \in Nat : \A n \in Nat \ {0} : \A i \in 1 .. (n - 1) :
             i + 1 \in 1 .. n /\ b + c + (i + 1) = b + (c + 1) + i
      OBVIOUS
    <2>2. \A i \in 1 .. (Len(out) - 1) :
             /\ i + 1 \in 1 .. Len(out)
             /\ Len(buf) + Len(coming) + (i + 1) = Len(buf) + Len(more) + i
      <3>1. Len(more) = Len(coming) + 1
        BY <1>3
      <3> QED BY <1>4, <2>1, <3>1
    <2>3. \A i \in 1 .. Len(out) : out[i] = lines[Len(buf) + Len(coming) + i]
      BY Zenon DEF InOrder
    <2>4. ASSUME NEW i \in 1 .. Len(rest) PROVE rest[i] = lines[Len(buf) + Len(more) + i]
      <3>1. i \in 1 .. (Len(out) - 1) /\ rest[i] = out[i + 1]
        BY <1>5, Zenon
      <3> QED BY <2>2, <2>3, <3>1, Zenon
    <2> QED BY <2>4
  <1>9. InOrder(buf, more, rest, lines)
    BY <1>6, <1>7, <1>8 DEF InOrder
  <1> QED BY <1>3, <1>5, <1>9 DEF more, rest, token

(* Where a chunk of k tokens goes, of c, behind b tokens.                  *)
LEMMA ChunkLemma ==
    ASSUME NEW b \in Nat, NEW c \in Nat, NEW o \in Nat, NEW k \in 0 .. c
    PROVE  /\ \A i \in 1 .. (b + k) : i \in 1 .. b \/ \E j \in 1 .. k : i = b + j
           /\ \A j \in 1 .. k : j \in 1 .. c
           /\ \A i \in 1 .. (c - k) : k + i \in 1 .. c /\ b + (k + i) = (b + k) + i
           /\ b + c + o = (b + k) + (c - k) + o
           /\ \A i \in 1 .. o : b + c + i = (b + k) + (c - k) + i
  <1>1. ASSUME NEW i \in 1 .. (b + k), i \notin 1 .. b PROVE \E j \in 1 .. k : i = b + j
    <2>1. i - b \in 1 .. k /\ i = b + (i - b)
      BY <1>1
    <2> QED BY <2>1
  <1> QED BY <1>1

(* InOrder, by length and element.                                        *)
Aligned(b, c, o, buf, coming, out, lines) ==
    /\ \A i \in 1 .. b : buf[i].kind = lines[i]
    /\ \A i \in 1 .. c : coming[i].kind = lines[b + i]
    /\ \A i \in 1 .. o : out[i] = lines[b + c + i]

(* A chunk moves from the stream to the buffer.                            *)
LEMMA ChunkMoves ==
    ASSUME NEW b \in Nat, NEW c \in Nat, NEW o \in Nat, NEW k \in 0 .. c,
           NEW buf, NEW coming, NEW out, NEW lines, NEW all, NEW rest,
           Aligned(b, c, o, buf, coming, out, lines),
           \A i \in 1 .. b : all[i] = buf[i],
           \A i \in 1 .. k : all[b + i] = coming[i],
           \A i \in 1 .. (c - k) : rest[i] = coming[k + i]
    PROVE  Aligned(b + k, c - k, o, all, rest, out, lines)
  <1>1. /\ \A i \in 1 .. b : buf[i].kind = lines[i]
        /\ \A i \in 1 .. c : coming[i].kind = lines[b + i]
        /\ \A i \in 1 .. o : out[i] = lines[b + c + i]
    BY DEF Aligned
  <1>2. /\ \A i \in 1 .. (b + k) : i \in 1 .. b \/ \E j \in 1 .. k : i = b + j
        /\ \A j \in 1 .. k : j \in 1 .. c
        /\ \A i \in 1 .. (c - k) : k + i \in 1 .. c /\ b + (k + i) = (b + k) + i
        /\ \A i \in 1 .. o : b + c + i = (b + k) + (c - k) + i
    BY ChunkLemma
  <1>3. \A i \in 1 .. (b + k) : all[i].kind = lines[i]
    <2> SUFFICES ASSUME NEW i \in 1 .. (b + k) PROVE all[i].kind = lines[i]
      OBVIOUS
    <2>1. CASE i \in 1 .. b
      BY <1>1, <2>1
    <2>2. ASSUME NEW j \in 1 .. k, i = b + j PROVE all[i].kind = lines[i]
      BY <1>1, <1>2, <2>2
    <2> QED BY <1>2, <2>1, <2>2
  <1>4. \A i \in 1 .. (c - k) : rest[i].kind = lines[(b + k) + i]
    <2> SUFFICES ASSUME NEW i \in 1 .. (c - k) PROVE rest[i].kind = lines[(b + k) + i]
      OBVIOUS
    <2>1. k + i \in 1 .. c /\ b + (k + i) = (b + k) + i
      BY <1>2
    <2> QED BY <1>1, <2>1
  <1>5. \A i \in 1 .. o : out[i] = lines[(b + k) + (c - k) + i]
    BY <1>1, <1>2
  <1> QED BY <1>3, <1>4, <1>5 DEF Aligned

(* ... and so is a chunk that is received.                                 *)
LEMMA ReceiveLemma ==
    ASSUME NEW buf \in Seq(Token), NEW coming \in Seq(Token), NEW out \in Seq(Kind),
           NEW lines \in Seq(Kind), NEW k \in 0 .. Len(coming), InOrder(buf, coming, out, lines)
    PROVE  /\ InOrder(buf \o SubSeq(coming, 1, k), DrainFront(coming, k), out, lines)
           /\ buf \o SubSeq(coming, 1, k) \in Seq(Token) /\ DrainFront(coming, k) \in Seq(Token)
  <1> DEFINE chunk == SubSeq(coming, 1, k)  rest == DrainFront(coming, k)
  <1>1. chunk \in Seq(Token) /\ Len(chunk) = k /\ \A i \in 1 .. k : chunk[i] = coming[i]
    BY PrefixLemma
  <1>2. /\ rest \in Seq(Token) /\ Len(rest) = Len(coming) - k
        /\ \A i \in 1 .. (Len(coming) - k) : rest[i] = coming[k + i]
    BY DropLemma DEF DrainFront
  <1> HIDE DEF chunk, rest
  <1>13. /\ buf \o chunk \in Seq(Token) /\ Len(buf \o chunk) = Len(buf) + Len(chunk)
         /\ \A i \in 1 .. Len(buf) : (buf \o chunk)[i] = buf[i]
         /\ \A i \in 1 .. Len(chunk) : (buf \o chunk)[Len(buf) + i] = chunk[i]
    <2>1. chunk \in Seq(Token)
      BY <1>1
    <2> QED BY <2>1, ConcatLemma
  <1> DEFINE all == buf \o chunk
  <1> HIDE DEF all
  <1>3. /\ all \in Seq(Token) /\ Len(all) = Len(buf) + Len(chunk)
        /\ \A i \in 1 .. Len(buf) : all[i] = buf[i]
        /\ \A i \in 1 .. Len(chunk) : all[Len(buf) + i] = chunk[i]
    BY <1>13, Zenon DEF all
  <1>4. Len(all) = Len(buf) + k /\ \A i \in 1 .. k : all[Len(buf) + i] = coming[i]
    BY <1>1, <1>3, Zenon
  <1>5. Len(buf) \in Nat /\ Len(coming) \in Nat /\ Len(out) \in Nat
    OBVIOUS
  <1>6. Aligned(Len(buf), Len(coming), Len(out), buf, coming, out, lines)
    BY Zenon DEF InOrder, Aligned
  <1>7. Aligned(Len(buf) + k, Len(coming) - k, Len(out), all, rest, out, lines)
    <2>1. /\ \A i \in 1 .. Len(buf) : all[i] = buf[i]
          /\ \A i \in 1 .. k : all[Len(buf) + i] = coming[i]
          /\ \A i \in 1 .. (Len(coming) - k) : rest[i] = coming[k + i]
      BY <1>2, <1>3, <1>4
    <2> HIDE DEF InOrder
    <2> QED BY <1>5, <1>6, <2>1, ChunkMoves, ZenonT(40)
  <1>8. \A m, n, o \in Nat : \A j \in 0 .. n : m + n + o = (m + j) + (n - j) + o
    OBVIOUS
  <1>9. Len(lines) = (Len(buf) + k) + (Len(coming) - k) + Len(out)
    BY <1>5, <1>8, Zenon DEF InOrder
  <1>10. InOrder(all, rest, out, lines)
    BY <1>2, <1>4, <1>7, <1>9, Zenon DEF InOrder, Aligned
  <1> QED BY <1>2, <1>3, <1>10 DEF rest, chunk, all

(* Where what comes behind a match is, when p of b tokens are drained.     *)
LEMMA ShiftLemma ==
    ASSUME NEW b \in Nat, NEW c \in Nat, NEW o \in Nat, NEW p \in 1 .. b
    PROVE  /\ \A i \in 1 .. (b - p) : p + i \in 1 .. b /\ i \in 1 .. (b + c + o - p)
           /\ \A i \in 1 .. c : p + ((b - p) + i) = b + i /\ (b - p) + i \in 1 .. (b + c + o - p)
           /\ \A i \in 1 .. o : /\ p + ((b - p) + c + i) = b + c + i
                               /\ (b - p) + c + i \in 1 .. (b + c + o - p)
           /\ p \in 0 .. (b + c + o) /\ p \in 1 .. (b + c + o) /\ b + c + o \in Nat
           /\ b + c + o - p = (b - p) + c + o
  OBVIOUS

(* What is behind a match moves to the front.                              *)
LEMMA MatchLeaves ==
    ASSUME NEW b \in Nat, NEW c \in Nat, NEW o \in Nat, NEW p \in 1 .. b,
           NEW buf, NEW coming, NEW out, NEW lines, NEW left, NEW rest,
           Aligned(b, c, o, buf, coming, out, lines),
           \A i \in 1 .. (b - p) : left[i] = buf[p + i],
           \A i \in 1 .. (b + c + o - p) : rest[i] = lines[p + i]
    PROVE  Aligned(b - p, c, o, left, coming, out, rest)
  <1>1. /\ \A i \in 1 .. b : buf[i].kind = lines[i]
        /\ \A i \in 1 .. c : coming[i].kind = lines[b + i]
        /\ \A i \in 1 .. o : out[i] = lines[b + c + i]
    BY DEF Aligned
  <1>2. /\ \A i \in 1 .. (b - p) : p + i \in 1 .. b /\ i \in 1 .. (b + c + o - p)
        /\ \A i \in 1 .. c : p + ((b - p) + i) = b + i /\ (b - p) + i \in 1 .. (b + c + o - p)
        /\ \A i \in 1 .. o : /\ p + ((b - p) + c + i) = b + c + i
                            /\ (b - p) + c + i \in 1 .. (b + c + o - p)
    BY ShiftLemma
  <1>3. ASSUME NEW i \in 1 .. (b - p) PROVE left[i].kind = rest[i]
    BY <1>1, <1>2, <1>3
  <1>4. ASSUME NEW i \in 1 .. c PROVE coming[i].kind = rest[(b - p) + i]
    BY <1>1, <1>2, <1>4, ZenonT(40)
  <1>5. ASSUME NEW i \in 1 .. o PROVE out[i] = rest[(b - p) + c + i]
    BY <1>1, <1>2, <1>5, ZenonT(40)
  <1> QED BY <1>3, <1>4, <1>5 DEF Aligned

(* What a match drains is the beginning of it.                             *)
LEMMA DrainLemma ==
    ASSUME NEW buf \in Seq(Token), NEW coming \in Seq(Token), NEW out \in Seq(Kind),
           NEW lines \in Seq(Kind), NEW p, p \in DOMAIN buf, InOrder(buf, coming, out, lines)
    PROVE  /\ p \in DOMAIN lines /\ buf[p].kind = lines[p]
           /\ DrainFront(buf, p) \in Seq(Token)
           /\ DrainFront(lines, p) \in Seq(Kind) /\ Len(DrainFront(lines, p)) = Len(lines) - p
           /\ \A i \in 1 .. (Len(lines) - p) : DrainFront(lines, p)[i] = lines[p + i]
           /\ InOrder(DrainFront(buf, p), coming, out, DrainFront(lines, p))
  <1>1. /\ Len(buf) \in Nat /\ Len(coming) \in Nat /\ Len(out) \in Nat /\ p \in 1 .. Len(buf)
        /\ p \in 0 .. Len(buf)
    OBVIOUS
  <1>2. \A b, c, o \in Nat : \A q \in 1 .. b :
            /\ q \in 0 .. (b + c + o) /\ q \in 1 .. (b + c + o)
            /\ b + c + o - q = (b - q) + c + o
    OBVIOUS
  <1>3. Len(lines) = Len(buf) + Len(coming) + Len(out)
    BY Zenon DEF InOrder
  <1>4. p \in 0 .. Len(lines) /\ p \in 1 .. Len(lines)
    BY <1>1, <1>2, <1>3
  <1>5. Len(lines) - p = (Len(buf) - p) + Len(coming) + Len(out)
    BY <1>1, <1>2, <1>3
  <1> DEFINE left == DrainFront(buf, p)  rest == DrainFront(lines, p)
  <1>6. /\ left \in Seq(Token) /\ Len(left) = Len(buf) - p
        /\ \A i \in 1 .. (Len(buf) - p) : left[i] = buf[p + i]
    BY <1>1, DropLemma DEF DrainFront
  <1>7. /\ rest \in Seq(Kind) /\ Len(rest) = Len(lines) - p
        /\ \A i \in 1 .. (Len(lines) - p) : rest[i] = lines[p + i]
    BY <1>4, DropLemma DEF DrainFront
  <1> HIDE DEF left, rest
  <1>8. Aligned(Len(buf), Len(coming), Len(out), buf, coming, out, lines)
    BY Zenon DEF InOrder, Aligned
  <1>9. \A i \in 1 .. (Len(buf) + Len(coming) + Len(out) - p) : rest[i] = lines[p + i]
    BY <1>3, <1>7
  <1>10. Aligned(Len(buf) - p, Len(coming), Len(out), left, coming, out, rest)
    BY <1>1, <1>6, <1>8, <1>9, MatchLeaves, Zenon
  <1>11. Len(rest) = (Len(buf) - p) + Len(coming) + Len(out)
    BY <1>5, <1>7, Zenon
  <1>12. InOrder(left, coming, out, rest)
    BY <1>6, <1>10, <1>11, Zenon DEF InOrder, Aligned
  <1>13. buf[p].kind = lines[p]
    BY <1>1, Zenon DEF InOrder
  <1>14. p \in DOMAIN lines
    BY <1>4
  <1> QED BY <1>6, <1>7, <1>12, <1>13, <1>14 DEF left, rest

(* A device that has printed everything says more.                         *)
LEMMA SaysLemma ==
    ASSUME NEW buf \in Seq(Token), NEW coming \in Seq(Token), NEW lines \in Seq(Kind),
           NEW more \in Seq(Kind), InOrder(buf, coming, <<>>, lines)
    PROVE  InOrder(buf, coming, more, lines \o more)
  <1> DEFINE all == lines \o more
  <1>1. /\ Len(all) = Len(lines) + Len(more)
        /\ \A i \in 1 .. Len(lines) : all[i] = lines[i]
        /\ \A i \in 1 .. Len(more) : all[Len(lines) + i] = more[i]
    BY ConcatLemma
  <1> HIDE DEF all
  <1>2. Len(buf) \in Nat /\ Len(coming) \in Nat /\ Len(more) \in Nat /\ Len(lines) = Len(buf) + Len(coming)
    BY DEF InOrder
  <1>3. \A i \in 1 .. Len(buf) : buf[i].kind = all[i]
    BY <1>1, <1>2 DEF InOrder
  <1>4. \A i \in 1 .. Len(coming) : coming[i].kind = all[Len(buf) + i]
    BY <1>1, <1>2 DEF InOrder
  <1>5. \A i \in 1 .. Len(more) : more[i] = all[Len(buf) + Len(coming) + i]
    BY <1>1, <1>2
  <1>6. InOrder(buf, coming, more, all)
    BY <1>1, <1>2, <1>3, <1>4, <1>5 DEF InOrder
  <1> QED BY <1>6 DEF all

-----------------------------------------------------------------------------
(* What the login templates do on what they see.                           *)
PromptKind == {"prompt", "hash", "user_prompt"}

(* A rule that sends, and one that does not.                               *)
IsSend(rule, kinds, text, next) ==
    rule.match = kinds /\ rule.act = "Send" /\ rule.next = next /\ rule.send = text
IsOn(rule, kinds, act) == rule.match = kinds /\ rule.act = act /\ rule.next = Stay

(* The rules of the templates are such.                                    *)
LEMMA RuleLemma ==
    ASSUME NEW kinds, NEW text, NEW next, NEW act
    PROVE  /\ IsSend(Sends(kinds, text, next), kinds, text, next)
           /\ IsSend(TermLen0(kinds), kinds, "terminal length 0", "TermLen")
           /\ IsOn(On(kinds, act, Stay), kinds, act)
  BY DEF Sends, TermLen0, On, IsSend, IsOn

(* The states of the telnet login and their rules.                         *)
LEMMA TelnetTemplate ==
    LET T == CiscoIosTelnetLogin
    IN  /\ DOMAIN T = {"Start", "WaitPassword", "WaitPrompt", "TermLen"}
        /\ DOMAIN T["Start"] = 1 .. 4
        /\ IsSend(T["Start"][1], {"username"}, "username", "WaitPassword")
        /\ IsSend(T["Start"][2], {"password"}, "password", "WaitPrompt")
        /\ IsSend(T["Start"][3], {"prompt", "hash"}, "terminal length 0", "TermLen")
        /\ IsSend(T["Start"][4], {"user_prompt"}, "terminal length 0", "TermLen")
        /\ DOMAIN T["WaitPassword"] = 1 .. 1
        /\ IsSend(T["WaitPassword"][1], {"password"}, "password", "WaitPrompt")
        /\ DOMAIN T["WaitPrompt"] = 1 .. 3
        /\ IsSend(T["WaitPrompt"][1], {"prompt", "hash"}, "terminal length 0", "TermLen")
        /\ IsSend(T["WaitPrompt"][2], {"user_prompt"}, "terminal length 0", "TermLen")
        /\ IsOn(T["WaitPrompt"][3], {"percent"}, "Error")
        /\ DOMAIN T["TermLen"] = 1 .. 2
        /\ IsOn(T["TermLen"][1], {"prompt", "hash"}, "Done")
        /\ IsOn(T["TermLen"][2], {"user_prompt"}, "Done")
  <1> DEFINE T == CiscoIosTelnetLogin
             NameRule == Sends({"username"}, "username", "WaitPassword")
             PasswordRule == Sends({"password"}, "password", "WaitPrompt")
             PromptRule == TermLen0({"prompt", "hash"})
             UserRule == TermLen0({"user_prompt"})
             ErrorRule == On({"percent"}, "Error", Stay)
             DoneRule == On({"prompt", "hash"}, "Done", Stay)
             UserDone == On({"user_prompt"}, "Done", Stay)
  <1>1. T = [Start |-> <<NameRule, PasswordRule, PromptRule, UserRule>>,
             WaitPassword |-> <<PasswordRule>>,
             WaitPrompt |-> <<PromptRule, UserRule, ErrorRule>>,
             TermLen |-> <<DoneRule, UserDone>>]
    BY Zenon DEF CiscoIosTelnetLogin
  <1>2. /\ IsSend(NameRule, {"username"}, "username", "WaitPassword")
        /\ IsSend(PasswordRule, {"password"}, "password", "WaitPrompt")
        /\ IsSend(PromptRule, {"prompt", "hash"}, "terminal length 0", "TermLen")
        /\ IsSend(UserRule, {"user_prompt"}, "terminal length 0", "TermLen")
        /\ IsOn(ErrorRule, {"percent"}, "Error")
        /\ IsOn(DoneRule, {"prompt", "hash"}, "Done")
        /\ IsOn(UserDone, {"user_prompt"}, "Done")
    BY RuleLemma, Zenon
  <1> HIDE DEF T, NameRule, PasswordRule, PromptRule, UserRule, ErrorRule, DoneRule, UserDone
  <1>3. /\ DOMAIN T = {"Start", "WaitPassword", "WaitPrompt", "TermLen"}
        /\ T["Start"] = <<NameRule, PasswordRule, PromptRule, UserRule>>
        /\ T["WaitPassword"] = <<PasswordRule>>
        /\ T["WaitPrompt"] = <<PromptRule, UserRule, ErrorRule>>
        /\ T["TermLen"] = <<DoneRule, UserDone>>
    BY <1>1
  <1>4. /\ DOMAIN T["Start"] = 1 .. 4
        /\ T["Start"][1] = NameRule /\ T["Start"][2] = PasswordRule
        /\ T["Start"][3] = PromptRule /\ T["Start"][4] = UserRule
    BY <1>3
  <1>5. DOMAIN T["WaitPassword"] = 1 .. 1 /\ T["WaitPassword"][1] = PasswordRule
    BY <1>3
  <1>6. /\ DOMAIN T["WaitPrompt"] = 1 .. 3 /\ T["WaitPrompt"][1] = PromptRule
        /\ T["WaitPrompt"][2] = UserRule /\ T["WaitPrompt"][3] = ErrorRule
    BY <1>3
  <1>7. /\ DOMAIN T["TermLen"] = 1 .. 2 /\ T["TermLen"][1] = DoneRule
        /\ T["TermLen"][2] = UserDone
    BY <1>3
  <1> QED BY <1>2, <1>3, <1>4, <1>5, <1>6, <1>7, Zenon DEF T

(* Those of the login that follows an SSH authentication.                  *)
LEMMA SshTemplate ==
    LET T == CiscoIosSshPostLogin
    IN  /\ DOMAIN T = {"Start", "TermLen"}
        /\ DOMAIN T["Start"] = 1 .. 1
        /\ IsSend(T["Start"][1], {"prompt", "hash"}, "terminal length 0", "TermLen")
        /\ DOMAIN T["TermLen"] = 1 .. 1
        /\ IsOn(T["TermLen"][1], {"prompt", "hash"}, "Done")
  <1> DEFINE T == CiscoIosSshPostLogin
             PromptRule == TermLen0({"prompt", "hash"})
             DoneRule == On({"prompt", "hash"}, "Done", Stay)
  <1>1. T = [Start |-> <<PromptRule>>, TermLen |-> <<DoneRule>>]
    BY Zenon DEF CiscoIosSshPostLogin
  <1>2. /\ IsSend(PromptRule, {"prompt", "hash"}, "terminal length 0", "TermLen")
        /\ IsOn(DoneRule, {"prompt", "hash"}, "Done")
    BY RuleLemma, Zenon
  <1> HIDE DEF T, PromptRule, DoneRule
  <1>3. /\ DOMAIN T = {"Start", "TermLen"}
        /\ T["Start"] = <<PromptRule>> /\ T["TermLen"] = <<DoneRule>>
    BY <1>1
  <1>4. /\ DOMAIN T["Start"] = 1 .. 1 /\ T["Start"][1] = PromptRule
        /\ DOMAIN T["TermLen"] = 1 .. 1 /\ T["TermLen"][1] = DoneRule
    BY <1>3
  <1> QED BY <1>2, <1>3, <1>4, Zenon DEF T

(* A template whose rules go on to states it has.                          *)
Closed(template) ==
    /\ "Start" \in DOMAIN template
    /\ \A state \in DOMAIN template : \A i \in DOMAIN template[state] :
          StateAfter(state, template[state][i]) \in DOMAIN template

(* Both login templates are.                                               *)
LEMMA LoginsClosed == Closed(CiscoIosTelnetLogin) /\ Closed(CiscoIosSshPostLogin)
  <1> DEFINE SendsTo(rule, state) == \E kinds, text : IsSend(rule, kinds, text, state)
             Ends(rule) == \E kinds, act : IsOn(rule, kinds, act)
  <1>1. ASSUME NEW rule, NEW state
        PROVE  /\ SendsTo(rule, "WaitPassword") => StateAfter(state, rule) = "WaitPassword"
               /\ SendsTo(rule, "WaitPrompt") => StateAfter(state, rule) = "WaitPrompt"
               /\ SendsTo(rule, "TermLen") => StateAfter(state, rule) = "TermLen"
               /\ Ends(rule) => StateAfter(state, rule) = state
    BY DEF IsSend, IsOn, StateAfter, Stay
  <1>2. /\ \A j : j \in 1 .. 4 <=> j \in {1, 2, 3, 4}
        /\ \A j : j \in 1 .. 3 <=> j \in {1, 2, 3}
        /\ \A j : j \in 1 .. 2 <=> j \in {1, 2}
        /\ \A j : j \in 1 .. 1 <=> j \in {1}
    OBVIOUS
  <1>3. Closed(CiscoIosTelnetLogin)
    <2> DEFINE T == CiscoIosTelnetLogin
    <2>1. /\ DOMAIN T = {"Start", "WaitPassword", "WaitPrompt", "TermLen"}
          /\ DOMAIN T["Start"] = {1, 2, 3, 4} /\ DOMAIN T["WaitPassword"] = {1}
          /\ DOMAIN T["WaitPrompt"] = {1, 2, 3} /\ DOMAIN T["TermLen"] = {1, 2}
      <3>1. 1 .. 4 = {1, 2, 3, 4} /\ 1 .. 3 = {1, 2, 3} /\ 1 .. 2 = {1, 2} /\ 1 .. 1 = {1}
        BY <1>2
      <3> QED BY <3>1, TelnetTemplate, Zenon
    <2>2. /\ SendsTo(T["Start"][1], "WaitPassword") /\ SendsTo(T["Start"][2], "WaitPrompt")
          /\ SendsTo(T["Start"][3], "TermLen") /\ SendsTo(T["Start"][4], "TermLen")
          /\ SendsTo(T["WaitPassword"][1], "WaitPrompt")
          /\ SendsTo(T["WaitPrompt"][1], "TermLen") /\ SendsTo(T["WaitPrompt"][2], "TermLen")
          /\ Ends(T["WaitPrompt"][3]) /\ Ends(T["TermLen"][1]) /\ Ends(T["TermLen"][2])
      BY TelnetTemplate, Zenon
    <2> HIDE DEF T, SendsTo, Ends
    <2>3. ASSUME NEW state \in DOMAIN T, NEW i \in DOMAIN T[state]
          PROVE  StateAfter(state, T[state][i]) \in DOMAIN T
      BY <1>1, <2>1, <2>2
    <2>4. Closed(T)
      BY <2>1, <2>3 DEF Closed
    <2> QED BY <2>4 DEF T
  <1>4. Closed(CiscoIosSshPostLogin)
    <2> DEFINE T == CiscoIosSshPostLogin
    <2>1. DOMAIN T = {"Start", "TermLen"} /\ DOMAIN T["Start"] = {1} /\ DOMAIN T["TermLen"] = {1}
      <3>1. 1 .. 1 = {1}
        BY <1>2
      <3> QED BY <3>1, SshTemplate, Zenon
    <2>2. SendsTo(T["Start"][1], "TermLen") /\ Ends(T["TermLen"][1])
      BY SshTemplate, Zenon
    <2> HIDE DEF T, SendsTo, Ends
    <2>3. ASSUME NEW state \in DOMAIN T, NEW i \in DOMAIN T[state]
          PROVE  StateAfter(state, T[state][i]) \in DOMAIN T
      BY <1>1, <2>1, <2>2
    <2>4. Closed(T)
      BY <2>1, <2>3 DEF Closed
    <2> QED BY <2>4 DEF T
  <1> QED BY <1>3, <1>4

(* What a rule matched, and what is done then.                             *)
LEMMA TelnetFires ==
    ASSUME NEW state \in DOMAIN CiscoIosTelnetLogin, NEW i \in DOMAIN CiscoIosTelnetLogin[state],
           NEW kind \in CiscoIosTelnetLogin[state][i].match
    PROVE  LET rule == CiscoIosTelnetLogin[state][i]  next == StateAfter(state, rule) IN
           \/ /\ rule.act = "Send"
              /\ \/ /\ state = "Start" /\ kind = "username"
                    /\ rule.send = "username" /\ next = "WaitPassword"
                 \/ /\ state \in {"Start", "WaitPassword"} /\ kind = "password"
                    /\ rule.send = "password" /\ next = "WaitPrompt"
                 \/ /\ state \in {"Start", "WaitPrompt"} /\ kind \in PromptKind
                    /\ rule.send = "terminal length 0" /\ next = "TermLen"
           \/ rule.act = "Error" /\ state = "WaitPrompt" /\ kind = "percent"
           \/ rule.act = "Done" /\ state = "TermLen" /\ kind \in PromptKind
  <1> DEFINE rule == CiscoIosTelnetLogin[state][i]
  <1>0. /\ \A j : j \in 1 .. 4 <=> j \in {1, 2, 3, 4}
        /\ \A j : j \in 1 .. 3 <=> j \in {1, 2, 3}
        /\ \A j : j \in 1 .. 2 <=> j \in {1, 2}
        /\ \A j : j \in 1 .. 1 <=> j \in {1}
    OBVIOUS
  <1>1. ASSUME state = "Start" PROVE i \in {1, 2, 3, 4}
    BY <1>0, <1>1, TelnetTemplate, Zenon
  <1>2. ASSUME state = "WaitPassword" PROVE i \in {1}
    BY <1>0, <1>2, TelnetTemplate, Zenon
  <1>3. ASSUME state = "WaitPrompt" PROVE i \in {1, 2, 3}
    BY <1>0, <1>3, TelnetTemplate, Zenon
  <1>4. ASSUME state = "TermLen" PROVE i \in {1, 2}
    BY <1>0, <1>4, TelnetTemplate, Zenon
  <1>5. \/ /\ state = "Start"
           /\ \/ IsSend(rule, {"username"}, "username", "WaitPassword")
              \/ IsSend(rule, {"password"}, "password", "WaitPrompt")
              \/ IsSend(rule, {"prompt", "hash"}, "terminal length 0", "TermLen")
              \/ IsSend(rule, {"user_prompt"}, "terminal length 0", "TermLen")
        \/ state = "WaitPassword" /\ IsSend(rule, {"password"}, "password", "WaitPrompt")
        \/ /\ state = "WaitPrompt"
           /\ \/ IsSend(rule, {"prompt", "hash"}, "terminal length 0", "TermLen")
              \/ IsSend(rule, {"user_prompt"}, "terminal length 0", "TermLen")
              \/ IsOn(rule, {"percent"}, "Error")
        \/ /\ state = "TermLen"
           /\ IsOn(rule, {"prompt", "hash"}, "Done") \/ IsOn(rule, {"user_prompt"}, "Done")
    <2>1. CASE state = "Start"
      BY <1>1, <2>1, TelnetTemplate, Zenon
    <2>2. CASE state = "WaitPassword"
      BY <1>2, <2>2, TelnetTemplate, Zenon
    <2>3. CASE state = "WaitPrompt"
      BY <1>3, <2>3, TelnetTemplate, Zenon
    <2>4. CASE state = "TermLen"
      BY <1>4, <2>4, TelnetTemplate, Zenon
    <2> QED BY <2>1, <2>2, <2>3, <2>4, TelnetTemplate
  <1>6. kind \in rule.match
    OBVIOUS
  <1> HIDE DEF rule
  <1>7. \/ /\ rule.act = "Send"
           /\ \/ /\ state = "Start" /\ kind = "username"
                 /\ rule.send = "username" /\ StateAfter(state, rule) = "WaitPassword"
              \/ /\ state \in {"Start", "WaitPassword"} /\ kind = "password"
                 /\ rule.send = "password" /\ StateAfter(state, rule) = "WaitPrompt"
              \/ /\ state \in {"Start", "WaitPrompt"} /\ kind \in PromptKind
                 /\ rule.send = "terminal length 0" /\ StateAfter(state, rule) = "TermLen"
        \/ rule.act = "Error" /\ state = "WaitPrompt" /\ kind = "percent"
        \/ rule.act = "Done" /\ state = "TermLen" /\ kind \in PromptKind
    BY <1>5, <1>6 DEF IsSend, IsOn, StateAfter, Stay, PromptKind
  <1> QED BY <1>7 DEF rule

(* The same for SSH.                                                       *)
LEMMA SshFires ==
    ASSUME NEW state \in DOMAIN CiscoIosSshPostLogin, NEW i \in DOMAIN CiscoIosSshPostLogin[state],
           NEW kind \in CiscoIosSshPostLogin[state][i].match
    PROVE  LET rule == CiscoIosSshPostLogin[state][i]  next == StateAfter(state, rule) IN
           /\ kind \in {"prompt", "hash"}
           /\ \/ /\ rule.act = "Send" /\ state = "Start"
                 /\ rule.send = "terminal length 0" /\ next = "TermLen"
              \/ rule.act = "Done" /\ state = "TermLen"
  <1> DEFINE rule == CiscoIosSshPostLogin[state][i]
  <1>1. \A j : j \in 1 .. 1 <=> j = 1
    OBVIOUS
  <1>2. \/ state = "Start" /\ IsSend(rule, {"prompt", "hash"}, "terminal length 0", "TermLen")
        \/ state = "TermLen" /\ IsOn(rule, {"prompt", "hash"}, "Done")
    BY <1>1, SshTemplate, Zenon
  <1>3. kind \in rule.match
    OBVIOUS
  <1> HIDE DEF rule
  <1>4. /\ kind \in {"prompt", "hash"}
        /\ \/ /\ rule.act = "Send" /\ state = "Start"
              /\ rule.send = "terminal length 0" /\ StateAfter(state, rule) = "TermLen"
           \/ rule.act = "Done" /\ state = "TermLen"
    BY <1>2, <1>3 DEF IsSend, IsOn, StateAfter, Stay
  <1> QED BY <1>4 DEF rule

(* A rule that fires matched a token of the buffer.                        *)
LEMMA FiresLemma ==
    ASSUME NEW template, NEW state, NEW buf, NEW i, NEW p, Fires(template, state, buf, i, p)
    PROVE  i \in DOMAIN template[state] /\ p \in DOMAIN buf /\ buf[p].kind \in template[state][i].match
  BY DEF Fires

(* When no rule fires, nothing the state waits for is in the buffer.       *)
LEMMA TelnetWaits ==
    ASSUME NEW state, NEW buf, NEW q \in DOMAIN buf,
           NoRuleFires(CiscoIosTelnetLogin, state, buf)
    PROVE  /\ state = "Start" => buf[q].kind \notin PromptKind \cup {"username", "password"}
           /\ state = "WaitPassword" => buf[q].kind # "password"
           /\ state = "WaitPrompt" => buf[q].kind \notin PromptKind \cup {"percent"}
           /\ state = "TermLen" => buf[q].kind \notin PromptKind
  <1>1. ASSUME NEW rule, NEW kinds, NEW text, NEW next, NEW act,
               \/ IsSend(rule, kinds, text, next)
               \/ IsOn(rule, kinds, act) /\ act # "Continue",
               ~ Stops(rule, buf)
        PROVE  buf[q].kind \notin kinds
    BY <1>1 DEF IsSend, IsOn, Stops
  <1>2. \A i \in DOMAIN CiscoIosTelnetLogin[state] : ~ Stops(CiscoIosTelnetLogin[state][i], buf)
    BY DEF NoRuleFires
  <1>3. /\ 1 \in 1 .. 4 /\ 2 \in 1 .. 4 /\ 3 \in 1 .. 4 /\ 4 \in 1 .. 4
        /\ 1 \in 1 .. 1 /\ 1 \in 1 .. 3 /\ 2 \in 1 .. 3 /\ 3 \in 1 .. 3 /\ 1 \in 1 .. 2 /\ 2 \in 1 .. 2
        /\ "Error" # "Continue" /\ "Done" # "Continue"
    OBVIOUS
  <1>4. ASSUME state = "Start"
        PROVE  buf[q].kind \notin PromptKind \cup {"username", "password"}
    <2>1. buf[q].kind \notin {"username"} /\ buf[q].kind \notin {"password"}
      BY <1>1, <1>2, <1>3, <1>4, TelnetTemplate, ZenonT(40)
    <2>2. buf[q].kind \notin {"prompt", "hash"}
      <3>1. /\ IsSend(CiscoIosTelnetLogin[state][3], {"prompt", "hash"}, "terminal length 0", "TermLen")
            /\ ~ Stops(CiscoIosTelnetLogin[state][3], buf)
        BY <1>2, <1>3, <1>4, TelnetTemplate, Zenon
      <3> QED BY <1>1, <1>3, <3>1, Zenon
    <2>3. buf[q].kind \notin {"user_prompt"}
      <3>1. /\ IsSend(CiscoIosTelnetLogin[state][4], {"user_prompt"}, "terminal length 0", "TermLen")
            /\ ~ Stops(CiscoIosTelnetLogin[state][4], buf)
        BY <1>2, <1>3, <1>4, TelnetTemplate, Zenon
      <3> QED BY <1>1, <1>3, <3>1, Zenon
    <2> QED BY <2>1, <2>2, <2>3 DEF PromptKind
  <1>5. ASSUME state = "WaitPassword" PROVE buf[q].kind \notin {"password"}
    BY <1>1, <1>2, <1>3, <1>5, TelnetTemplate, Zenon
  <1>6. ASSUME state = "WaitPrompt" PROVE buf[q].kind \notin PromptKind \cup {"percent"}
    <2>1. buf[q].kind \notin {"prompt", "hash"}
      BY <1>1, <1>2, <1>3, <1>6, TelnetTemplate, Zenon
    <2>3. buf[q].kind \notin {"user_prompt"}
      BY <1>1, <1>2, <1>3, <1>6, TelnetTemplate, Zenon
    <2>2. buf[q].kind \notin {"percent"}
      <3>1. /\ IsOn(CiscoIosTelnetLogin[state][3], {"percent"}, "Error")
            /\ ~ Stops(CiscoIosTelnetLogin[state][3], buf)
        BY <1>2, <1>3, <1>6, TelnetTemplate, Zenon
      <3> QED BY <1>1, <1>3, <3>1, Zenon
    <2> QED BY <2>1, <2>2, <2>3 DEF PromptKind
  <1>7. ASSUME state = "TermLen" PROVE buf[q].kind \notin PromptKind
    <2>1. buf[q].kind \notin {"prompt", "hash"}
      BY <1>1, <1>2, <1>3, <1>7, TelnetTemplate, ZenonT(40)
    <2>3. buf[q].kind \notin {"user_prompt"}
      BY <1>1, <1>2, <1>3, <1>7, TelnetTemplate, ZenonT(40)
    <2> QED BY <2>1, <2>3 DEF PromptKind
  <1> QED BY <1>4, <1>5, <1>6, <1>7

(* The same for SSH.                                                       *)
LEMMA SshWaits ==
    ASSUME NEW state \in {"Start", "TermLen"}, NEW buf, NEW q \in DOMAIN buf,
           NoRuleFires(CiscoIosSshPostLogin, state, buf)
    PROVE  buf[q].kind \notin {"prompt", "hash"}
  <1>1. ASSUME NEW rule, NEW kinds, NEW text, NEW next, NEW act,
               \/ IsSend(rule, kinds, text, next)
               \/ IsOn(rule, kinds, act) /\ act # "Continue",
               ~ Stops(rule, buf)
        PROVE  buf[q].kind \notin kinds
    BY <1>1 DEF IsSend, IsOn, Stops
  <1>2. \A i \in DOMAIN CiscoIosSshPostLogin[state] : ~ Stops(CiscoIosSshPostLogin[state][i], buf)
    BY DEF NoRuleFires
  <1>3. 1 \in 1 .. 1 /\ "Done" # "Continue"
    OBVIOUS
  <1> QED BY <1>1, <1>2, <1>3, SshTemplate, ZenonT(40)

-----------------------------------------------------------------------------
(* The paths that end as those of CiscoIosConn::new() do, whatever they go *)
(* through before.                                                         *)
EndsWith(p, t) ==
    /\ ~ p.over /\ \E H : p.hops \in Seq(H)
    /\ Len(p.hops) > 1
    /\ p.hops[Len(p.hops) - 1] = IosHops(t)[1] /\ p.hops[Len(p.hops)] = IosHops(t)[2]

LoginPath(p) == EndsWith(p, "telnet") \/ EndsWith(p, "ssh")

Banners(s) == s.banner \in Seq(BannerLine) /\ s.motd \in Seq(BannerLine) /\ s.enabled \in BOOLEAN

Last   == Len(path.hops)
Telnet == path.hops[Last - 1].to = "telnet"

(* What the proofs use of such a path.                                     *)
LEMMA PathLemma ==
    ASSUME LoginPath(path)
    PROVE  /\ Last \in Nat /\ Last > 1 /\ DOMAIN path.hops = 1 .. Last /\ ~ path.over
           /\ path.hops[Last - 1].type = "transport" /\ path.hops[Last - 1].to \in {"telnet", "ssh"}
           /\ path.hops[Last].type = "interactive"
           /\ path.hops[Last].template = IF Telnet THEN CiscoIosTelnetLogin ELSE CiscoIosSshPostLogin
  <1>1. PICK t \in {"telnet", "ssh"} : EndsWith(path, t)
    BY DEF LoginPath
  <1>2. PICK H : path.hops \in Seq(H)
    BY <1>1 DEF EndsWith
  <1>3. Last \in Nat /\ DOMAIN path.hops = 1 .. Last
    BY <1>2 DEF Last
  <1>4. ~ path.over /\ Last > 1 /\ path.hops[Last - 1] = IosHops(t)[1] /\ path.hops[Last] = IosHops(t)[2]
    BY <1>1 DEF EndsWith, Last
  <1> DEFINE rules == IF t = "telnet" THEN CiscoIosTelnetLogin ELSE CiscoIosSshPostLogin
             ToHop == To(t)
             ByHop == By(rules)
  <1>5. IosHops(t) = <<ToHop, ByHop>>
    BY Zenon DEF IosHops
  <1>6. ToHop.type = "transport" /\ ToHop.to = t
    BY DEF To
  <1>7. ByHop.type = "interactive" /\ ByHop.template = rules
    BY DEF By
  <1> HIDE DEF ToHop, ByHop
  <1>8. IosHops(t)[1] = ToHop /\ IosHops(t)[2] = ByHop
    BY <1>5
  <1>9. Telnet <=> t = "telnet"
    BY <1>4, <1>6, <1>8, Zenon DEF Telnet
  <1> QED BY <1>3, <1>4, <1>6, <1>7, <1>8, <1>9

-----------------------------------------------------------------------------
(* The stages of a login, by what the host still has to see, what it sent  *)
(* and the mode of the device.                                             *)
Ahead(buf, lines) == InOrder(buf, toHost, devOut, lines)

(* Before anything was sent.                                               *)
AtLogin(buf) ==
    /\ toDev = <<>>
    /\ IF Telnet THEN devMode = "username" /\ Ahead(buf, LoginPrompt)
                 ELSE devMode = "exec" /\ Ahead(buf, server.banner \o Landing)

NameSent ==
    fsm = "WaitPassword" /\ devMode = "username" /\ toDev = <<"username">> /\ Ahead(buffer, <<>>)
NameTaken ==
    /\ fsm = "WaitPassword" /\ devMode = "password" /\ toDev = <<>>
    /\ credentials # "bad_user" /\ Ahead(buffer, <<"password">>)
NameUnknown ==
    /\ fsm = "WaitPassword" /\ devMode = "username" /\ toDev = <<>>
    /\ credentials = "bad_user" /\ Ahead(buffer, <<"percent", "username">>)
PasswordSent ==
    /\ fsm = "WaitPrompt" /\ devMode = "password" /\ toDev = <<"password">>
    /\ credentials # "bad_user" /\ Ahead(buffer, <<>>)
Refused ==
    /\ fsm = "WaitPrompt" /\ devMode = "username" /\ toDev = <<>>
    /\ credentials = "bad_password" /\ Ahead(buffer, <<"percent", "username">>)
LoggedIn ==
    fsm = "WaitPrompt" /\ devMode = "exec" /\ toDev = <<>> /\ Ahead(buffer, Landing)

(* What is left behind the prompt that was matched: nothing, unless it was *)
(* a line of the message of the day.                                       *)
Behind(rest) == rest \in Seq(Kind) /\ (~ Marked(server.motd) => rest = <<>>)

LengthSent ==
    /\ fsm = "TermLen" /\ devMode = "exec" /\ toDev = <<"terminal length 0">>
    /\ \E rest : Behind(rest) /\ Ahead(buffer, rest)
LengthSet ==
    /\ fsm = "TermLen" /\ devMode = "exec" /\ toDev = <<>> /\ ~ paging
    /\ \E rest : Behind(rest) /\ Ahead(buffer, Append(rest, Prompt))

(* A line of the banner was taken for a prompt: the lines that are sent    *)
(* then meet the wrong questions, and anything may follow.                 *)
Misled == fsm = "TermLen" /\ Marked(server.banner)

Stage ==
    \/ fsm = "Start" /\ AtLogin(buffer)
    \/ Telnet /\ (NameSent \/ NameTaken \/ NameUnknown \/ PasswordSent \/ Refused \/ LoggedIn)
    \/ LengthSent \/ LengthSet \/ Misled

(* What the buffer may hold, with the transport up or down.                *)
Holds(kinds) == \E q \in DOMAIN buffer : buffer[q].kind \in kinds
Percent == \E i \in DOMAIN server.motd : server.motd[i] = "percent"
Seen ==
    /\ fsm \in DOMAIN path.hops[Last].template
    /\ fsm = "TermLen" /\ Holds(PromptKind) /\ ~ Marked(server.banner) =>
         devMode = "exec" /\ (~ Marked(server.motd) => ~ paging)
    /\ fsm = "WaitPrompt" /\ Holds({"percent"}) => credentials = "bad_password" \/ Percent

(* What a login that is done has come to.                                  *)
Empty == toHost = <<>> /\ toDev = <<>> /\ devOut = <<>>
Handed ==
    ~ Marked(server.banner) =>
        /\ devMode = "exec"
        /\ ~ Marked(server.motd) => ~ paging /\ (stream = "up" => Empty /\ Last \notin cut)

Request ==
    /\ LoginPath(path) /\ Banners(server)
    /\ credentials \in {"good", "bad_user", "bad_password"}

Flows ==
    /\ toHost \in Seq(Token) /\ devOut \in Seq(Kind)
    /\ devMode \in {"username", "password", "exec"}
    /\ pc = "drive" => buffer \in Seq(Token)

Hops ==
    /\ hop \in 1 .. Last + 1
    /\ pc \in {"drive", "template", "panic"} => hop \in 1 .. Last /\ Hop.type = "interactive"
    /\ pc = "ok" => hop = Last + 1
    /\ hop <= Last => Last \notin cut

Login ==
    /\ stream # "none" /\ pc # "panic" /\ Flows
    /\ pc = "template" => credentials = "bad_password" \/ Percent
    /\ pc = "hop" /\ stream = "up" => AtLogin(<<>>)
    /\ pc = "drive" => IF stream = "up" THEN Stage ELSE Seen

LoginInv == Request /\ Hops /\ (hop = Last => Login) /\ (hop = Last + 1 => Handed)

(* A sequence of banner lines is one of lines.                             *)
LEMMA WiderLemma ==
    ASSUME NEW S, NEW R, S \subseteq R, NEW s \in Seq(S)
    PROVE  s \in Seq(R)
  <1>1. s \in [1 .. Len(s) -> R] /\ Len(s) \in Nat
    OBVIOUS
  <1> QED BY <1>1, ElementsLemma

(* The sequences a device prints.                                          *)
LEMMA PrintedLemma ==
    ASSUME Banners(server)
    PROVE  /\ Len(server.banner) \in Nat /\ Len(server.motd) \in Nat
           /\ Prompt \in {"prompt", "user_prompt"}
           /\ LoginPrompt \in Seq(Kind) /\ Landing \in Seq(Kind)
           /\ server.banner \in Seq(Kind) /\ server.motd \in Seq(Kind)
           /\ Len(LoginPrompt) = Len(server.banner) + 1 /\ Len(Landing) = Len(server.motd) + 1
           /\ \A i \in 1 .. Len(server.banner) : LoginPrompt[i] = server.banner[i]
           /\ LoginPrompt[Len(server.banner) + 1] = "username"
           /\ \A i \in 1 .. Len(server.motd) : Landing[i] = server.motd[i]
           /\ Landing[Len(server.motd) + 1] = Prompt
           /\ \A i \in 1 .. Len(server.banner) : server.banner[i] \in BannerLine
           /\ \A i \in 1 .. Len(server.motd) : server.motd[i] \in BannerLine
  <1>1. server.banner \in Seq(BannerLine) /\ server.motd \in Seq(BannerLine)
    BY DEF Banners
  <1>2. BannerLine \subseteq Kind /\ "username" \in Kind /\ Prompt \in Kind
        /\ Prompt \in {"prompt", "user_prompt"}
    BY DEF Kind, Prompt
  <1>3. server.banner \in Seq(Kind) /\ server.motd \in Seq(Kind)
    BY <1>1, <1>2, WiderLemma
  <1>4. /\ LoginPrompt \in Seq(Kind) /\ Len(LoginPrompt) = Len(server.banner) + 1
        /\ \A i \in 1 .. Len(server.banner) : LoginPrompt[i] = server.banner[i]
        /\ LoginPrompt[Len(server.banner) + 1] = "username"
    BY <1>2, <1>3, AppendLemma DEF LoginPrompt
  <1>5. /\ Landing \in Seq(Kind) /\ Len(Landing) = Len(server.motd) + 1
        /\ \A i \in 1 .. Len(server.motd) : Landing[i] = server.motd[i]
        /\ Landing[Len(server.motd) + 1] = Prompt
    BY <1>2, <1>3, AppendLemma DEF Landing
  <1> QED BY <1>1, <1>2, <1>3, <1>4, <1>5

(* No line of a banner is one that a login waits for, but "%" and "#".     *)
LEMMA BannerKinds ==
    /\ "username" \notin BannerLine /\ "password" \notin BannerLine /\ "user_prompt" \notin BannerLine
    /\ \A kind \in BannerLine \cap PromptKind : kind = "hash"
  BY DEF BannerLine, IosKind, IosAsks, PromptKind

(* What a login finds in the output of a device that asks for a name ...   *)
LEMMA LoginKinds ==
    ASSUME Banners(server), NEW p \in DOMAIN LoginPrompt
    PROVE  /\ LoginPrompt[p] = "username" => p = Len(LoginPrompt)
           /\ LoginPrompt[p] # "password"
           /\ LoginPrompt[p] \in PromptKind => Marked(server.banner)
  <1>1. p \in 1 .. Len(server.banner) \/ p = Len(server.banner) + 1
    <2>1. p \in 1 .. (Len(server.banner) + 1) /\ Len(server.banner) \in Nat
      BY PrintedLemma
    <2> QED BY <2>1
  <1>2. CASE p \in 1 .. Len(server.banner)
    <2>1. LoginPrompt[p] = server.banner[p] /\ server.banner[p] \in BannerLine
      BY <1>2, PrintedLemma
    <2>2. p \in DOMAIN server.banner
      BY <1>2 DEF Banners
    <2> QED BY <2>1, <2>2, BannerKinds DEF Marked
  <1>3. CASE p = Len(server.banner) + 1
    BY <1>3, PrintedLemma DEF PromptKind
  <1> QED BY <1>1, <1>2, <1>3

(* ... of one that was logged in to ...                                    *)
LEMMA LandingKinds ==
    ASSUME Banners(server), NEW p \in DOMAIN Landing
    PROVE  /\ Landing[p] = "percent" => Percent
           /\ Landing[p] \notin {"username", "password"}
           /\ Landing[p] \in PromptKind => p = Len(Landing) \/ Marked(server.motd)
           /\ p = Len(Landing) => Landing[p] = Prompt
  <1>1. /\ p \in 1 .. Len(server.motd) \/ p = Len(server.motd) + 1
        /\ p = Len(Landing) <=> p = Len(server.motd) + 1
    <2>1. p \in 1 .. (Len(server.motd) + 1) /\ Len(server.motd) \in Nat
      BY PrintedLemma
    <2>2. Len(Landing) = Len(server.motd) + 1
      BY PrintedLemma
    <2> QED BY <2>1, <2>2
  <1>2. CASE p \in 1 .. Len(server.motd)
    <2>1. Landing[p] = server.motd[p] /\ server.motd[p] \in BannerLine
      BY <1>2, PrintedLemma
    <2>2. p \in DOMAIN server.motd
      BY <1>2 DEF Banners
    <2>3. p # Len(server.motd) + 1
      BY <1>2, PrintedLemma
    <2> QED BY <1>1, <2>1, <2>2, <2>3, BannerKinds DEF Marked, Percent
  <1>3. CASE p = Len(server.motd) + 1
    <2>1. Landing[p] = Prompt /\ Prompt \in {"prompt", "user_prompt"}
      BY <1>3, PrintedLemma
    <2> QED BY <1>1, <1>3, <2>1
  <1> QED BY <1>1, <1>2, <1>3

(* ... and of one that is reached by SSH.                                  *)
LEMMA SshKinds ==
    ASSUME Banners(server), NEW lines, lines = server.banner \o Landing
    PROVE  /\ lines \in Seq(Kind) /\ Len(lines) \in Nat \ {0} /\ lines[Len(lines)] = Prompt
           /\ \A p \in DOMAIN lines : lines[p] \in PromptKind =>
                 p = Len(lines) \/ Marked(server.motd) \/ Marked(server.banner)
  <1>1. /\ lines \in Seq(Kind) /\ Len(lines) = Len(server.banner) + Len(Landing)
        /\ \A i \in 1 .. Len(server.banner) : lines[i] = server.banner[i]
        /\ \A i \in 1 .. Len(Landing) : lines[Len(server.banner) + i] = Landing[i]
    <2>1. server.banner \in Seq(Kind) /\ Landing \in Seq(Kind)
      BY PrintedLemma
    <2> QED BY <2>1, ConcatLemma
  <1>2. Len(server.banner) \in Nat /\ Len(Landing) \in Nat \ {0} /\ Landing[Len(Landing)] = Prompt
    <2>1. /\ Len(server.banner) \in Nat /\ Len(server.motd) \in Nat
          /\ Len(Landing) = Len(server.motd) + 1 /\ Landing[Len(server.motd) + 1] = Prompt
      BY PrintedLemma
    <2> QED BY <2>1
  <1>3. Len(lines) \in Nat \ {0} /\ lines[Len(lines)] = Prompt
    <2>1. Len(Landing) \in 1 .. Len(Landing)
      BY <1>2
    <2>2. Len(lines) \in Nat \ {0}
      BY <1>1, <1>2
    <2> QED BY <1>1, <1>2, <2>1, <2>2
  <1>4. ASSUME NEW p \in DOMAIN lines, lines[p] \in PromptKind
        PROVE  p = Len(lines) \/ Marked(server.motd) \/ Marked(server.banner)
    <2>1. \A b, n \in Nat : \A q \in 1 .. (b + n) :
             q \in 1 .. b \/ (q - b \in 1 .. n /\ q = b + (q - b))
      OBVIOUS
    <2>2. p \in 1 .. (Len(server.banner) + Len(Landing))
      BY <1>1
    <2>3. \/ p \in 1 .. Len(server.banner)
          \/ \E q \in 1 .. Len(Landing) : p = Len(server.banner) + q
      <3>1. Len(Landing) \in Nat
        BY <1>2
      <3> QED BY <1>2, <2>1, <2>2, <3>1, Zenon
    <2>4. CASE p \in 1 .. Len(server.banner)
      <3>1. server.banner[p] \in BannerLine \cap PromptKind /\ p \in DOMAIN server.banner
        BY <1>1, <1>4, <2>4, PrintedLemma DEF Banners
      <3> QED BY <3>1, BannerKinds DEF Marked
    <2>5. ASSUME NEW q \in 1 .. Len(Landing), p = Len(server.banner) + q
          PROVE  p = Len(lines) \/ Marked(server.motd)
      <3>1. Landing[q] \in PromptKind
        BY <1>1, <1>4, <2>5
      <3>2. q \in DOMAIN Landing
        BY PrintedLemma
      <3>3. q = Len(Landing) \/ Marked(server.motd)
        BY <3>1, <3>2, LandingKinds
      <3> QED BY <1>1, <2>5, <3>3
    <2> QED BY <2>3, <2>4, <2>5
  <1> QED BY <1>1, <1>3, <1>4

(* Nothing ahead, or one line.                                             *)
LEMMA NothingAhead ==
    ASSUME NEW buf \in Seq(Token), NEW coming \in Seq(Token), NEW out \in Seq(Kind),
           InOrder(buf, coming, out, <<>>)
    PROVE  buf = <<>> /\ coming = <<>> /\ out = <<>>
  <1>1. Len(buf) \in Nat /\ Len(coming) \in Nat /\ Len(out) \in Nat /\ Len(<<>>) = 0
    OBVIOUS
  <1>2. Len(buf) + Len(coming) + Len(out) = 0
    BY <1>1, Zenon DEF InOrder
  <1>3. Len(buf) = 0 /\ Len(coming) = 0 /\ Len(out) = 0
    BY <1>1, <1>2
  <1> QED BY <1>3

(* When its token has arrived, nothing comes behind it.                    *)
LEMMA LastAhead ==
    ASSUME NEW buf \in Seq(Token), NEW coming \in Seq(Token), NEW out \in Seq(Kind),
           NEW lines \in Seq(Kind), InOrder(buf, coming, out, lines),
           NEW p \in DOMAIN buf, p = Len(lines)
    PROVE  p = Len(buf) /\ coming = <<>> /\ out = <<>>
  <1>1. /\ Len(buf) \in Nat /\ Len(coming) \in Nat /\ Len(out) \in Nat
        /\ p \in 1 .. Len(buf) /\ p = Len(buf) + Len(coming) + Len(out)
    BY DEF InOrder
  <1>2. p = Len(buf) /\ Len(coming) = 0 /\ Len(out) = 0
    BY <1>1
  <1> QED BY <1>2

(* When all has arrived, the buffer holds it.                              *)
LEMMA AllArrived ==
    ASSUME NEW buf \in Seq(Token), NEW lines \in Seq(Kind), InOrder(buf, <<>>, <<>>, lines)
    PROVE  Len(buf) = Len(lines) /\ \A i \in 1 .. Len(lines) : buf[i].kind = lines[i]
  <1>1. Len(<<>>) = 0 /\ Len(buf) \in Nat
    OBVIOUS
  <1>2. Len(lines) = Len(buf) + 0 + 0 /\ \A i \in 1 .. Len(buf) : buf[i].kind = lines[i]
    BY <1>1, Zenon DEF InOrder
  <1>3. Len(lines) = Len(buf)
    BY <1>1, <1>2
  <1> QED BY <1>2, <1>3, Zenon

-----------------------------------------------------------------------------
(* What the connection is about stays.                                     *)
LEMMA SameRequest ==
    ASSUME UNCHANGED request
    PROVE  /\ path' = path /\ server' = server /\ credentials' = credentials
           /\ Last' = Last /\ (Telnet' <=> Telnet)
           /\ Prompt' = Prompt /\ LoginPrompt' = LoginPrompt /\ Landing' = Landing
           /\ (Percent' <=> Percent) /\ (Request => Request')
  <1>1. path' = path /\ server' = server /\ credentials' = credentials
    BY DEF request
  <1>2. Last' = Last /\ Prompt' = Prompt
    BY <1>1 DEF Last, Prompt
  <1>3. LoginPrompt' = LoginPrompt /\ Landing' = Landing
    BY <1>1, <1>2 DEF LoginPrompt, Landing
  <1>4. Telnet' <=> Telnet
    BY <1>1, <1>2 DEF Telnet
  <1>5. Percent' <=> Percent
    BY <1>1 DEF Percent
  <1>6. Request => Request'
    BY <1>1 DEF Request
  <1> QED BY <1>1, <1>2, <1>3, <1>4, <1>5, <1>6

(* The lines a stage has ahead.                                            *)
LEMMA StageLines ==
    ASSUME Banners(server)
    PROVE  /\ LoginPrompt \in Seq(Kind) /\ Landing \in Seq(Kind) /\ server.banner \o Landing \in Seq(Kind)
           /\ <<>> \in Seq(Kind) /\ <<"password">> \in Seq(Kind) /\ <<"percent", "username">> \in Seq(Kind)
           /\ \A rest \in Seq(Kind) : Append(rest, Prompt) \in Seq(Kind)
  <1>1. LoginPrompt \in Seq(Kind) /\ Landing \in Seq(Kind) /\ Prompt \in {"prompt", "user_prompt"}
    BY PrintedLemma
  <1>2. server.banner \o Landing \in Seq(Kind)
    BY SshKinds
  <1>3. <<>> \in Seq(Kind) /\ <<"password">> \in Seq(Kind) /\ <<"percent", "username">> \in Seq(Kind)
    BY DEF Kind, BannerLine, IosKind, IosAsks
  <1>4. Prompt \in Kind
    BY <1>1 DEF Kind
  <1>5. \A rest \in Seq(Kind) : Append(rest, Prompt) \in Seq(Kind)
    BY <1>4, AppendLemma
  <1> QED BY <1>1, <1>2, <1>3, <1>5

(* Printing and receiving leave a login at its stage: all that the host    *)
(* has still to see stays ahead of it.                                     *)
LEMMA StageKept ==
    ASSUME Banners(server), UNCHANGED <<request, fsm, devMode, toDev, paging>>,
           \A lines \in Seq(Kind) : InOrder(buffer, toHost, devOut, lines) =>
                                      InOrder(buffer', toHost', devOut', lines),
           Stage
    PROVE  Stage'
  <1>1. /\ server' = server /\ credentials' = credentials /\ (Telnet' <=> Telnet)
        /\ Prompt' = Prompt /\ LoginPrompt' = LoginPrompt /\ Landing' = Landing
        /\ fsm' = fsm /\ devMode' = devMode /\ toDev' = toDev /\ paging' = paging
    BY SameRequest
  <1>2. \A lines \in Seq(Kind) : Ahead(buffer, lines) => InOrder(buffer', toHost', devOut', lines)
    BY DEF Ahead
  <1>3. CASE fsm = "Start" /\ AtLogin(buffer)
    <2>1. CASE Telnet
      BY <1>1, <1>2, <1>3, <2>1, StageLines, Zenon DEF AtLogin, Ahead, Stage
    <2>2. CASE ~ Telnet
      BY <1>1, <1>2, <1>3, <2>2, StageLines, Zenon DEF AtLogin, Ahead, Stage
    <2> QED BY <2>1, <2>2
  <1>4. ASSUME Telnet, NameSent PROVE Stage'
    BY <1>1, <1>2, <1>4, StageLines, Zenon DEF NameSent, Ahead, Stage
  <1>5. ASSUME Telnet, NameTaken PROVE Stage'
    BY <1>1, <1>2, <1>5, StageLines, Zenon DEF NameTaken, Ahead, Stage
  <1>6. ASSUME Telnet, NameUnknown PROVE Stage'
    BY <1>1, <1>2, <1>6, StageLines, Zenon DEF NameUnknown, Ahead, Stage
  <1>7. ASSUME Telnet, PasswordSent PROVE Stage'
    BY <1>1, <1>2, <1>7, StageLines, Zenon DEF PasswordSent, Ahead, Stage
  <1>8. ASSUME Telnet, Refused PROVE Stage'
    BY <1>1, <1>2, <1>8, StageLines, Zenon DEF Refused, Ahead, Stage
  <1>9. ASSUME Telnet, LoggedIn PROVE Stage'
    BY <1>1, <1>2, <1>9, StageLines, Zenon DEF LoggedIn, Ahead, Stage
  <1>10. CASE LengthSent
    <2>1. PICK rest : Behind(rest) /\ Ahead(buffer, rest)
      BY <1>10 DEF LengthSent
    <2>2. Behind(rest)' /\ InOrder(buffer', toHost', devOut', rest)
      BY <1>1, <1>2, <2>1, Zenon DEF Behind
    <2> QED BY <1>1, <1>10, <2>2, Zenon DEF LengthSent, Ahead, Stage
  <1>11. CASE LengthSet
    <2>1. PICK rest : Behind(rest) /\ Ahead(buffer, Append(rest, Prompt))
      BY <1>11 DEF LengthSet
    <2>2. Behind(rest)' /\ InOrder(buffer', toHost', devOut', Append(rest, Prompt))
      BY <1>1, <1>2, <2>1, StageLines, Zenon DEF Behind
    <2>3. Ahead(buffer, Append(rest, Prompt))'
      BY <1>1, <2>2, Zenon DEF Ahead
    <2>4. fsm' = "TermLen" /\ devMode' = "exec" /\ toDev' = <<>> /\ ~ paging'
      BY <1>1, <1>11 DEF LengthSet
    <2> QED BY <2>2, <2>3, <2>4, Zenon DEF LengthSet, Stage
  <1>12. CASE Misled
    BY <1>1, <1>12, Zenon DEF Misled, Stage
  <1> QED BY <1>3, <1>4, <1>5, <1>6, <1>7, <1>8, <1>9, <1>10, <1>11, <1>12 DEF Stage

(* The device does not answer before it was asked, and then as its login   *)
(* goes: the next stage.                                                   *)
LEMMA DeviceAnswers ==
    ASSUME Request, Flows, pc = "drive", Stage, DevReads
    PROVE  Stage'
  <1>1. /\ server' = server /\ credentials' = credentials /\ (Telnet' <=> Telnet)
        /\ Prompt' = Prompt /\ Landing' = Landing
        /\ fsm' = fsm /\ buffer' = buffer /\ toHost' = toHost
        /\ toDev # <<>> /\ toDev' = Tail(toDev) /\ devOut = <<>>
        /\ \/ DevShell(Head(toDev)) \/ DevUsername(Head(toDev))
           \/ DevPassword(Head(toDev)) \/ DevExec(Head(toDev))
    BY SameRequest DEF DevReads, hostVars
  <1>2. buffer \in Seq(Token) /\ toHost \in Seq(Token)
    BY DEF Flows
  <1>3. Banners(server) /\ credentials \in {"good", "bad_user", "bad_password"}
    BY DEF Request
  <1>4. ASSUME NEW lines \in Seq(Kind), NEW more \in Seq(Kind), Ahead(buffer, lines), devOut' = more
        PROVE  InOrder(buffer', toHost', devOut', lines \o more)
    <2>1. InOrder(buffer, toHost, <<>>, lines)
      BY <1>1, <1>4, Zenon DEF Ahead
    <2>2. InOrder(buffer, toHost, more, lines \o more)
      BY <1>2, <2>1, SaysLemma
    <2> QED BY <1>1, <1>4, <2>2, Zenon
  <1>5. ASSUME NEW more \in Seq(Kind), Ahead(buffer, <<>>), devOut' = more
        PROVE  InOrder(buffer', toHost', devOut', more)
    <2>1. <<>> \o more = more
      OBVIOUS
    <2> QED BY <1>3, <1>4, <1>5, <2>1, StageLines
  <1>6. ASSUME NEW line, toDev = <<line>> PROVE Head(toDev) = line /\ toDev' = <<>>
    BY <1>1, <1>6
  <1>7. CASE Telnet /\ NameSent
    <2>1. devMode = "username" /\ toDev = <<"username">> /\ Ahead(buffer, <<>>) /\ fsm = "WaitPassword"
      BY <1>7 DEF NameSent
    <2>2. Head(toDev) = "username" /\ toDev' = <<>>
      BY <1>6, <2>1
    <2>3. DevUsername("username")
      BY <1>1, <2>1, <2>2 DEF DevShell, DevPassword, DevExec
    <2>4. CASE credentials # "bad_user"
      <3>1. devMode' = "password" /\ devOut' = <<"password">>
        BY <2>3, <2>4 DEF DevUsername
      <3>2. InOrder(buffer', toHost', devOut', <<"password">>)
        BY <1>3, <1>5, <2>1, <3>1, StageLines
      <3> QED BY <1>1, <1>7, <2>1, <2>2, <2>4, <3>1, <3>2, Zenon DEF NameTaken, Ahead, Stage
    <2>5. CASE credentials = "bad_user"
      <3>1. devMode' = "username" /\ devOut' = <<"percent", "username">>
        BY <2>3, <2>5 DEF DevUsername, LoginInvalid
      <3>2. InOrder(buffer', toHost', devOut', <<"percent", "username">>)
        BY <1>3, <1>5, <2>1, <3>1, StageLines
      <3> QED BY <1>1, <1>7, <2>1, <2>2, <2>5, <3>1, <3>2, Zenon DEF NameUnknown, Ahead, Stage
    <2> QED BY <2>4, <2>5
  <1>8. CASE Telnet /\ PasswordSent
    <2>1. devMode = "password" /\ toDev = <<"password">> /\ Ahead(buffer, <<>>) /\ fsm = "WaitPrompt"
      BY <1>8 DEF PasswordSent
    <2>2. Head(toDev) = "password" /\ toDev' = <<>>
      BY <1>6, <2>1
    <2>3. DevPassword("password")
      BY <1>1, <2>1, <2>2 DEF DevShell, DevUsername, DevExec
    <2>4. CASE credentials = "good"
      <3>1. devMode' = "exec" /\ devOut' = Landing
        BY <2>3, <2>4 DEF DevPassword
      <3>2. InOrder(buffer', toHost', devOut', Landing)
        BY <1>3, <1>5, <2>1, <3>1, StageLines
      <3> QED BY <1>1, <1>8, <2>1, <2>2, <3>1, <3>2, Zenon DEF LoggedIn, Ahead, Stage
    <2>5. CASE credentials = "bad_password"
      <3>1. devMode' = "username" /\ devOut' = <<"percent", "username">>
        BY <2>3, <2>5 DEF DevPassword, LoginInvalid
      <3>2. InOrder(buffer', toHost', devOut', <<"percent", "username">>)
        BY <1>3, <1>5, <2>1, <3>1, StageLines
      <3> QED BY <1>1, <1>8, <2>1, <2>2, <2>5, <3>1, <3>2, Zenon DEF Refused, Ahead, Stage
    <2>6. CASE credentials = "bad_user"
      BY <1>8, <2>6 DEF PasswordSent
    <2> QED BY <1>3, <2>4, <2>5, <2>6
  <1>9. CASE LengthSent
    <2>1. PICK rest : Behind(rest) /\ Ahead(buffer, rest)
      BY <1>9 DEF LengthSent
    <2>2. devMode = "exec" /\ toDev = <<"terminal length 0">> /\ fsm = "TermLen"
      BY <1>9 DEF LengthSent
    <2>3. Head(toDev) = "terminal length 0" /\ toDev' = <<>>
      BY <1>6, <2>2
    <2>4. DevExec("terminal length 0")
      BY <1>1, <2>2, <2>3 DEF DevShell, DevUsername, DevPassword
    <2>5. devMode' = "exec" /\ devOut' = <<Prompt>> /\ ~ paging'
      BY <2>2, <2>4 DEF DevExec
    <2>6. rest \in Seq(Kind) /\ <<Prompt>> \in Seq(Kind) /\ rest \o <<Prompt>> = Append(rest, Prompt)
      <3>1. rest \in Seq(Kind) /\ Prompt \in Kind
        BY <1>3, <2>1, PrintedLemma DEF Behind, Kind
      <3> QED BY <3>1
    <2>7. InOrder(buffer', toHost', devOut', Append(rest, Prompt))
      BY <1>4, <2>1, <2>5, <2>6
    <2>8. Behind(rest)'
      BY <1>1, <2>1 DEF Behind
    <2>9. Ahead(buffer, Append(rest, Prompt))'
      BY <1>1, <2>7, Zenon DEF Ahead
    <2> QED BY <1>1, <2>2, <2>3, <2>5, <2>8, <2>9, Zenon DEF LengthSet, Stage
  <1>10. CASE Misled
    BY <1>1, <1>10 DEF Misled, Stage
  <1>11. ASSUME toDev = <<>> PROVE FALSE
    BY <1>1, <1>11
  <1>12. (Telnet /\ NameSent) \/ (Telnet /\ PasswordSent) \/ LengthSent \/ Misled
    <2>1. /\ ~ AtLogin(buffer) /\ ~ NameTaken /\ ~ NameUnknown /\ ~ Refused
          /\ ~ LoggedIn /\ ~ LengthSet
      BY <1>11 DEF AtLogin, NameTaken, NameUnknown, Refused, LoggedIn, LengthSet
    <2> QED BY <2>1, Zenon DEF Stage
  <1> QED BY <1>7, <1>8, <1>9, <1>10, <1>12

(* The mode of the device at the start of a login.                         *)
LEMMA StartMode ==
    ASSUME fsm = "Start", Stage
    PROVE  AtLogin(buffer)
  <1>1. ~ Misled /\ ~ LengthSet /\ ~ LengthSent
    BY DEF Misled, LengthSet, LengthSent
  <1>2. ~ NameSent /\ ~ NameTaken /\ ~ NameUnknown /\ ~ PasswordSent /\ ~ Refused /\ ~ LoggedIn
    BY DEF NameSent, NameTaken, NameUnknown, PasswordSent, Refused, LoggedIn
  <1> QED BY <1>1, <1>2, Zenon DEF Stage

(* The stages of the other states.                                         *)
LEMMA OtherStages ==
    ASSUME Stage
    PROVE  /\ fsm \in {"Start", "WaitPassword", "WaitPrompt", "TermLen"}
           /\ fsm \in {"WaitPassword", "WaitPrompt"} => Telnet
           /\ fsm = "WaitPassword" => NameSent \/ NameTaken \/ NameUnknown
           /\ fsm = "WaitPrompt" => PasswordSent \/ Refused \/ LoggedIn
           /\ fsm = "TermLen" => LengthSent \/ LengthSet \/ Misled
  <1>1. /\ NameSent \/ NameTaken \/ NameUnknown => fsm = "WaitPassword"
        /\ PasswordSent \/ Refused \/ LoggedIn => fsm = "WaitPrompt"
        /\ LengthSent \/ LengthSet \/ Misled => fsm = "TermLen"
    BY DEF Misled, LengthSet, LengthSent, NameSent, NameTaken, NameUnknown, PasswordSent, Refused,
           LoggedIn
  <1>2. \/ fsm = "Start"
        \/ Telnet /\ fsm = "WaitPassword" /\ (NameSent \/ NameTaken \/ NameUnknown)
        \/ Telnet /\ fsm = "WaitPrompt" /\ (PasswordSent \/ Refused \/ LoggedIn)
        \/ fsm = "TermLen" /\ (LengthSent \/ LengthSet \/ Misled)
    BY <1>1, Zenon DEF Stage
  <1> QED BY <1>2

(* A rule that sends: the next line of the dialogue, or the first of those *)
(* a banner provoked.                                                      *)
LEMMA TemplateSends ==
    ASSUME Request, Flows, pc = "drive", hop = Last, Stage, FeedSend
    PROVE  Stage' /\ buffer' \in Seq(Token)
  <1> DEFINE T == path.hops[Last].template
  <1>1. /\ server' = server /\ credentials' = credentials /\ (Telnet' <=> Telnet)
        /\ toHost' = toHost /\ devOut' = devOut /\ devMode' = devMode /\ paging' = paging
    BY SameRequest DEF FeedSend, devVars
  <1>2. buffer \in Seq(Token) /\ toHost \in Seq(Token) /\ devOut \in Seq(Kind)
    BY DEF Flows
  <1>3. Banners(server) /\ LoginPath(path)
    BY DEF Request
  <1>4. Template = T
    BY DEF Template, Hop
  <1>5. PICK i \in DOMAIN T[fsm], p \in DOMAIN buffer :
             /\ Fires(T, fsm, buffer, i, p) /\ T[fsm][i].act = "Send"
             /\ fsm' = StateAfter(fsm, T[fsm][i])
             /\ buffer' = DrainFront(buffer, p)
             /\ toDev' = Append(toDev, T[fsm][i].send)
    BY <1>4, Zenon DEF FeedSend, Fired
  <1>6. fsm \in DOMAIN T
    BY <1>4 DEF FeedSend, Driving
  <1> DEFINE kind == buffer[p].kind
  <1>7. kind \in T[fsm][i].match
    BY <1>5, FiresLemma, Zenon
  <1>8. T = IF Telnet THEN CiscoIosTelnetLogin ELSE CiscoIosSshPostLogin
    BY <1>3, PathLemma
  (* What was sent, for what. *)
  <1>9. \/ /\ Telnet /\ fsm = "Start" /\ kind = "username"
           /\ toDev' = Append(toDev, "username") /\ fsm' = "WaitPassword"
        \/ /\ Telnet /\ fsm \in {"Start", "WaitPassword"} /\ kind = "password"
           /\ toDev' = Append(toDev, "password") /\ fsm' = "WaitPrompt"
        \/ /\ Telnet /\ fsm = "WaitPrompt" /\ kind \in PromptKind
           /\ toDev' = Append(toDev, "terminal length 0") /\ fsm' = "TermLen"
        \/ /\ fsm = "Start" /\ kind \in PromptKind
           /\ toDev' = Append(toDev, "terminal length 0") /\ fsm' = "TermLen"
    <2> DEFINE rule == T[fsm][i]
    <2>1. CASE Telnet
      <3>1. T = CiscoIosTelnetLogin
        BY <1>8, <2>1
      <3>2. \/ /\ rule.act = "Send"
               /\ \/ /\ fsm = "Start" /\ kind = "username"
                     /\ rule.send = "username" /\ StateAfter(fsm, rule) = "WaitPassword"
                  \/ /\ fsm \in {"Start", "WaitPassword"} /\ kind = "password"
                     /\ rule.send = "password" /\ StateAfter(fsm, rule) = "WaitPrompt"
                  \/ /\ fsm \in {"Start", "WaitPrompt"} /\ kind \in PromptKind
                     /\ rule.send = "terminal length 0" /\ StateAfter(fsm, rule) = "TermLen"
            \/ rule.act = "Error" /\ fsm = "WaitPrompt" /\ kind = "percent"
            \/ rule.act = "Done" /\ fsm = "TermLen" /\ kind \in PromptKind
        BY <1>5, <1>6, <1>7, <3>1, TelnetFires, ZenonT(40)
      <3> HIDE DEF rule, kind, T
      <3>3. rule.act = "Send" /\ fsm' = StateAfter(fsm, rule) /\ toDev' = Append(toDev, rule.send)
        BY <1>5, Zenon DEF rule
      <3> QED BY <2>1, <3>2, <3>3
    <2>2. CASE ~ Telnet
      <3>1. T = CiscoIosSshPostLogin
        BY <1>8, <2>2
      <3>2. /\ kind \in {"prompt", "hash"}
            /\ \/ /\ rule.act = "Send" /\ fsm = "Start"
                  /\ rule.send = "terminal length 0" /\ StateAfter(fsm, rule) = "TermLen"
               \/ rule.act = "Done" /\ fsm = "TermLen"
        <4> DEFINE S == CiscoIosSshPostLogin
        <4>1. fsm \in DOMAIN S /\ i \in DOMAIN S[fsm] /\ kind \in S[fsm][i].match /\ rule = S[fsm][i]
          BY <1>5, <1>6, <1>7, <3>1, Zenon
        <4>2. /\ kind \in {"prompt", "hash"}
              /\ \/ /\ S[fsm][i].act = "Send" /\ fsm = "Start"
                    /\ S[fsm][i].send = "terminal length 0" /\ StateAfter(fsm, S[fsm][i]) = "TermLen"
                 \/ S[fsm][i].act = "Done" /\ fsm = "TermLen"
          <5> HIDE DEF kind
          <5> QED BY <4>1, SshFires
        <4> HIDE DEF rule, kind, T, S
        <4> QED BY <4>1, <4>2 DEF S
      <3> HIDE DEF rule, kind, T
      <3>3. rule.act = "Send" /\ fsm' = StateAfter(fsm, rule) /\ toDev' = Append(toDev, rule.send)
        BY <1>5, Zenon DEF rule
      <3> QED BY <3>2, <3>3 DEF PromptKind
    <2> QED BY <2>1, <2>2
  <1> HIDE DEF kind, T
  (* What of the lines ahead it leaves. *)
  <1>10. ASSUME NEW lines \in Seq(Kind), Ahead(buffer, lines)
         PROVE  /\ p \in DOMAIN lines /\ kind = lines[p]
                /\ DrainFront(lines, p) \in Seq(Kind) /\ Len(DrainFront(lines, p)) = Len(lines) - p
                /\ Ahead(buffer, DrainFront(lines, p))'
    <2>1. InOrder(buffer, toHost, devOut, lines) /\ p \in DOMAIN buffer
      BY <1>5, <1>10 DEF Ahead
    <2>2. /\ p \in DOMAIN lines /\ buffer[p].kind = lines[p]
          /\ DrainFront(lines, p) \in Seq(Kind) /\ Len(DrainFront(lines, p)) = Len(lines) - p
          /\ InOrder(DrainFront(buffer, p), toHost, devOut, DrainFront(lines, p))
      BY <1>2, <2>1, DrainLemma
    <2>3. InOrder(buffer', toHost', devOut', DrainFront(lines, p))
      BY <1>1, <1>5, <2>2, Zenon
    <2> QED BY <2>2, <2>3, Zenon DEF kind, Ahead
  <1>11. ASSUME NEW lines \in Seq(Kind), Ahead(buffer, lines), p = Len(lines)
         PROVE  Ahead(buffer, <<>>)' /\ DrainFront(lines, p) = <<>>
    <2>1. /\ DrainFront(lines, p) \in Seq(Kind) /\ Len(DrainFront(lines, p)) = Len(lines) - p
          /\ Ahead(buffer, DrainFront(lines, p))'
      BY <1>10, <1>11
    <2>2. DrainFront(lines, p) = <<>>
      BY <1>11, <2>1
    <2> QED BY <2>1, <2>2, Zenon
  <1>12. ASSUME toDev = <<>>, NEW line, toDev' = Append(toDev, line) PROVE toDev' = <<line>>
    BY <1>12
  <1>13. buffer' \in Seq(Token)
    <2>1. p \in 0 .. Len(buffer)
      BY <1>2, <1>5
    <2> QED BY <1>2, <1>5, <2>1, DropLemma DEF DrainFront
  <1>14. CASE Telnet /\ fsm = "Start"
    <2>1. toDev = <<>> /\ Ahead(buffer, LoginPrompt)
      BY <1>14, StartMode DEF AtLogin
    <2>2. p \in DOMAIN LoginPrompt /\ kind = LoginPrompt[p] /\ LoginPrompt \in Seq(Kind)
      BY <1>3, <1>10, <2>1, StageLines
    <2>3. /\ kind = "username" => p = Len(LoginPrompt)
          /\ kind # "password"
          /\ kind \in PromptKind => Marked(server.banner)
      BY <1>3, <2>2, LoginKinds
    <2>4. CASE kind = "username"
      <3>1. toDev' = <<"username">> /\ fsm' = "WaitPassword"
        BY <1>9, <1>12, <1>14, <2>1, <2>4 DEF PromptKind
      <3>2. Ahead(buffer, <<>>)'
        BY <1>11, <2>1, <2>2, <2>3, <2>4
      <3>3. devMode = "username"
        BY <1>14, StartMode DEF AtLogin
      <3> QED BY <1>1, <1>13, <1>14, <3>1, <3>2, <3>3, Zenon DEF NameSent, Stage
    <2>5. CASE kind \in PromptKind
      <3>1. fsm' = "TermLen" /\ Marked(server.banner)'
        BY <1>1, <1>9, <1>14, <2>3, <2>5 DEF PromptKind
      <3> QED BY <1>13, <3>1, Zenon DEF Misled, Stage
    <2> QED BY <1>9, <1>14, <2>3, <2>4, <2>5
  <1>15. CASE ~ Telnet /\ fsm = "Start"
    <2>9. PICK lines : lines = server.banner \o Landing
      OBVIOUS
    <2>1. toDev = <<>> /\ devMode = "exec" /\ Ahead(buffer, lines)
      BY <1>15, <2>9, StartMode DEF AtLogin
    <2>2. /\ lines \in Seq(Kind)
          /\ \A q \in DOMAIN lines : lines[q] \in PromptKind =>
                q = Len(lines) \/ Marked(server.motd) \/ Marked(server.banner)
      BY <1>3, <2>9, SshKinds
    <2>3. p \in DOMAIN lines /\ kind = lines[p] /\ Ahead(buffer, DrainFront(lines, p))'
          /\ DrainFront(lines, p) \in Seq(Kind)
      <3>1. lines \in Seq(Kind) /\ Ahead(buffer, lines)
        BY <2>1, <2>2
      <3> QED BY <1>10, <3>1
    <2>4. /\ kind \in PromptKind /\ toDev' = <<"terminal length 0">> /\ fsm' = "TermLen"
      BY <1>9, <1>12, <1>15, <2>1
    <2>5. CASE Marked(server.banner)
      <3>1. Misled'
        BY <1>1, <2>4, <2>5 DEF Misled
      <3> QED BY <1>13, <3>1, Zenon DEF Stage
    <2>6. CASE ~ Marked(server.banner)
      <3>1. p = Len(lines) \/ Marked(server.motd)
        BY <2>2, <2>3, <2>4, <2>6
      <3>2. Behind(DrainFront(lines, p))'
        <4>1. lines \in Seq(Kind) /\ Ahead(buffer, lines)
          BY <2>1, <2>2
        <4>2. p = Len(lines) => DrainFront(lines, p) = <<>>
          BY <1>11, <4>1, Zenon
        <4>3. ~ Marked(server'.motd) => DrainFront(lines, p) = <<>>
          BY <1>1, <3>1, <4>2, Zenon
        <4> QED BY <2>3, <4>3 DEF Behind
      <3>3. LengthSent'
        BY <1>1, <2>1, <2>3, <2>4, <3>2, Zenon DEF LengthSent
      <3> QED BY <1>13, <3>3, Zenon DEF Stage
    <2> QED BY <2>5, <2>6
  <1>16. CASE fsm = "WaitPassword"
    <2>1. kind = "password" /\ fsm' = "WaitPrompt" /\ toDev' = Append(toDev, "password") /\ Telnet
      BY <1>9, <1>16, OtherStages
    <2>2. CASE NameSent
      <3>1. Ahead(buffer, <<>>)
        BY <2>2 DEF NameSent
      <3>2. p \in DOMAIN <<>>
        BY <1>3, <1>10, <3>1, StageLines
      <3> QED BY <3>2
    <2>3. CASE NameUnknown
      <3>1. Ahead(buffer, <<"percent", "username">>)
        BY <2>3 DEF NameUnknown
      <3>2. p \in DOMAIN <<"percent", "username">> /\ <<"percent", "username">>[p] = "password"
        BY <1>3, <1>10, <2>1, <3>1, StageLines
      <3> QED BY <3>2
    <2>4. CASE NameTaken
      <3>1. /\ Ahead(buffer, <<"password">>) /\ devMode = "password" /\ toDev = <<>>
            /\ credentials # "bad_user"
        BY <2>4 DEF NameTaken
      <3>2. p \in DOMAIN <<"password">> /\ <<"password">> \in Seq(Kind)
        BY <1>3, <1>10, <3>1, StageLines
      <3>3. p = Len(<<"password">>)
        BY <3>2
      <3>4. Ahead(buffer, <<>>)'
        BY <1>11, <3>1, <3>2, <3>3
      <3>5. toDev' = <<"password">>
        BY <1>12, <2>1, <3>1
      <3>6. PasswordSent'
        BY <1>1, <2>1, <3>1, <3>4, <3>5, Zenon DEF PasswordSent
      <3> QED BY <1>1, <1>13, <2>1, <3>6, Zenon DEF Stage
    <2> QED BY <1>16, <2>2, <2>3, <2>4, OtherStages
  <1>17. CASE fsm = "WaitPrompt"
    <2>1. kind \in PromptKind /\ fsm' = "TermLen" /\ toDev' = Append(toDev, "terminal length 0")
      BY <1>9, <1>17
    <2>2. CASE PasswordSent
      <3>1. Ahead(buffer, <<>>)
        BY <2>2 DEF PasswordSent
      <3>2. p \in DOMAIN <<>>
        BY <1>3, <1>10, <3>1, StageLines
      <3> QED BY <3>2
    <2>3. CASE Refused
      <3>1. Ahead(buffer, <<"percent", "username">>)
        BY <2>3 DEF Refused
      <3>2. p \in DOMAIN <<"percent", "username">> /\ <<"percent", "username">>[p] \in PromptKind
        BY <1>3, <1>10, <2>1, <3>1, StageLines
      <3> QED BY <3>2 DEF PromptKind
    <2>4. CASE LoggedIn
      <3>9. PICK lines : lines = Landing
        OBVIOUS
      <3>1. Ahead(buffer, lines) /\ devMode = "exec" /\ toDev = <<>>
        BY <2>4, <3>9 DEF LoggedIn
      <3>2. /\ p \in DOMAIN lines /\ lines \in Seq(Kind) /\ lines[p] \in PromptKind
            /\ Ahead(buffer, DrainFront(lines, p))' /\ DrainFront(lines, p) \in Seq(Kind)
        <4>1. lines \in Seq(Kind)
          BY <1>3, <3>9, StageLines
        <4>2. /\ p \in DOMAIN lines /\ kind = lines[p] /\ DrainFront(lines, p) \in Seq(Kind)
              /\ Ahead(buffer, DrainFront(lines, p))'
          BY <1>10, <3>1, <4>1
        <4> QED BY <2>1, <4>1, <4>2
      <3>3. p = Len(lines) \/ Marked(server.motd)
        BY <1>3, <3>2, <3>9, LandingKinds
      <3>4. Behind(DrainFront(lines, p))'
        <4>1. p = Len(lines) => DrainFront(lines, p) = <<>>
          BY <1>11, <3>1, <3>2, Zenon
        <4>2. ~ Marked(server'.motd) => DrainFront(lines, p) = <<>>
          BY <1>1, <3>3, <4>1, Zenon
        <4> QED BY <3>2, <4>2 DEF Behind
      <3>5. toDev' = <<"terminal length 0">>
        BY <1>12, <2>1, <3>1
      <3>6. LengthSent'
        BY <1>1, <2>1, <3>1, <3>2, <3>4, <3>5, Zenon DEF LengthSent
      <3> QED BY <1>13, <3>6, Zenon DEF Stage
    <2> QED BY <1>17, <2>2, <2>3, <2>4, OtherStages
  <1> QED BY <1>9, <1>14, <1>15, <1>16, <1>17, OtherStages

-----------------------------------------------------------------------------
(* The template of the last hop, and what a rule of it that fires matched. *)
LEMMA LoginTemplate ==
    ASSUME Request, hop = Last
    PROVE  /\ Template = path.hops[Last].template
           /\ Telnet => Template = CiscoIosTelnetLogin
           /\ ~ Telnet => Template = CiscoIosSshPostLogin
  <1>1. LoginPath(path)
    BY DEF Request
  <1> QED BY <1>1, PathLemma DEF Template, Hop

(* Refusals are looked for in WaitPrompt only, the end in TermLen only.    *)
LEMMA LoginFires ==
    ASSUME Request, hop = Last, fsm \in DOMAIN Template, NEW i, NEW p,
           Fires(Template, fsm, buffer, i, p)
    PROVE  /\ p \in DOMAIN buffer
           /\ Template[fsm][i].act \in {"Send", "Error", "Done"}
           /\ Template[fsm][i].act = "Error" => fsm = "WaitPrompt" /\ Holds({"percent"})
           /\ Template[fsm][i].act = "Done" => fsm = "TermLen" /\ buffer[p].kind \in PromptKind
  <1>1. i \in DOMAIN Template[fsm] /\ p \in DOMAIN buffer /\ buffer[p].kind \in Template[fsm][i].match
    BY FiresLemma
  <1> DEFINE kind == buffer[p].kind
  <1>2. CASE Telnet
    <2> DEFINE S == CiscoIosTelnetLogin
    <2>1. /\ fsm \in DOMAIN S /\ i \in DOMAIN S[fsm] /\ kind \in S[fsm][i].match
          /\ Template[fsm][i].act = S[fsm][i].act
      BY <1>1, <1>2, LoginTemplate, Zenon
    <2>2. \/ S[fsm][i].act = "Send"
          \/ S[fsm][i].act = "Error" /\ fsm = "WaitPrompt" /\ kind = "percent"
          \/ S[fsm][i].act = "Done" /\ fsm = "TermLen" /\ kind \in PromptKind
      BY <2>1, TelnetFires, Zenon
    <2> HIDE DEF S
    <2> QED BY <1>1, <2>1, <2>2 DEF Holds
  <1>3. CASE ~ Telnet
    <2> DEFINE S == CiscoIosSshPostLogin
    <2>1. /\ fsm \in DOMAIN S /\ i \in DOMAIN S[fsm] /\ kind \in S[fsm][i].match
          /\ Template[fsm][i].act = S[fsm][i].act
      BY <1>1, <1>3, LoginTemplate, Zenon
    <2>2. /\ kind \in {"prompt", "hash"}
          /\ S[fsm][i].act = "Send" \/ (S[fsm][i].act = "Done" /\ fsm = "TermLen")
      <3>1. fsm \in DOMAIN S /\ i \in DOMAIN S[fsm] /\ kind \in S[fsm][i].match
        BY <2>1, Zenon
      <3>2. /\ kind \in {"prompt", "hash"}
            /\ \/ /\ S[fsm][i].act = "Send" /\ fsm = "Start"
                  /\ S[fsm][i].send = "terminal length 0" /\ StateAfter(fsm, S[fsm][i]) = "TermLen"
               \/ S[fsm][i].act = "Done" /\ fsm = "TermLen"
        <4> HIDE DEF kind
        <4> QED BY <3>1, SshFires
      <3> HIDE DEF kind, S
      <3> QED BY <3>2
    <2> HIDE DEF S
    <2> QED BY <1>1, <2>1, <2>2 DEF PromptKind
  <1> QED BY <1>2, <1>3

(* A stage is one of the states of the template.                           *)
LEMMA StageState ==
    ASSUME Request, hop = Last, Stage
    PROVE  fsm \in DOMAIN Template
  <1>1. /\ fsm \in {"Start", "WaitPassword", "WaitPrompt", "TermLen"}
        /\ fsm \in {"WaitPassword", "WaitPrompt"} => Telnet
    BY OtherStages
  <1>2. CASE Telnet
    <2>1. DOMAIN Template = {"Start", "WaitPassword", "WaitPrompt", "TermLen"}
      BY <1>2, LoginTemplate, TelnetTemplate, Zenon
    <2> QED BY <1>1, <2>1
  <1>3. CASE ~ Telnet
    <2>1. DOMAIN Template = {"Start", "TermLen"}
      BY <1>3, LoginTemplate, SshTemplate, Zenon
    <2> QED BY <1>1, <1>3, <2>1
  <1> QED BY <1>2, <1>3

(* What the buffer holds at a stage: a prompt that ends the login is that  *)
(* of a device whose pager is off, a refusal is one.                       *)
LEMMA SeenLemma ==
    ASSUME Request, Flows, pc = "drive", hop = Last, Stage
    PROVE  Seen
  <1>1. buffer \in Seq(Token) /\ toHost \in Seq(Token) /\ devOut \in Seq(Kind)
    BY DEF Flows
  <1>2. Banners(server)
    BY DEF Request
  <1>3. fsm \in DOMAIN path.hops[Last].template
    BY StageState, LoginTemplate
  <1>4. ASSUME Ahead(buffer, <<>>), NEW kinds, Holds(kinds) PROVE FALSE
    <2>1. buffer = <<>>
      BY <1>1, <1>4, NothingAhead DEF Ahead
    <2> QED BY <1>4, <2>1 DEF Holds
  <1>5. ASSUME fsm = "TermLen", Holds(PromptKind), ~ Marked(server.banner)
        PROVE  devMode = "exec" /\ (~ Marked(server.motd) => ~ paging)
    <2>1. LengthSent \/ LengthSet
      BY <1>5, OtherStages DEF Misled
    <2>2. CASE LengthSent
      <3>1. PICK rest : Behind(rest) /\ Ahead(buffer, rest)
        BY <2>2 DEF LengthSent
      <3>2. Marked(server.motd)
        BY <1>4, <1>5, <3>1 DEF Behind
      <3> QED BY <2>2, <3>2 DEF LengthSent
    <2>3. CASE LengthSet
      BY <2>3 DEF LengthSet
    <2> QED BY <2>1, <2>2, <2>3
  <1>6. ASSUME fsm = "WaitPrompt", Holds({"percent"})
        PROVE  credentials = "bad_password" \/ Percent
    <2>1. CASE PasswordSent
      <3>1. Ahead(buffer, <<>>)
        BY <2>1 DEF PasswordSent
      <3> QED BY <1>4, <1>6, <3>1
    <2>2. CASE Refused
      BY <2>2 DEF Refused
    <2>3. CASE LoggedIn
      <3>1. Ahead(buffer, Landing) /\ Landing \in Seq(Kind)
        BY <1>2, <2>3, StageLines DEF LoggedIn
      <3>2. PICK q : q \in DOMAIN buffer /\ buffer[q].kind = "percent"
        BY <1>6 DEF Holds
      <3>3. q \in DOMAIN Landing /\ Landing[q] = "percent"
        <4>1. InOrder(buffer, toHost, devOut, Landing)
          BY <3>1 DEF Ahead
        <4>2. q \in DOMAIN Landing /\ buffer[q].kind = Landing[q]
          BY <1>1, <3>1, <3>2, <4>1, DrainLemma
        <4> QED BY <3>2, <4>2
      <3> QED BY <1>2, <3>3, LandingKinds
    <2> QED BY <1>6, <2>1, <2>2, <2>3, OtherStages
  <1> QED BY <1>3, <1>5, <1>6 DEF Seen

(* A stream that was just opened: the host has seen nothing yet.           *)
LEMMA NothingSeen ==
    ASSUME NEW lines \in Seq(Kind)
    PROVE  InOrder(<<>>, <<>>, lines, lines)
  <1>1. Len(<<>>) = 0 /\ Len(lines) \in Nat
    OBVIOUS
  <1>2. /\ Len(lines) = 0 + 0 + Len(lines)
        /\ \A i \in 1 .. 0 : FALSE
        /\ \A i \in 1 .. Len(lines) : 0 + 0 + i = i
    BY <1>1
  <1> QED BY <1>1, <1>2 DEF InOrder

(* What the device says next, whoever listens.                             *)
LEMMA DeviceSays ==
    ASSUME Request, Flows, DevReads
    PROVE  devMode' \in {"username", "password", "exec"} /\ devOut' \in Seq(Kind)
  <1>1. Banners(server) /\ devMode \in {"username", "password", "exec"} /\ devOut \in Seq(Kind)
    BY DEF Request, Flows
  <1>2. PICK line : DevShell(line) \/ DevUsername(line) \/ DevPassword(line) \/ DevExec(line)
    BY DEF DevReads
  <1>3. /\ Landing \in Seq(Kind) /\ Prompt \in {"prompt", "user_prompt"}
        /\ <<"password">> \in Seq(Kind) /\ <<"percent", "username">> \in Seq(Kind)
    BY <1>1, StageLines, PrintedLemma
  <1>4. <<Prompt>> \in Seq(Kind) /\ <<"percent", Prompt>> \in Seq(Kind)
    BY <1>3 DEF Kind, BannerLine, IosKind, IosAsks
  <1>5. ~ DevShell(line)
    BY <1>1 DEF DevShell
  <1>6. CASE DevUsername(line)
    BY <1>3, <1>6 DEF DevUsername, LoginInvalid
  <1>7. CASE DevPassword(line)
    BY <1>3, <1>7 DEF DevPassword, LoginInvalid
  <1>8. CASE DevExec(line)
    BY <1>4, <1>8 DEF DevExec
  <1> QED BY <1>2, <1>5, <1>6, <1>7, <1>8

-----------------------------------------------------------------------------
(* What a step does not touch stays as it should be.                       *)
LEMMA FlowsKept ==
    ASSUME Flows, UNCHANGED <<toHost, devOut, devMode>>,
           pc' = "drive" => buffer' \in Seq(Token)
    PROVE  Flows'
  BY DEF Flows

(* ... also after the login.                                               *)
LEMMA HandedKept ==
    ASSUME Handed, UNCHANGED request,
           UNCHANGED <<devMode, paging, stream, toHost, toDev, devOut, cut>>
    PROVE  Handed'
  <1>1. server' = server /\ Last' = Last
    BY SameRequest
  <1> QED BY <1>1 DEF Handed, Empty

(* At a hop before the last, only where the path goes matters.             *)
LEMMA BeforeLast ==
    ASSUME Request, UNCHANGED request, Hops', hop' < Last
    PROVE  LoginInv'
  <1>1. Request' /\ Last' = Last /\ Last \in Nat
    BY SameRequest, PathLemma DEF Request
  <1>2. hop' # Last /\ hop' # Last + 1
    <2>1. hop' \in 1 .. Last + 1
      BY <1>1 DEF Hops
    <2>2. \A n \in Nat : \A h \in 1 .. n + 1 : h < n => h # n /\ h # n + 1
      OBVIOUS
    <2> QED BY <1>1, <2>1, <2>2
  <1> QED BY <1>1, <1>2 DEF LoginInv

(* The steps that stay at their hop.                                       *)
LEMMA SameHop ==
    ASSUME LoginInv, UNCHANGED request, hop' = hop, cut' = cut,
           pc' \in {"drive", "template", "panic"} => hop \in 1 .. Last /\ Hop.type = "interactive",
           pc' = "ok" => hop = Last + 1,
           hop = Last => Login',
           hop = Last + 1 => Handed'
    PROVE  LoginInv'
  <1>1. Request' /\ Last' = Last /\ path' = path
    BY SameRequest DEF LoginInv
  <1>2. Hops'
    BY <1>1 DEF LoginInv, Hops, Hop
  <1> QED BY <1>1, <1>2 DEF LoginInv

(* Where the last hop is, and the hop before it.                           *)
LEMMA HopLemma ==
    ASSUME LoginInv
    PROVE  /\ Last \in Nat /\ Last > 1 /\ hop \in 1 .. Last + 1 /\ ~ path.over
           /\ hop \in DOMAIN path.hops <=> hop <= Last
           /\ hop = Last => hop \in 1 .. Last /\ Hop.type = "interactive"
           /\ hop = Last - 1 => Hop.type = "transport"
           /\ pc \in {"drive", "template", "panic"} => hop \in 1 .. Last /\ Hop.type = "interactive"
  <1>1. /\ Last \in Nat /\ Last > 1 /\ DOMAIN path.hops = 1 .. Last /\ ~ path.over
        /\ path.hops[Last - 1].type = "transport" /\ path.hops[Last].type = "interactive"
    BY PathLemma DEF LoginInv, Request
  <1>2. hop \in 1 .. Last + 1
    BY DEF LoginInv, Hops
  <1>3. pc \in {"drive", "template", "panic"} => hop \in 1 .. Last /\ Hop.type = "interactive"
    BY DEF LoginInv, Hops
  <1> QED BY <1>1, <1>2, <1>3 DEF Hop

(* An error that is returned, and Ok(()).                                  *)
LEMMA ReturnsKeeps ==
    ASSUME LoginInv, NEW error, Returns(error), error \notin {"drive", "hop"},
           error \in {"template", "panic"} => pc = "drive",
           error = "ok" => hop = Last + 1,
           hop = Last => error # "panic" /\ (error = "template" => credentials = "bad_password" \/ Percent)
    PROVE  LoginInv'
  <1>1. pc' = error /\ UNCHANGED <<request, hop, fsm, buffer, stream, toHost, toDev, devVars, cut>>
    BY DEF Returns
  <1>2. /\ UNCHANGED request /\ hop' = hop /\ cut' = cut /\ stream' = stream
        /\ UNCHANGED <<toHost, devOut, devMode>>
        /\ UNCHANGED <<devMode, paging, stream, toHost, toDev, devOut, cut>>
    BY <1>1 DEF devVars
  <1>3. pc' \in {"drive", "template", "panic"} => hop \in 1 .. Last /\ Hop.type = "interactive"
    BY <1>1, HopLemma
  <1>4. ASSUME hop = Last PROVE Login'
    <2>1. Login
      BY <1>4 DEF LoginInv
    <2>2. Flows'
      BY <1>1, <1>2, <2>1, FlowsKept DEF Login
    <2>3. pc' = "template" => credentials' = "bad_password" \/ Percent'
      BY <1>1, <1>2, <1>4, SameRequest
    <2> QED BY <1>1, <1>2, <1>4, <2>1, <2>2, <2>3 DEF Login
  <1>5. ASSUME hop = Last + 1 PROVE Handed'
    <2>1. Handed
      BY <1>5 DEF LoginInv
    <2> QED BY <1>2, <2>1, HandedKept
  <1>6. pc' = "ok" => hop = Last + 1
    BY <1>1
  <1> QED BY <1>2, <1>3, <1>4, <1>5, <1>6, SameHop

-----------------------------------------------------------------------------
(* The steps of connect(): a new stream, with the device at its start ...  *)
LEMMA OpenKeeps ==
    ASSUME LoginInv, OpenTransport
    PROVE  LoginInv'
  <1>1. /\ UNCHANGED request /\ hop' = hop + 1 /\ pc = "hop" /\ pc' = "hop" /\ cut' = cut
        /\ hop \in DOMAIN path.hops /\ Hop.type = "transport" /\ Opened(Hop.to)
        /\ stream' = "up" /\ toHost' = <<>> /\ toDev' = <<>>
    BY DEF OpenTransport, AtHop
  <1>2. Request /\ Request' /\ Last' = Last /\ path' = path /\ (Telnet' <=> Telnet)
        /\ LoginPrompt' = LoginPrompt /\ Landing' = Landing /\ server' = server
    BY <1>1, SameRequest DEF LoginInv
  <1>3. Last \in Nat /\ Last > 1 /\ hop \in 1 .. Last + 1 /\ hop < Last
    <2>1. hop <= Last /\ hop # Last /\ hop \in 1 .. Last + 1 /\ Last \in Nat /\ Last > 1
      BY <1>1, HopLemma
    <2> QED BY <2>1
  <1>4. Hops'
    <2>1. Last \notin cut
      BY <1>3 DEF LoginInv, Hops
    <2>2. hop' \in 1 .. Last + 1
      BY <1>1, <1>3
    <2> QED BY <1>1, <1>2, <2>1, <2>2 DEF Hops
  <1>5. CASE hop' < Last
    BY <1>1, <1>2, <1>4, <1>5, BeforeLast
  <1>6. CASE hop' = Last
    <2>1. hop = Last - 1 /\ hop' # Last + 1
      BY <1>1, <1>3, <1>6
    <2>2. Hop.to \in {"telnet", "ssh"} /\ (Telnet <=> Hop.to = "telnet")
      BY <1>2, <2>1, PathLemma DEF Request, Hop, Telnet
    <2>3. Banners(server)
      BY <1>2 DEF Request
    <2>4. CASE Telnet
      <3>1. devMode' = "username" /\ devOut' = LoginPrompt
        BY <1>1, <2>2, <2>4 DEF Opened
      <3>2. InOrder(<<>>, toHost', devOut', LoginPrompt) /\ LoginPrompt \in Seq(Kind)
        BY <1>1, <2>3, <3>1, NothingSeen, StageLines
      <3>3. AtLogin(<<>>)'
        BY <1>1, <1>2, <2>4, <3>1, <3>2, Zenon DEF AtLogin, Ahead
      <3>4. Flows'
        BY <1>1, <3>1, <3>2 DEF Flows
      <3> QED BY <1>1, <1>2, <1>4, <1>6, <2>1, <3>3, <3>4 DEF LoginInv, Login
    <2>5. CASE ~ Telnet
      <3>1. devMode' = "exec" /\ devOut' = server.banner \o Landing
        BY <1>1, <2>2, <2>5 DEF Opened
      <3>2. /\ InOrder(<<>>, toHost', devOut', server.banner \o Landing)
            /\ server.banner \o Landing \in Seq(Kind)
        BY <1>1, <2>3, <3>1, NothingSeen, StageLines
      <3>3. AtLogin(<<>>)'
        BY <1>1, <1>2, <2>5, <3>1, <3>2, Zenon DEF AtLogin, Ahead
      <3>4. Flows'
        BY <1>1, <3>1, <3>2 DEF Flows
      <3> QED BY <1>1, <1>2, <1>4, <1>6, <2>1, <3>3, <3>4 DEF LoginInv, Login
    <2> QED BY <2>4, <2>5
  <1>7. hop' < Last \/ hop' = Last
    BY <1>1, <1>3
  <1> QED BY <1>5, <1>6, <1>7

(* ... the ends of it ...                                                  *)
LEMMA HopErrors ==
    ASSUME LoginInv, TransportFails \/ TransportOver \/ NoTransport \/ Established
    PROVE  LoginInv'
  <1>1. CASE TransportFails
    <2>1. Returns("refused") /\ Hop.type = "transport"
      BY <1>1 DEF TransportFails
    <2> QED BY <2>1, ReturnsKeeps
  <1>2. CASE TransportOver
    BY <1>2, HopLemma DEF TransportOver
  <1>3. CASE NoTransport
    <2>1. Returns("not_connected")
      BY <1>3 DEF NoTransport
    <2> QED BY <2>1, ReturnsKeeps
  <1>4. CASE Established
    <2>1. Returns("ok") /\ hop \notin DOMAIN path.hops
      BY <1>4 DEF Established
    <2>2. hop = Last + 1
      <3>1. \A n \in Nat : \A h \in 1 .. n + 1 : h <= n \/ h = n + 1
        OBVIOUS
      <3> QED BY <2>1, <3>1, HopLemma
    <2>3. Last # Last + 1
      BY HopLemma
    <2> QED BY <2>1, <2>2, <2>3, ReturnsKeeps
  <1> QED BY <1>1, <1>2, <1>3, <1>4

(* ... and the start of an interactive hop.                                *)
LEMMA DriveKeeps ==
    ASSUME LoginInv, Drive
    PROVE  LoginInv'
  <1>1. /\ UNCHANGED request /\ hop' = hop /\ cut' = cut /\ stream' = stream /\ toDev' = toDev
        /\ UNCHANGED <<toHost, devOut, devMode>> /\ paging' = paging
        /\ pc = "hop" /\ hop \in DOMAIN path.hops /\ Hop.type = "interactive"
        /\ pc' = "drive" /\ fsm' = "Start" /\ buffer' = <<>> /\ stream # "none"
    BY DEF Drive, AtHop, devVars
  <1>2. hop \in 1 .. Last /\ hop # Last + 1
    <2>1. hop <= Last /\ Last \in Nat /\ hop \in 1 .. Last + 1
      BY <1>1, HopLemma
    <2> QED BY <2>1
  <1>3. ASSUME hop = Last PROVE Login'
    <2>1. Login /\ Request
      BY <1>3 DEF LoginInv
    <2>2. Flows'
      BY <1>1, <2>1, FlowsKept DEF Login
    <2>3. path' = path /\ server' = server /\ Last' = Last /\ (Telnet' <=> Telnet)
          /\ LoginPrompt' = LoginPrompt /\ Landing' = Landing
      BY <1>1, SameRequest
    <2>4. "Start" \in DOMAIN path.hops[Last].template
      BY <1>3, <2>1, LoginTemplate, TelnetTemplate, SshTemplate
    <2>5. Seen'
      BY <1>1, <2>3, <2>4 DEF Seen
    <2>6. ASSUME stream = "up" PROVE Stage'
      <3>1. AtLogin(<<>>)
        BY <1>1, <2>1, <2>6 DEF Login
      <3>2. AtLogin(<<>>)'
        BY <1>1, <2>3, <3>1, Zenon DEF AtLogin, Ahead
      <3>3. AtLogin(buffer)'
        BY <1>1, <3>2, Zenon DEF AtLogin, Ahead
      <3> QED BY <1>1, <3>3, Zenon DEF Stage
    <2> QED BY <1>1, <2>1, <2>2, <2>5, <2>6 DEF Login
  <1> QED BY <1>1, <1>2, <1>3, SameHop

-----------------------------------------------------------------------------
(* The steps of drive_interactive().                                       *)
LEMMA DrivingLemma ==
    ASSUME LoginInv, pc = "drive", hop = Last
    PROVE  /\ Request /\ Flows /\ Seen /\ fsm \in DOMAIN Template
           /\ stream = "up" => Stage
           /\ Banners(server)
  <1>1. Request /\ Flows /\ IF stream = "up" THEN Stage ELSE Seen
    BY DEF LoginInv, Login
  <1>2. Seen
    BY <1>1, SeenLemma
  <1>3. fsm \in DOMAIN Template
    BY <1>1, <1>2, LoginTemplate DEF Seen
  <1> QED BY <1>1, <1>2, <1>3 DEF Request

(* An answer, or the line that turns the pager off.                        *)
LEMMA SendKeeps ==
    ASSUME LoginInv, FeedSend
    PROVE  LoginInv'
  <1>1. /\ UNCHANGED request /\ hop' = hop /\ cut' = cut /\ stream' = stream /\ stream = "up"
        /\ UNCHANGED <<toHost, devOut, devMode>> /\ pc = "drive" /\ pc' = "drive"
    BY DEF FeedSend, Driving, devVars
  <1>2. hop \in 1 .. Last /\ Hop.type = "interactive" /\ hop # Last + 1
    <2>1. Last \in Nat
      BY HopLemma
    <2> QED BY <1>1, <2>1, HopLemma
  <1>3. ASSUME hop = Last PROVE Login'
    <2>1. Request /\ Flows /\ Stage
      BY <1>1, <1>3, DrivingLemma
    <2>2. Stage' /\ buffer' \in Seq(Token)
      BY <1>1, <1>3, <2>1, TemplateSends
    <2>3. Flows'
      BY <1>1, <2>1, <2>2, FlowsKept
    <2> QED BY <1>1, <2>2, <2>3 DEF Login
  <1> QED BY <1>1, <1>2, <1>3, SameHop

(* The prompt that ends the login, and what is dropped with it.            *)
LEMMA DoneKeeps ==
    ASSUME LoginInv, FeedDone
    PROVE  LoginInv'
  <1>1. /\ UNCHANGED request /\ hop' = hop + 1 /\ pc = "drive" /\ pc' = "hop"
        /\ UNCHANGED <<stream, toHost, toDev, devOut, devMode, paging>>
    BY DEF FeedDone, Driving, devVars
  <1>2. PICK i, p : /\ Fires(Template, fsm, buffer, i, p) /\ Template[fsm][i].act = "Done"
                    /\ cut' = IF p < Len(buffer) THEN cut \cup {hop} ELSE cut
    BY DEF FeedDone, Fired
  <1>3. Request' /\ Last' = Last /\ server' = server /\ Request
    BY <1>1, SameRequest DEF LoginInv
  <1>4. Last \in Nat /\ Last > 1 /\ hop \in 1 .. Last /\ Hop.type = "interactive" /\ hop # Last - 1
    BY <1>1, HopLemma
  <1>5. Last \notin cut
    BY <1>4 DEF LoginInv, Hops
  <1>6. CASE hop < Last
    <2>1. hop' < Last /\ hop' \in 1 .. Last + 1 /\ hop # Last
      BY <1>1, <1>4, <1>6
    <2>2. Last \notin cut'
      BY <1>2, <1>5, <2>1
    <2>3. Hops'
      BY <1>1, <1>3, <2>1, <2>2 DEF Hops
    <2> QED BY <1>1, <1>3, <2>1, <2>3, BeforeLast
  <1>7. CASE hop = Last
    <2>1. /\ Seen /\ Flows /\ (stream = "up" => Stage)
          /\ p \in DOMAIN buffer /\ fsm = "TermLen" /\ buffer[p].kind \in PromptKind
      BY <1>1, <1>2, <1>7, DrivingLemma, LoginFires
    <2>2. Holds(PromptKind)
      BY <2>1 DEF Holds
    <2>3. ~ Marked(server.banner) => devMode = "exec" /\ (~ Marked(server.motd) => ~ paging)
      BY <2>1, <2>2 DEF Seen
    <2>4. ASSUME stream = "up", ~ Marked(server.banner), ~ Marked(server.motd)
          PROVE  Empty /\ cut' = cut
      <3>1. buffer \in Seq(Token) /\ toHost \in Seq(Token) /\ devOut \in Seq(Kind)
        BY <1>1, <2>1 DEF Flows
      <3>2. LengthSent \/ LengthSet
        BY <2>1, <2>4, OtherStages DEF Misled
      <3>3. CASE LengthSent
        <4>1. Ahead(buffer, <<>>)
          BY <2>4, <3>3 DEF LengthSent, Behind
        <4>2. buffer = <<>>
          BY <3>1, <4>1, NothingAhead DEF Ahead
        <4> QED BY <2>1, <4>2
      <3>4. CASE LengthSet
        <4> DEFINE lines == <<Prompt>>
        <4>1. toDev = <<>> /\ Ahead(buffer, Append(<<>>, Prompt))
          BY <2>4, <3>4 DEF LengthSet, Behind
        <4>2. lines \in Seq(Kind) /\ Append(<<>>, Prompt) = lines /\ Len(lines) = 1 /\ DOMAIN lines = {1}
          <5>1. Prompt \in Kind
            BY <1>3, PrintedLemma DEF Kind, Request
          <5> QED BY <5>1
        <4> HIDE DEF lines
        <4>3. InOrder(buffer, toHost, devOut, lines)
          BY <4>1, <4>2 DEF Ahead
        <4>4. p \in DOMAIN lines
          BY <2>1, <3>1, <4>2, <4>3, DrainLemma
        <4>5. p = Len(lines)
          BY <4>2, <4>4
        <4>6. p = Len(buffer) /\ toHost = <<>> /\ devOut = <<>>
          BY <2>1, <3>1, <4>2, <4>3, <4>5, LastAhead
        <4>7. ~ (p < Len(buffer))
          BY <3>1, <4>6
        <4> QED BY <1>2, <4>1, <4>6, <4>7 DEF Empty
      <3> QED BY <3>2, <3>3, <3>4
    <2>5. Empty => Empty'
      BY <1>1 DEF Empty
    <2>6. Handed'
      BY <1>1, <1>3, <1>5, <2>3, <2>4, <2>5, Zenon DEF Handed
    <2>7. hop' = Last + 1 /\ hop' # Last /\ hop' \in 1 .. Last + 1 /\ ~ (hop' <= Last)
      BY <1>1, <1>4, <1>7
    <2>8. Hops'
      BY <1>1, <1>3, <2>7 DEF Hops
    <2> QED BY <1>3, <2>6, <2>7, <2>8 DEF LoginInv
  <1> QED BY <1>4, <1>6, <1>7

(* A refusal; the states of the logins are all known.                      *)
LEMMA ErrorKeeps ==
    ASSUME LoginInv, FeedError \/ FeedPanics
    PROVE  LoginInv'
  <1>1. CASE FeedError
    <2>1. pc = "drive" /\ Returns("template")
      BY <1>1 DEF FeedError, Driving
    <2>2. PICK i, p : Fires(Template, fsm, buffer, i, p) /\ Template[fsm][i].act = "Error"
      BY <1>1 DEF FeedError, Fired
    <2>3. ASSUME hop = Last PROVE credentials = "bad_password" \/ Percent
      <3>1. Request /\ Seen /\ fsm \in DOMAIN Template
        BY <2>1, <2>3, DrivingLemma
      <3>2. fsm = "WaitPrompt" /\ Holds({"percent"})
        BY <2>2, <2>3, <3>1, LoginFires
      <3> QED BY <3>1, <3>2 DEF Seen
    <2> QED BY <2>1, <2>3, ReturnsKeeps
  <1>2. CASE FeedPanics
    <2>1. pc = "drive" /\ Returns("panic")
      BY <1>2 DEF FeedPanics, Driving
    <2>2. ASSUME hop = Last PROVE FALSE
      <3>1. Request /\ fsm \in DOMAIN Template
        BY <2>1, <2>2, DrivingLemma
      <3>2. Closed(Template)
        BY <2>2, <3>1, LoginTemplate, LoginsClosed, Zenon
      <3>3. \E i \in DOMAIN Template[fsm] :
               StateAfter(fsm, Template[fsm][i]) \notin Settable(Template)
        BY <1>2, <3>1 DEF FeedPanics
      <3> QED BY <3>1, <3>2, <3>3 DEF Closed, Settable
    <2> QED BY <2>1, <2>2, ReturnsKeeps
  <1> QED BY <1>1, <1>2

(* What the transport or the timeout ends.                                 *)
LEMMA LinkErrors ==
    ASSUME LoginInv, TransportError \/ Timeout
    PROVE  LoginInv'
  <1>1. Returns("link") \/ Returns("timeout")
    BY DEF TransportError, Timeout
  <1> QED BY <1>1, ReturnsKeeps

(* A chunk, with no rule to fire.                                          *)
LEMMA ReceiveKeeps ==
    ASSUME LoginInv, Receive
    PROVE  LoginInv'
  <1>1. /\ UNCHANGED request /\ hop' = hop /\ cut' = cut /\ stream' = stream /\ stream = "up"
        /\ UNCHANGED <<toDev, devOut, devMode, paging>> /\ pc = "drive" /\ pc' = "drive"
    BY DEF Receive, Driving, devVars
  <1>2. hop \in 1 .. Last /\ Hop.type = "interactive" /\ hop # Last + 1
    <2>1. Last \in Nat
      BY HopLemma
    <2> QED BY <1>1, <2>1, HopLemma
  <1>3. ASSUME hop = Last PROVE Login'
    <2>1. Request /\ Flows /\ Stage /\ Banners(server) /\ fsm \in DOMAIN Template
      BY <1>1, <1>3, DrivingLemma
    <2>2. PICK next, p, k :
             /\ k \in 0 .. Len(toHost) /\ FeedNone(next, p) /\ fsm' = next
             /\ buffer' = DrainFront(buffer, p) \o SubSeq(toHost, 1, k)
             /\ toHost' = DrainFront(toHost, k)
      BY DEF Receive
    <2>11. k \in 0 .. Len(toHost)
      BY <2>2
    <2>3. fsm' = fsm /\ p = 0
      <3>1. ASSUME NEW i, Fired(i, p, "Next") PROVE FALSE
        BY <1>3, <2>1, <3>1, LoginFires DEF Fired
      <3> QED BY <2>2, <3>1 DEF FeedNone
    <2>4. buffer \in Seq(Token) /\ toHost \in Seq(Token) /\ devOut \in Seq(Kind)
      BY <1>1, <2>1 DEF Flows
    <2>5. DrainFront(buffer, 0) = buffer
      BY <2>4 DEF DrainFront
    <2>6. buffer' = buffer \o SubSeq(toHost, 1, k)
      BY <2>2, <2>3, <2>5
    <2>7. ASSUME NEW lines \in Seq(Kind), InOrder(buffer, toHost, devOut, lines)
          PROVE  /\ InOrder(buffer', toHost', devOut', lines)
                 /\ buffer' \in Seq(Token) /\ toHost' \in Seq(Token)
      <3>1. /\ InOrder(buffer \o SubSeq(toHost, 1, k), DrainFront(toHost, k), devOut, lines)
            /\ buffer \o SubSeq(toHost, 1, k) \in Seq(Token) /\ DrainFront(toHost, k) \in Seq(Token)
        BY <2>4, <2>7, <2>11, ReceiveLemma
      <3> QED BY <1>1, <2>2, <2>6, <3>1, Zenon
    <2>8. Stage'
      BY <1>1, <2>1, <2>3, <2>7, StageKept
    <2>9. buffer' \in Seq(Token) /\ toHost' \in Seq(Token)
      <3>1. SubSeq(toHost, 1, k) \in Seq(Token) /\ DrainFront(toHost, k) \in Seq(Token)
        BY <2>4, <2>11, PrefixLemma, DropLemma DEF DrainFront
      <3>2. buffer \o SubSeq(toHost, 1, k) \in Seq(Token)
        BY <2>4, <3>1, ConcatLemma
      <3> QED BY <2>2, <2>6, <3>1, <3>2
    <2>10. Flows'
      BY <1>1, <2>1, <2>9 DEF Flows
    <2> QED BY <1>1, <2>8, <2>10 DEF Login
  <1> QED BY <1>1, <1>2, <1>3, SameHop

-----------------------------------------------------------------------------
(* The steps of the device, and the loss of the stream.                    *)
LEMMA PrintKeeps ==
    ASSUME LoginInv, DevPrint
    PROVE  LoginInv'
  <1>1. /\ UNCHANGED request /\ hop' = hop /\ cut' = cut /\ pc' = pc /\ fsm' = fsm /\ buffer' = buffer
        /\ UNCHANGED <<stream, toDev, devMode, paging>> /\ stream = "up" /\ devOut # <<>>
        /\ toHost' = Append(toHost, [kind |-> Head(devOut)]) /\ devOut' = Tail(devOut)
    BY DEF DevPrint, hostVars
  <1>2. /\ pc' \in {"drive", "template", "panic"} => hop \in 1 .. Last /\ Hop.type = "interactive"
        /\ pc' = "ok" => hop = Last + 1
    BY <1>1, HopLemma DEF LoginInv, Hops
  <1>3. ASSUME hop = Last PROVE Login'
    <2>1. Login /\ Request /\ Flows
      BY <1>3 DEF LoginInv, Login
    <2>2. toHost \in Seq(Token) /\ devOut \in Seq(Kind)
      BY <2>1 DEF Flows
    <2>3. ASSUME NEW buf \in Seq(Token), NEW lines \in Seq(Kind), InOrder(buf, toHost, devOut, lines)
          PROVE  InOrder(buf, toHost', devOut', lines)
      <3>1. InOrder(buf, Append(toHost, [kind |-> Head(devOut)]), Tail(devOut), lines)
        BY <1>1, <2>2, <2>3, PrintLemma
      <3> QED BY <1>1, <3>1, Zenon
    <2>4. toHost' \in Seq(Token) /\ devOut' \in Seq(Kind)
      <3>1. Head(devOut) \in Kind /\ Tail(devOut) \in Seq(Kind)
        BY <1>1, <2>2, TailLemma
      <3>2. [kind |-> Head(devOut)] \in Token
        BY <3>1 DEF Token
      <3> QED BY <1>1, <2>2, <3>1, <3>2, AppendLemma
    <2>5. Flows'
      BY <1>1, <2>1, <2>4 DEF Flows
    <2>6. ASSUME pc = "drive" PROVE Stage'
      <3>1. Stage /\ Banners(server) /\ buffer \in Seq(Token)
        BY <1>1, <1>3, <2>6, DrivingLemma DEF Flows
      <3>2. \A lines \in Seq(Kind) : InOrder(buffer, toHost, devOut, lines) =>
                                       InOrder(buffer', toHost', devOut', lines)
        BY <1>1, <2>3, <3>1
      <3> QED BY <1>1, <3>1, <3>2, StageKept
    <2>7. ASSUME pc = "hop" PROVE AtLogin(<<>>)'
      <3>1. AtLogin(<<>>)
        BY <1>1, <2>1, <2>7 DEF Login
      <3>2. (Telnet' <=> Telnet) /\ LoginPrompt' = LoginPrompt /\ Landing' = Landing /\ server' = server
        BY <1>1, SameRequest
      <3>3. /\ LoginPrompt \in Seq(Kind) /\ server.banner \o Landing \in Seq(Kind) /\ <<>> \in Seq(Token)
        BY <2>1, StageLines DEF Request
      <3>4. \A lines \in Seq(Kind) : InOrder(<<>>, toHost, devOut, lines) =>
                                       InOrder(<<>>, toHost', devOut', lines)
        BY <2>3, <3>3
      <3> QED BY <1>1, <3>1, <3>2, <3>3, <3>4, Zenon DEF AtLogin, Ahead
    <2>8. pc' = "template" => credentials' = "bad_password" \/ Percent'
      BY <1>1, <2>1, SameRequest DEF Login
    <2> QED BY <1>1, <2>1, <2>5, <2>6, <2>7, <2>8 DEF Login
  <1>4. ASSUME hop = Last + 1 PROVE Handed'
    <2>1. Handed
      BY <1>4 DEF LoginInv
    <2>2. server' = server
      BY <1>1, SameRequest
    <2> QED BY <1>1, <2>1, <2>2 DEF Handed, Empty
  <1> QED BY <1>1, <1>2, <1>3, <1>4, SameHop

(* The answer to a line.                                                   *)
LEMMA ReadKeeps ==
    ASSUME LoginInv, DevReads
    PROVE  LoginInv'
  <1>1. /\ UNCHANGED request /\ hop' = hop /\ cut' = cut /\ pc' = pc /\ fsm' = fsm /\ buffer' = buffer
        /\ UNCHANGED <<stream, toHost>> /\ stream = "up" /\ toDev # <<>>
    BY DEF DevReads, hostVars
  <1>2. /\ pc' \in {"drive", "template", "panic"} => hop \in 1 .. Last /\ Hop.type = "interactive"
        /\ pc' = "ok" => hop = Last + 1
    BY <1>1, HopLemma DEF LoginInv, Hops
  <1>3. ASSUME hop = Last PROVE Login'
    <2>1. Login /\ Request /\ Flows
      BY <1>3 DEF LoginInv, Login
    <2>2. devMode' \in {"username", "password", "exec"} /\ devOut' \in Seq(Kind)
      BY <2>1, DeviceSays
    <2>3. Flows'
      BY <1>1, <2>1, <2>2 DEF Flows
    <2>4. ASSUME pc = "drive" PROVE Stage'
      BY <1>1, <1>3, <2>1, <2>4, DrivingLemma, DeviceAnswers
    <2>5. pc # "hop"
      BY <1>1, <2>1 DEF Login, AtLogin
    <2>6. pc' = "template" => credentials' = "bad_password" \/ Percent'
      BY <1>1, <2>1, SameRequest DEF Login
    <2> QED BY <1>1, <2>1, <2>3, <2>4, <2>5, <2>6 DEF Login
  <1>4. ASSUME hop = Last + 1 PROVE Handed'
    <2>1. Handed
      BY <1>4 DEF LoginInv
    <2>2. server' = server
      BY <1>1, SameRequest
    <2>3. CASE Marked(server.banner)
      BY <2>2, <2>3 DEF Handed
    <2>4. CASE ~ Marked(server.banner)
      <3>1. devMode = "exec" /\ Marked(server.motd)
        BY <1>1, <2>1, <2>4 DEF Handed, Empty
      <3>2. devMode' = "exec"
        BY <3>1 DEF DevReads, DevShell, DevUsername, DevPassword, DevExec
      <3> QED BY <2>2, <3>1, <3>2 DEF Handed
    <2> QED BY <2>3, <2>4
  <1> QED BY <1>1, <1>2, <1>3, <1>4, SameHop

(* What was under way is lost.                                             *)
LEMMA DownKeeps ==
    ASSUME LoginInv, LinkDown
    PROVE  LoginInv'
  <1>1. /\ UNCHANGED request /\ hop' = hop /\ cut' = cut /\ pc' = pc /\ fsm' = fsm /\ buffer' = buffer
        /\ UNCHANGED <<devMode, devOut, paging>> /\ stream' = "down" /\ toHost' = <<>> /\ toDev' = <<>>
    BY DEF LinkDown, hostVars, devVars
  <1>2. /\ pc' \in {"drive", "template", "panic"} => hop \in 1 .. Last /\ Hop.type = "interactive"
        /\ pc' = "ok" => hop = Last + 1
    BY <1>1, HopLemma DEF LoginInv, Hops
  <1>3. ASSUME hop = Last PROVE Login'
    <2>1. Login /\ Flows
      BY <1>3 DEF LoginInv, Login
    <2>2. Flows'
      BY <1>1, <2>1 DEF Flows
    <2>3. path' = path /\ server' = server /\ credentials' = credentials /\ Last' = Last
          /\ (Percent' <=> Percent)
      BY <1>1, SameRequest
    <2>4. ASSUME pc = "drive" PROVE Seen'
      <3>1. Seen
        BY <1>3, <2>4, DrivingLemma
      <3> QED BY <1>1, <2>3, <3>1 DEF Seen, Holds
    <2> QED BY <1>1, <2>1, <2>2, <2>3, <2>4 DEF Login
  <1>4. ASSUME hop = Last + 1 PROVE Handed'
    <2>1. Handed /\ server' = server
      BY <1>1, <1>4, SameRequest DEF LoginInv
    <2> QED BY <1>1, <2>1 DEF Handed
  <1> QED BY <1>1, <1>2, <1>3, <1>4, SameHop

(* Nothing happens.                                                        *)
LEMMA StutterKeeps ==
    ASSUME LoginInv, UNCHANGED vars
    PROVE  LoginInv'
  <1>1. /\ UNCHANGED request /\ hop' = hop /\ cut' = cut /\ pc' = pc /\ fsm' = fsm /\ buffer' = buffer
        /\ UNCHANGED <<stream, toHost, toDev, devOut, devMode, paging>>
    BY DEF vars, hostVars, devVars
  <1>2. /\ path' = path /\ server' = server /\ credentials' = credentials
    BY <1>1 DEF request
  <1>3. /\ pc' \in {"drive", "template", "panic"} => hop \in 1 .. Last /\ Hop.type = "interactive"
        /\ pc' = "ok" => hop = Last + 1
    BY <1>1, HopLemma DEF LoginInv, Hops
  <1>4. ASSUME hop = Last PROVE Login'
    <2>1. Login /\ Flows /\ Request
      BY <1>4 DEF LoginInv, Login
    <2>2. Flows'
      BY <1>1, <2>1 DEF Flows
    <2>3. path' = path /\ server' = server /\ Last' = Last /\ (Telnet' <=> Telnet)
          /\ LoginPrompt' = LoginPrompt /\ Landing' = Landing /\ (Percent' <=> Percent)
      BY <1>1, SameRequest
    <2>4. AtLogin(<<>>) => AtLogin(<<>>)'
      BY <1>1, <2>3, Zenon DEF AtLogin, Ahead
    <2>5. Stage => Stage'
      BY <1>1, <2>1, StageKept DEF Request
    <2>6. Seen => Seen'
      BY <1>1, <1>2, <2>3 DEF Seen, Holds
    <2> QED BY <1>1, <1>2, <2>1, <2>2, <2>3, <2>4, <2>5, <2>6 DEF Login
  <1>5. ASSUME hop = Last + 1 PROVE Handed'
    <2>1. Handed
      BY <1>5 DEF LoginInv
    <2> QED BY <1>1, <2>1, HandedKept
  <1> QED BY <1>1, <1>3, <1>4, <1>5, SameHop

-----------------------------------------------------------------------------
(* Every step keeps a login at one of its stages.                          *)
LEMMA LoginStep ==
    ASSUME LoginInv, [Next]_vars
    PROVE  LoginInv'
  <1>1. CASE Client
    <2>1. \/ OpenTransport \/ (TransportFails \/ TransportOver \/ NoTransport \/ Established) \/ Drive
          \/ FeedSend \/ FeedDone \/ (FeedError \/ FeedPanics) \/ Receive
          \/ (TransportError \/ Timeout)
      BY <1>1, Zenon DEF Client
    <2> QED BY <2>1, OpenKeeps, HopErrors, DriveKeeps, SendKeeps, DoneKeeps, ErrorKeeps, ReceiveKeeps,
               LinkErrors, Zenon
  <1>2. CASE Device
    BY <1>2, PrintKeeps, ReadKeeps DEF Device
  <1>3. CASE LinkDown
    BY <1>3, DownKeeps
  <1>4. CASE UNCHANGED vars
    BY <1>4, StutterKeeps
  <1> QED BY <1>1, <1>2, <1>3, <1>4 DEF Next

(* A connection starts before its last hop.                                *)
LEMMA LoginInit ==
    ASSUME \A p \in Paths : LoginPath(p), \A s \in Servers : Banners(s),
           Credentials \subseteq {"good", "bad_user", "bad_password"}, Init
    PROVE  LoginInv
  <1>1. Request
    BY DEF Init, Request
  <1>2. Last \in Nat /\ Last > 1
    BY <1>1, PathLemma DEF Request
  <1>3. pc = "hop" /\ hop = 1 /\ cut = {}
    BY DEF Init
  <1>4. hop \in 1 .. Last + 1 /\ hop # Last /\ hop # Last + 1
    BY <1>2, <1>3
  <1> QED BY <1>1, <1>3, <1>4 DEF LoginInv, Hops

(* The inductive invariant.                                                *)
LEMMA LoginsHaveStages ==
    ASSUME \A p \in Paths : LoginPath(p), \A s \in Servers : Banners(s),
           Credentials \subseteq {"good", "bad_user", "bad_password"}
    PROVE  Spec => []LoginInv
  BY LoginInit, LoginStep, PTL DEF Spec

-----------------------------------------------------------------------------
(* What the stages say of a connection.                                    *)
LEMMA HandedLemma ==
    ASSUME LoginInv, pc = "ok"
    PROVE  ConnectedIsLoggedIn /\ HandOverIsClean
  <1>1. hop = Last + 1
    BY DEF LoginInv, Hops
  <1>2. Handed
    BY <1>1 DEF LoginInv
  <1> QED BY <1>2 DEF Handed, Empty, Last, ConnectedIsLoggedIn, HandOverIsClean

(* A login that waits for a device that waits for it.                      *)
LEMMA MutualLemma ==
    ASSUME Request, Flows, pc = "drive", hop = Last, Stage, MutualWait
    PROVE  \/ credentials = "bad_user" /\ devMode = "username"
           \/ ~ server.enabled /\ devMode = "exec" /\ "WaitPrompt" \notin DOMAIN Template
           \/ Marked(server.banner)
  <1>1. /\ NoRuleFires(Template, fsm, buffer) /\ toDev = <<>>
        /\ buffer \in Seq(Token) /\ toHost = <<>> /\ devOut = <<>>
    BY DEF MutualWait, Flows
  <1>2. Banners(server)
    BY DEF Request
  <1>3. ASSUME NEW lines \in Seq(Kind), Ahead(buffer, lines), NEW q, q \in DOMAIN lines
        PROVE  q \in DOMAIN buffer /\ buffer[q].kind = lines[q]
    <2>1. InOrder(buffer, <<>>, <<>>, lines)
      BY <1>1, <1>3, Zenon DEF Ahead
    <2>2. Len(buffer) = Len(lines) /\ \A i \in 1 .. Len(lines) : buffer[i].kind = lines[i]
      BY <1>1, <2>1, AllArrived
    <2>3. q \in 1 .. Len(lines) /\ q \in DOMAIN buffer
      BY <1>1, <1>3, <2>2
    <2> QED BY <2>2, <2>3
  <1>4. ASSUME NEW q, q \in DOMAIN buffer
        PROVE  /\ Telnet => /\ fsm = "Start" => buffer[q].kind \notin PromptKind \cup {"username", "password"}
                            /\ fsm = "WaitPassword" => buffer[q].kind # "password"
                            /\ fsm = "WaitPrompt" => buffer[q].kind \notin PromptKind \cup {"percent"}
                            /\ fsm = "TermLen" => buffer[q].kind \notin PromptKind
               /\ ~ Telnet /\ fsm \in {"Start", "TermLen"} => buffer[q].kind \notin {"prompt", "hash"}
    <2>1. CASE Telnet
      <3>1. NoRuleFires(CiscoIosTelnetLogin, fsm, buffer)
        BY <1>1, <2>1, LoginTemplate, Zenon
      <3> QED BY <1>4, <2>1, <3>1, TelnetWaits
    <2>2. CASE ~ Telnet
      <3>1. NoRuleFires(CiscoIosSshPostLogin, fsm, buffer)
        BY <1>1, <2>2, LoginTemplate, Zenon
      <3> QED BY <1>4, <2>2, <3>1, SshWaits
    <2> QED BY <2>1, <2>2
  <1>5. ASSUME ~ Telnet, devMode = "exec", fsm \in {"Start", "TermLen"}, NEW q, q \in DOMAIN buffer,
               buffer[q].kind = Prompt
        PROVE  ~ server.enabled /\ devMode = "exec" /\ "WaitPrompt" \notin DOMAIN Template
    <2>1. DOMAIN Template = {"Start", "TermLen"}
      BY <1>5, LoginTemplate, SshTemplate, Zenon
    <2>2. Prompt # "prompt"
      BY <1>4, <1>5
    <2> QED BY <1>5, <2>1, <2>2 DEF Prompt
  <1>6. CASE fsm = "Start"
    <2>1. AtLogin(buffer)
      BY <1>6, StartMode
    <2>2. CASE Telnet
      <3> DEFINE last == Len(LoginPrompt)
      <3>1. Ahead(buffer, LoginPrompt) /\ LoginPrompt \in Seq(Kind)
        BY <1>2, <2>1, <2>2, StageLines DEF AtLogin
      <3>2. last \in DOMAIN LoginPrompt /\ LoginPrompt[last] = "username"
        <4>1. /\ Len(LoginPrompt) = Len(server.banner) + 1 /\ Len(server.banner) \in Nat
              /\ LoginPrompt[Len(server.banner) + 1] = "username"
          BY <1>2, PrintedLemma
        <4>2. Len(LoginPrompt) \in 1 .. Len(LoginPrompt)
          BY <4>1
        <4> QED BY <3>1, <4>1, <4>2
      <3>3. last \in DOMAIN buffer /\ buffer[last].kind = "username"
        BY <1>3, <3>1, <3>2
      <3> QED BY <1>4, <1>6, <2>2, <3>3
    <2>3. CASE ~ Telnet
      <3>1. PICK lines : lines = server.banner \o Landing
        OBVIOUS
      <3>2. Ahead(buffer, lines) /\ devMode = "exec"
        BY <2>1, <2>3, <3>1 DEF AtLogin
      <3>3. lines \in Seq(Kind) /\ Len(lines) \in Nat \ {0} /\ lines[Len(lines)] = Prompt
        BY <1>2, <3>1, SshKinds
      <3>4. Len(lines) \in DOMAIN lines
        BY <3>3
      <3>5. Len(lines) \in DOMAIN buffer /\ buffer[Len(lines)].kind = Prompt
        BY <1>3, <3>2, <3>3, <3>4
      <3> QED BY <1>5, <1>6, <2>3, <3>2, <3>5
    <2> QED BY <2>2, <2>3
  <1>7. CASE fsm = "WaitPassword"
    <2>1. Telnet /\ (NameSent \/ NameTaken \/ NameUnknown)
      BY <1>7, OtherStages
    <2>2. ~ NameSent
      BY <1>1 DEF NameSent
    <2>3. CASE NameTaken
      <3> DEFINE lines == <<"password">>
      <3>1. Ahead(buffer, lines) /\ lines \in Seq(Kind)
        BY <1>2, <2>3, StageLines DEF NameTaken
      <3>2. 1 \in DOMAIN lines /\ lines[1] = "password"
        OBVIOUS
      <3>3. 1 \in DOMAIN buffer /\ buffer[1].kind = "password"
        BY <1>3, <3>1, <3>2
      <3> QED BY <1>4, <1>7, <2>1, <3>3
    <2>4. CASE NameUnknown
      BY <2>4 DEF NameUnknown
    <2> QED BY <2>1, <2>2, <2>3, <2>4
  <1>8. CASE fsm = "WaitPrompt"
    <2>1. Telnet /\ (PasswordSent \/ Refused \/ LoggedIn)
      BY <1>8, OtherStages
    <2>2. ~ PasswordSent
      BY <1>1 DEF PasswordSent
    <2>3. CASE Refused
      <3> DEFINE lines == <<"percent", "username">>
      <3>1. Ahead(buffer, lines) /\ lines \in Seq(Kind)
        BY <1>2, <2>3, StageLines DEF Refused
      <3>2. 1 \in DOMAIN lines /\ lines[1] = "percent"
        OBVIOUS
      <3>3. 1 \in DOMAIN buffer /\ buffer[1].kind = "percent"
        BY <1>3, <3>1, <3>2
      <3> QED BY <1>4, <1>8, <2>1, <3>3
    <2>4. CASE LoggedIn
      <3>1. Ahead(buffer, Landing) /\ Landing \in Seq(Kind)
        BY <1>2, <2>4, StageLines DEF LoggedIn
      <3>2. /\ Len(Landing) \in DOMAIN Landing /\ Landing[Len(Landing)] = Prompt
            /\ Prompt \in PromptKind
        <4>1. /\ Len(Landing) = Len(server.motd) + 1 /\ Len(server.motd) \in Nat
              /\ Landing[Len(server.motd) + 1] = Prompt /\ Prompt \in {"prompt", "user_prompt"}
          BY <1>2, PrintedLemma
        <4>2. Len(Landing) \in 1 .. Len(Landing)
          BY <4>1
        <4> QED BY <3>1, <4>1, <4>2 DEF PromptKind
      <3>3. Len(Landing) \in DOMAIN buffer /\ buffer[Len(Landing)].kind \in PromptKind
        BY <1>3, <3>1, <3>2
      <3> QED BY <1>4, <1>8, <2>1, <3>3
    <2> QED BY <2>1, <2>2, <2>3, <2>4
  <1>9. CASE fsm = "TermLen"
    <2>1. LengthSet \/ Misled
      BY <1>1, <1>9, OtherStages DEF LengthSent
    <2>2. CASE LengthSet
      <3>1. PICK rest : Behind(rest) /\ Ahead(buffer, Append(rest, Prompt))
        BY <2>2 DEF LengthSet
      <3>2. Prompt \in Kind /\ Prompt \in PromptKind
        BY <1>2, PrintedLemma DEF Kind, PromptKind
      <3>3. PICK lines : lines = Append(rest, Prompt)
        OBVIOUS
      <3>4. lines \in Seq(Kind) /\ Len(rest) + 1 \in DOMAIN lines /\ lines[Len(rest) + 1] = Prompt
        <4>1. rest \in Seq(Kind)
          BY <3>1 DEF Behind
        <4> QED BY <3>2, <3>3, <4>1
      <3>5. Len(rest) + 1 \in DOMAIN buffer /\ buffer[Len(rest) + 1].kind = Prompt
        BY <1>3, <3>1, <3>3, <3>4
      <3>6. devMode = "exec"
        BY <2>2 DEF LengthSet
      <3> QED BY <1>4, <1>5, <1>9, <3>2, <3>5, <3>6
    <2>3. CASE Misled
      BY <2>3 DEF Misled
    <2> QED BY <2>1, <2>2, <2>3
  <1> QED BY <1>6, <1>7, <1>8, <1>9, OtherStages

(* The paths of CiscoIosConn::new() have no hops but these two.            *)
LEMMA DirectLemma ==
    ASSUME LoginInv, Last = 2
    PROVE  NoMutualWait /\ ErrorIsRefusal /\ NoPanic
  <1>1. pc \in {"drive", "template", "panic"} => hop = Last
    <2>1. \A h \in 1 .. 2 : h = 1 \/ h = 2
      OBVIOUS
    <2>2. 1 = 2 - 1 /\ "transport" # "interactive"
      OBVIOUS
    <2> QED BY <2>1, <2>2, HopLemma, Zenon
  <1>2. NoMutualWait
    <2>1. ASSUME MutualWait
          PROVE  \/ credentials = "bad_user" /\ devMode = "username"
                 \/ ~ server.enabled /\ devMode = "exec" /\ "WaitPrompt" \notin DOMAIN Template
                 \/ Marked(server.banner)
      <3>1. pc = "drive" /\ stream = "up"
        BY <2>1 DEF MutualWait, Driving
      <3>2. Request /\ Flows /\ Stage /\ hop = Last
        BY <1>1, <3>1, DrivingLemma
      <3> QED BY <2>1, <3>1, <3>2, MutualLemma
    <2> QED BY <2>1, Zenon DEF NoMutualWait
  <1>3. ErrorIsRefusal
    BY <1>1 DEF LoginInv, Login, ErrorIsRefusal, Percent
  <1>4. NoPanic
    BY <1>1 DEF LoginInv, Login, NoPanic
  <1> QED BY <1>2, <1>3, <1>4

-----------------------------------------------------------------------------
(* A connection along a path that ends with a login of IosTemplates, and   *)
(* whatever comes before it, is one to a device that is logged in to and   *)
(* does not page, for every device: of any banner and message of the day,  *)
(* none of whose lines looks like a prompt, and with any credentials.      *)
THEOREM ConnectionsAreLoggedIn ==
    ASSUME \A p \in Paths : LoginPath(p), \A s \in Servers : Banners(s),
           Credentials \subseteq {"good", "bad_user", "bad_password"}
    PROVE  Spec => []ConnectedIsLoggedIn
  <1>1. Spec => []LoginInv
    BY LoginsHaveStages
  <1>2. LoginInv => ConnectedIsLoggedIn
    BY HandedLemma DEF ConnectedIsLoggedIn
  <1> QED BY <1>1, <1>2, PTL

(* All that such a device had to say was read: nothing is left for the     *)
(* output of the first command to be mistaken for.                         *)
THEOREM HandOversAreClean ==
    ASSUME \A p \in Paths : LoginPath(p), \A s \in Servers : Banners(s),
           Credentials \subseteq {"good", "bad_user", "bad_password"}
    PROVE  Spec => []HandOverIsClean
  <1>1. Spec => []LoginInv
    BY LoginsHaveStages
  <1>2. LoginInv => HandOverIsClean
    BY HandedLemma DEF HandOverIsClean
  <1> QED BY <1>1, <1>2, PTL

(* The paths that CiscoIosConn::new() makes: a transport and its login.    *)
Direct(p) == LoginPath(p) /\ Len(p.hops) = 2

(* Where a login waits, fails or ends, with no hop before it.              *)
LEMMA DirectLogins ==
    ASSUME \A p \in Paths : Direct(p), \A s \in Servers : Banners(s),
           Credentials \subseteq {"good", "bad_user", "bad_password"}
    PROVE  Spec => [](NoMutualWait /\ ErrorIsRefusal /\ NoPanic)
  <1>1. \A p \in Paths : LoginPath(p)
    BY DEF Direct
  <1>2. Spec => []LoginInv
    BY <1>1, LoginsHaveStages
  <1>3. Init => Last = 2
    BY DEF Init, Last, Direct
  <1>4. Last = 2 /\ [Next]_vars => (Last = 2)'
    <2> SUFFICES ASSUME Last = 2, [Next]_vars PROVE Last' = 2
      OBVIOUS
    <2>1. UNCHANGED request
      BY DEF Next, Client, Device, OpenTransport, TransportFails, TransportOver, Drive, NoTransport,
             Established, FeedSend, FeedDone, FeedError, FeedPanics, Receive, TransportError, Timeout,
             Returns, DevPrint, DevReads, LinkDown, vars
    <2> QED BY <2>1, SameRequest
  <1>5. LoginInv /\ Last = 2 => NoMutualWait /\ ErrorIsRefusal /\ NoPanic
    BY DirectLemma
  <1> QED BY <1>2, <1>3, <1>4, <1>5, PTL DEF Spec

(* A login that nothing but the timeout ends is one with a user name the   *)
(* device does not know, or of a user who is not enabled, by SSH, or came  *)
(* after a banner that looked like a prompt.                               *)
THEOREM LoginsWaitForAReason ==
    ASSUME \A p \in Paths : Direct(p), \A s \in Servers : Banners(s),
           Credentials \subseteq {"good", "bad_user", "bad_password"}
    PROVE  Spec => []NoMutualWait
  <1>1. Spec => [](NoMutualWait /\ ErrorIsRefusal /\ NoPanic)
    BY DirectLogins
  <1> QED BY <1>1, PTL

(* The error of a login template means a password that was refused, or a   *)
(* line of the message of the day that looked like it.                     *)
THEOREM ErrorsAreRefusals ==
    ASSUME \A p \in Paths : Direct(p), \A s \in Servers : Banners(s),
           Credentials \subseteq {"good", "bad_user", "bad_password"}
    PROVE  Spec => []ErrorIsRefusal
  <1>1. Spec => [](NoMutualWait /\ ErrorIsRefusal /\ NoPanic)
    BY DirectLogins
  <1> QED BY <1>1, PTL

(* The logins of CiscoIosConn never send the engine to a state that their  *)
(* template does not have.                                                 *)
THEOREM LoginsDoNotPanic ==
    ASSUME \A p \in Paths : Direct(p), \A s \in Servers : Banners(s),
           Credentials \subseteq {"good", "bad_user", "bad_password"}
    PROVE  Spec => []NoPanic
  <1>1. Spec => [](NoMutualWait /\ ErrorIsRefusal /\ NoPanic)
    BY DirectLogins
  <1> QED BY <1>1, PTL

-----------------------------------------------------------------------------
(* Paths of any length, with any templates.                                *)
WellFormed(p) ==
    /\ \E H : p.hops \in Seq(H)
    /\ \A h \in DOMAIN p.hops :
          \/ p.hops[h].type = "transport" /\ p.hops[h].to \in {"telnet", "ssh", "shell"}
          \/ p.hops[h].type = "interactive" /\ "Start" \in DOMAIN p.hops[h].template

PathInv ==
    /\ TypeOK /\ WellFormed(path)
    /\ pc = "drive" => hop \in DOMAIN path.hops /\ Hop.type = "interactive"

(* The place in the path is one, whatever is connected to.                 *)
LEMMA PathStep ==
    ASSUME PathInv, [Next]_vars
    PROVE  PathInv'
  <1>1. PICK H : path.hops \in Seq(H)
    BY DEF PathInv, WellFormed
  <1>2. Last \in Nat /\ DOMAIN path.hops = 1 .. Last /\ hop \in 1 .. Last + 1 /\ cut \subseteq 1 .. Last
    BY <1>1 DEF PathInv, TypeOK, Last
  <1>3. \A h \in 1 .. Last : h + 1 \in 1 .. Last + 1
    BY <1>2
  <1>4. ASSUME path' = path PROVE WellFormed(path')
    BY <1>4 DEF PathInv
  <1>5. ASSUME NEW error \in Outcome, Returns(error) PROVE PathInv'
    <2>1. pc' = error /\ UNCHANGED <<path, hop, stream, devMode, cut>>
      BY <1>5 DEF Returns, request, devVars
    <2>2. error # "drive"
      BY DEF Outcome
    <2> QED BY <1>4, <2>1, <2>2 DEF PathInv, TypeOK
  <1>6. ASSUME OpenTransport PROVE PathInv'
    <2>1. /\ path' = path /\ hop' = hop + 1 /\ pc' = "hop" /\ cut' = cut /\ stream' = "up"
          /\ hop \in DOMAIN path.hops /\ Hop.type = "transport" /\ Opened(Hop.to)
      BY <1>6 DEF OpenTransport, AtHop, request
    <2>2. Hop.to \in {"telnet", "ssh", "shell"}
      BY <2>1 DEF PathInv, WellFormed, Hop
    <2>3. devMode' \in {"shell", "username", "password", "exec"}
      BY <2>1, <2>2 DEF Opened
    <2>4. hop' \in 1 .. Len(path.hops) + 1
      BY <1>2, <1>3, <2>1 DEF Last
    <2> QED BY <1>4, <2>1, <2>3, <2>4 DEF PathInv, TypeOK
  <1>7. ASSUME Drive PROVE PathInv'
    <2>1. /\ path' = path /\ UNCHANGED <<hop, stream, devMode, cut>> /\ pc' = "drive" /\ fsm' = "Start"
          /\ hop \in DOMAIN path.hops /\ Hop.type = "interactive"
      BY <1>7 DEF Drive, AtHop, request, devVars
    <2>2. "Start" \in DOMAIN Template
      BY <2>1 DEF PathInv, WellFormed, Template, Hop
    <2> QED BY <1>4, <2>1, <2>2 DEF PathInv, TypeOK, Template, Hop, Settable
  <1>8. ASSUME FeedSend \/ Receive PROVE PathInv'
    <2>1. path' = path /\ UNCHANGED <<pc, hop, stream, devMode, cut>> /\ pc = "drive" /\ fsm \in DOMAIN Template
      BY <1>8 DEF FeedSend, Receive, Driving, request, devVars
    <2>2. fsm' \in Settable(Template)
      BY <1>8 DEF FeedSend, Receive
    <2> QED BY <1>4, <2>1, <2>2 DEF PathInv, TypeOK, Template, Hop
  <1>9. ASSUME FeedDone PROVE PathInv'
    <2>1. path' = path /\ UNCHANGED <<stream, devMode>> /\ hop' = hop + 1 /\ pc = "drive" /\ pc' = "hop"
          /\ cut' \subseteq cut \cup {hop}
      BY <1>9 DEF FeedDone, Driving, request, devVars
    <2>2. hop \in 1 .. Last
      BY <1>2, <2>1 DEF PathInv
    <2> QED BY <1>2, <1>3, <1>4, <2>1, <2>2 DEF PathInv, TypeOK, Last
  <1>10. ASSUME DevPrint \/ DevReads \/ LinkDown \/ UNCHANGED vars PROVE PathInv'
    <2>1. path' = path /\ UNCHANGED <<pc, hop, fsm, cut>> /\ stream' \in {"none", "up", "down"}
      BY <1>10 DEF DevPrint, DevReads, LinkDown, vars, request, hostVars, PathInv, TypeOK
    <2>2. devMode' \in {"shell", "username", "password", "exec"}
      <3>1. CASE DevReads
        BY <3>1 DEF DevReads, DevShell, DevUsername, DevPassword, DevExec, LoginInvalid, PathInv, TypeOK
      <3>2. CASE DevPrint \/ LinkDown \/ UNCHANGED vars
        BY <3>2 DEF DevPrint, LinkDown, vars, devVars, PathInv, TypeOK
      <3> QED BY <1>10, <3>1, <3>2
    <2> QED BY <1>4, <2>1, <2>2 DEF PathInv, TypeOK, Template, Hop
  <1>11. ASSUME \/ TransportFails \/ TransportOver \/ NoTransport \/ Established \/ FeedError
                \/ FeedPanics \/ TransportError \/ Timeout
         PROVE  \E error \in Outcome : Returns(error)
    BY <1>11 DEF TransportFails, TransportOver, NoTransport, Established, FeedError, FeedPanics,
                 TransportError, Timeout, Outcome
  <1> QED BY <1>5, <1>6, <1>7, <1>8, <1>9, <1>10, <1>11 DEF Next, Client, Device

(* It begins there.                                                        *)
LEMMA PathStart ==
    ASSUME \A p \in Paths : WellFormed(p)
    PROVE  Init => PathInv
  <1> SUFFICES ASSUME Init PROVE PathInv
    OBVIOUS
  <1>1. WellFormed(path) /\ pc = "hop" /\ hop = 1 /\ cut = {} /\ devMode = "shell"
        /\ stream \in {"none", "up", "down"}
    BY DEF Init
  <1>2. Len(path.hops) \in Nat
    BY <1>1 DEF WellFormed
  <1>3. hop \in 1 .. Len(path.hops) + 1
    BY <1>1, <1>2
  <1> QED BY <1>1, <1>3 DEF PathInv, TypeOK

(* Type correctness, for every path whose templates have a first state.    *)
THEOREM ConnectTypeCorrect ==
    ASSUME \A p \in Paths : WellFormed(p)
    PROVE  Spec => []TypeOK
  <1>1. Init => PathInv
    BY PathStart
  <1>2. PathInv /\ [Next]_vars => PathInv'
    BY PathStep
  <1>3. PathInv => TypeOK
    BY DEF PathInv
  <1> QED BY <1>1, <1>2, <1>3, PTL DEF Spec

(* Whatever the device says, and wherever in the path: the engine does not *)
(* panic on templates whose rules go on to states they have.  "Done" as    *)
(* the next state of a Send is what NoPanic is violated by.                *)
ClosedPath(p) ==
    /\ WellFormed(p)
    /\ \A h \in DOMAIN p.hops : p.hops[h].type = "interactive" => Closed(p.hops[h].template)

ClosedInv ==
    /\ PathInv /\ ClosedPath(path) /\ NoPanic
    /\ pc = "drive" => fsm \in DOMAIN Template

THEOREM NamedStatesDoNotPanic ==
    ASSUME \A p \in Paths : ClosedPath(p)
    PROVE  Spec => []NoPanic
  <1>1. Init => ClosedInv
    <2> SUFFICES ASSUME Init PROVE ClosedInv
      OBVIOUS
    <2>1. ClosedPath(path) /\ pc = "hop"
      BY DEF Init
    <2>2. PathInv
      BY PathStart DEF ClosedPath
    <2> QED BY <2>1, <2>2 DEF ClosedInv, NoPanic
  <1>2. ClosedInv /\ [Next]_vars => ClosedInv'
    <2> SUFFICES ASSUME ClosedInv, [Next]_vars PROVE ClosedInv'
      OBVIOUS
    <2>1. PathInv'
      BY PathStep DEF ClosedInv
    <2>2. ASSUME pc = "drive" PROVE Closed(Template) /\ fsm \in DOMAIN Template
      BY <2>2 DEF ClosedInv, PathInv, ClosedPath, Template, Hop
    <2>3. ~ FeedPanics
      <3>1. ASSUME FeedPanics
            PROVE  /\ pc = "drive"
                   /\ \/ fsm \notin DOMAIN Template
                      \/ \E i \in DOMAIN Template[fsm] :
                            StateAfter(fsm, Template[fsm][i]) \notin Settable(Template)
        BY <3>1 DEF FeedPanics, Driving
      <3> QED BY <2>2, <3>1 DEF Closed, Settable
    <2>4. path' = path /\ (pc' = "panic" => pc = "panic")
      BY <2>3 DEF Next, Client, Device, OpenTransport, TransportFails, TransportOver, Drive,
             NoTransport, Established, FeedSend, FeedDone, FeedError, Receive, TransportError,
             Timeout, Returns, Driving, DevPrint, DevReads, LinkDown, vars, request, hostVars
    <2>5. ASSUME pc' = "drive" PROVE fsm' \in DOMAIN Template'
      <3>1. CASE Drive
        <4>1. hop' = hop /\ fsm' = "Start" /\ hop \in DOMAIN path.hops /\ Hop.type = "interactive"
          BY <3>1 DEF Drive, AtHop
        <4>2. "Start" \in DOMAIN Template
          BY <4>1 DEF ClosedInv, ClosedPath, Closed, Template, Hop
        <4> QED BY <2>4, <4>1, <4>2 DEF Template, Hop
      <3>2. CASE FeedSend \/ Receive
        <4>1. /\ pc = "drive" /\ hop' = hop
              /\ \/ fsm' = fsm
                 \/ \E i \in DOMAIN Template[fsm] : fsm' = StateAfter(fsm, Template[fsm][i])
          BY <3>2 DEF FeedSend, Receive, Driving, FeedNone
        <4>2. fsm' \in DOMAIN Template
          BY <2>2, <4>1 DEF Closed
        <4> QED BY <2>4, <4>1, <4>2 DEF Template, Hop
      <3>3. CASE ~ (Drive \/ FeedSend \/ Receive)
        <4>1. pc = "drive" /\ hop' = hop /\ fsm' = fsm
          BY <2>3, <2>5, <3>3 DEF Next, Client, Device, OpenTransport, TransportFails, TransportOver,
             NoTransport, Established, FeedDone, FeedError, TransportError, AtHop,
             Timeout, Returns, Driving, DevPrint, DevReads, LinkDown, vars, request, hostVars
        <4> QED BY <2>2, <2>4, <4>1 DEF Template, Hop
      <3> QED BY <3>1, <3>2, <3>3
    <2> QED BY <2>1, <2>4, <2>5 DEF ClosedInv, NoPanic
  <1>3. ClosedInv => NoPanic
    BY DEF ClosedInv
  <1> QED BY <1>1, <1>2, <1>3, PTL DEF Spec
=============================================================================
