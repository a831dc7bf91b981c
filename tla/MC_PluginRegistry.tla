------------------------- MODULE MC_PluginRegistry -------------------------
(* Instances of PluginRegistry for TLC: loggers are model values, plugin   *)
(* files and their vocabularies are small fixed tables.                    *)
EXTENDS PluginRegistry

CONSTANTS p1, p2

OneProc == {p1}
TwoProcs == {p1, p2}

\* Four plugin files in directory order.  "chat" registers cleanly; "sms"
\* ships the flag FL_SENT that chat already has, "irc" the event type
\* ET_MSG, "chat2" the service name CHAT (each is refused at that name,
\* after the rows before it are committed).
FourOrder == <<"chat", "sms", "irc", "chat2">>
Vocabulary ==
    [pl \in Range(FourOrder) |->
        CASE pl = "chat"   -> [svc |-> "CHAT", et |-> <<"ET_MSG">>, fl |-> <<"FL_SENT">>]
          [] pl = "sms"    -> [svc |-> "SMS", et |-> <<>>, fl |-> <<"FL_SENT">>]
          [] pl = "irc"    -> [svc |-> "IRC", et |-> <<"ET_MSG">>, fl |-> <<>>]
          [] pl = "chat2"  -> [svc |-> "CHAT", et |-> <<>>, fl |-> <<>>]]
ServiceOfFour == [pl \in Range(FourOrder) |-> Vocabulary[pl].svc]
EventTypesOfFour == [pl \in Range(FourOrder) |-> Vocabulary[pl].et]
FlagsOfFour == [pl \in Range(FourOrder) |-> Vocabulary[pl].fl]

\* One plugin with one event type and one flag.
OneOrder == <<"sms">>
ServiceOfOne == [pl \in {"sms"} |-> "SMS"]
EventTypesOfOne == [pl \in {"sms"} |-> <<"ET_SMS">>]
FlagsOfOne == [pl \in {"sms"} |-> <<"FL_SENT">>]
NoBroken == {}
=============================================================================
