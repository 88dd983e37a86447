--------------------------- MODULE MCSensorsHost ---------------------------
(* A small instance of SensorsHost: a sensor of two channels, of which the   *)
(* wit file lacks one, a fake one, and a third of two categories, one of     *)
(* which it shares with the fake one.                                        *)
EXTENDS SensorsHost

MCRegistry == <<"combined", "fake", "humid">>
MCFake == {"fake"}
MCCategories == [s \in ToSet(MCRegistry) |->
                   CASE s = "combined" -> {"Gyroscope"}
                     [] s = "fake"     -> {"Temperature"}
                     [] OTHER          -> {"RelativeHumidity", "Temperature"}]

MCChannel(l) == [label |-> l, supported |-> l # "Other"]
MCChannels == [s \in ToSet(MCRegistry) |->
                 CASE s = "combined" -> <<MCChannel("Temperature"), MCChannel("Other")>>
                   [] s = "fake"     -> <<MCChannel("Temperature")>>
                   [] OTHER          -> <<MCChannel("RelativeHumidity")>>]
=============================================================================
