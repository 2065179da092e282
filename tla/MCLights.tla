-------------------------------- MODULE MCLights --------------------------------
(* Lights twice: the LED with one, two or no colours at a time, on devices *)
(* whose LEDs all blink, blink in part, or not at all; and the backlight   *)
(* and the buttons beside one light of the LED, on devices with and        *)
(* without the mode of low persistence.                                    *)
EXTENDS Lights

St(color, mode, blink) == [color |-> color, flashMode |-> mode, blink |-> blink]
SomeStates ==
  {Dark, St({"red"}, "none", 0), St({"red", "green"}, "hardware", 1),
   St({"green"}, "hardware", 1), St({"green", "blue"}, "timed", 1), St({"red"}, "hardware", 0),
   St({}, "hardware", 0)}
OneState == {St({"green"}, "timed", 1)}

Levels == {"brightness"} \X Leds
LedFileSets ==
  {LedFiles, Levels, Levels \cup {<<"blink", "green">>, <<"timer", "red">>, <<"timer", "blue">>}}
BacklightFileSets ==
  {Levels \cup {Button}, Levels \cup {Persistence, Button},
   Levels \cup {Persistence, <<"timer", "green">>}}
BacklightNames == {"backlight", "buttons", "battery"}
=============================================================================
