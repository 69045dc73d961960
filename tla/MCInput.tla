------------------------------- MODULE MCInput -------------------------------
(* A small computer with each of the inputs, for TLC.                        *)
EXTENDS Input

Str(a)     == <<[type |-> "string", actions |-> <<a>>]>>
Long(s, l) == <<[type |-> "long", actions |-> [short |-> s, long |-> l]]>>
File(p, n, m, map) == [path |-> p, valid |-> TRUE, name |-> n, idmatcher |-> m, mapping |-> map]

KeyMap == "Esc" :> Long("back", "exit") @@ "Media Play" :> Str("play_pause")
            @@ "Shift" :> <<[type |-> "list", actions |-> <<"space", "play_pause">>]>>
KbFile   == File("keyboard.json", "Keyboard Generic", {"Keyboard"}, KeyMap)
PadFile  == File("pad.json", "Pad", {"p1", "p2"},
              "KEY_AXIS_0_UP" :> Str("up") @@ "KEY_AXIS_0_DOWN" :> Str("down")
                @@ "KEY_HAT_UP" :> Str("up") @@ "KEY_BUTTON_0" :> Long("back", "home"))
TvFile   == File("cec.json", "HDMI CEC", {"CEC"},
              "KEY_SELECT" :> Str("enter") @@ "KEY_BACK" :> Str("back") @@ "KEY_STOP" :> Str("stop"))
NetFile  == File("net.json", "Net", {"net"},
              "Ok" :> (Str("host:switchMode") \o <<[type |-> "short", actions |-> <<"enter">>]>>)
                @@ "Menu" :> Long("menu", "host:switchMode"))

TheBundled == <<KbFile, PadFile, TvFile, NetFile>>
TheUser ==
  {File("mine.json", "Net", {"net", "CEC"}, "Ok" :> Str("mine")),
   File("yours.json", "Yours", {"net"}, "Ok" :> Str("yours")),
   [File("mine.json", "Net", {"net"}, "Ok" :> Str("broken")) EXCEPT !.valid = FALSE]}
TheSources == {"Keyboard", "p1", "p2", "CEC", "net"}
TheCecMap  == Select :> "KEY_SELECT"
TheCecKeys == {Select, Return}

Setup(is, kb, net) ==
  [inputs |-> is, kb |-> kb, net |-> net, edits |-> FALSE, modes |-> FALSE, web |-> FALSE,
   has |-> [p \in Pads |-> {}], layout |-> "auto", upDown |-> FALSE, setting |-> "tv"]

TheSetups ==
  {[Setup({"net"}, {}, {"Ok"}) EXCEPT !.edits = TRUE],
   [Setup({"sdl"}, {}, {}) EXCEPT !.has = [p \in Pads |-> {"stick"}]],
   [Setup({"sdl"}, {}, {}) EXCEPT !.has["p1"] = {"hat", "button"}],
   [Setup({"cec"}, {}, {}) EXCEPT !.upDown = TRUE],
   [Setup({"net"}, {}, {"Ok", "Menu"}) EXCEPT !.web = TRUE, !.layout = "tv"],
   [Setup({}, {"Esc", "Media Play"}, {}) EXCEPT !.modes = TRUE]}
=============================================================================
