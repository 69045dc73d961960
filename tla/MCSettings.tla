----------------------------- MODULE MCSettings -----------------------------
(* A small description for Linux with the shapes that the resource has: a  *)
(* default and a choice that depend on the platform, hidden values, a list *)
(* of choices that the server extends, and both kinds of files.            *)
EXTENDS Settings

Everywhere == [kind |-> "any", names |-> {}]
On(n) == [kind |-> "only", names |-> n]
V(k, d, possible, h, p) ==
  [key |-> k, defaults |-> <<[kind |-> "any", names |-> {}, value |-> d]>>,
   possible |-> [i \in DOMAIN possible |-> [kind |-> "any", names |-> {}, value |-> possible[i]]],
   hidden |-> h, platforms |-> p]

MCDescription == <<
  [section |-> "webclient", storage |-> TRUE, hidden |-> TRUE, platforms |-> Everywhere, values |-> <<>>],
  [section |-> "main", storage |-> FALSE, hidden |-> FALSE, platforms |-> Everywhere,
   values |-> <<V("webMode", "tv", <<"desktop", "tv">>, TRUE, On({"windows", "macosx"})),
                V("layout", "auto", <<"auto", "tv">>, FALSE, Everywhere),
                V("updateChannel", 0, <<>>, FALSE, Everywhere)>>],
  [section |-> "audio", storage |-> FALSE, hidden |-> FALSE, platforms |-> Everywhere,
   values |-> <<V("devicetype", "basic", <<"basic", "spdif", "hdmi">>, FALSE, Everywhere),
                [V("channels", "2.0", <<"2.0", "5.1">>, FALSE, Everywhere) EXCEPT !.defaults =
                   <<[kind |-> "only", names |-> {"osx"}, value |-> "auto"],
                     [kind |-> "any", names |-> {}, value |-> "2.0"]>>],
                V("passthrough.ac3", FALSE, <<>>, FALSE, Everywhere),
                V("passthrough.eac3", FALSE, <<>>, FALSE,
                  [kind |-> "except", names |-> {"osx", "oe_rpi"}])>>]>>

(* What users change here.                                                 *)
MCInputs == {<<"main", "webMode", "desktop">>, <<"webclient", "k", "x">>}
MCCycled == {<<"main", "webMode">>, <<"audio", "devicetype">>,
             <<"audio", "passthrough.ac3">>}
MCCommandLines == {<<>>, <<"tv", "desktop">>}

Left(conf, storage, old) == [disk |-> [f \in ConfFiles |-> IF f = "conf" THEN conf ELSE storage],
                             oldest |-> old]
OldMain == [s \in {"main", "gone"} |-> IF s = "gone" THEN [g \in {"k"} |-> "x"]
                                                    ELSE [g \in {"layout"} |-> "auto"]]
Audio   == [s \in {"audio"} |-> [g \in {"devicetype"} |-> "other"]]
OldWeb  == [s \in {"web"} |-> [g \in {"k"} |-> "x"]]

(* Nothing; the settings of version 3, of this version before the key in   *)
(* QSettings, with an unknown device type, and of a later version.         *)
MCInstalls == {Left(NoFile, NoFile, None), Left(File(3, OldMain), NoFile, None),
               Left(File(4, Audio), File(4, OldWeb), None), Left(File(5, OldMain), Garbage, "current")}

(* Both files are of version 3.                                            *)
OldInstall == {Left(File(3, OldMain), File(3, OldWeb), None)}
=============================================================================
