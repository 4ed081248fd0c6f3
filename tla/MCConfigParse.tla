---------------------------- MODULE MCConfigParse ----------------------------
(***************************************************************************)
(* ConfigParse with four neighbours of AppConfig: FPS is followed by       *)
(* CONTROL_ENABLED and the first bytes of FCU_DEV.                         *)
(***************************************************************************)
EXTENDS ConfigParse

CONSTANT MaxLines

MCParams == <<"HEIGHT", "FPS", "CONTROL_ENABLED", "FCU_DEV">>

TypeOf(p) == CASE p \in {"HEIGHT", "FPS"} -> "uint"
               [] p = "CONTROL_ENABLED" -> "bool"
               [] p = "FCU_DEV" -> "str"
MCType == [p \in {"HEIGHT", "FPS", "CONTROL_ENABLED", "FCU_DEV"} |-> TypeOf(p)]

MCDefault == [HEIGHT |-> "720", FPS |-> "30", CONTROL_ENABLED |-> "true",
              FCU_DEV |-> "/dev/ttyACM0"]

MCBeside == [HEIGHT |-> {"FPS"}, FPS |-> {"CONTROL_ENABLED", "FCU_DEV"},
             CONTROL_ENABLED |-> {}, FCU_DEV |-> {}]

MCNumerals == {"720", "30", "60"}
MCQuoted == {"/dev/ttyACM0", "/dev/ttyUSB0"}

\* Texts that are read, that are not, and none.
TextsFor(p) == CASE TypeOf(p) = "uint" -> {"60", "30fps", ""}
                 [] TypeOf(p) = "bool" -> {"si", "no", "maybe"}
                 [] TypeOf(p) = "str" -> {"/dev/ttyUSB0", "ttyUSB0"}

Mention(p) == [name : {p}, text : TextsFor(p)]

MCLine == [commented : {FALSE}, newline : BOOLEAN,
           mentions : {<<a>> : a \in UNION {Mention(p) : p \in Names}}]
            \cup [commented : {TRUE}, newline : {TRUE},
                  mentions : {<<[name |-> "FPS", text |-> "60"]>>}]
            \cup [commented : {FALSE}, newline : BOOLEAN,
                  mentions : {<<a, b>> : a \in {f \in Mention("FPS") : f.text # ""},
                                         b \in UNION {Mention(p) : p \in Names \ {"FCU_DEV"}}}]

\* Only the last line of a file may lack its newline.
MCFiles == UNION {{f \in [1..k -> MCLine] : \A m \in 1..(k - 1) : f[m].newline} : k \in 0..MaxLines}
=============================================================================
