--------------------------- MODULE Configuration ----------------------------
(***************************************************************************)
(* internal/configuration: where a setting comes from.  Flags are bound to *)
(* keys (cmd/internal/flags), Init adds the environment and one            *)
(* configuration file, and Get[T] reads a key.  Viper, which keeps the     *)
(* registry, is external: a flag that was given comes before the           *)
(* environment, that before the file, and that before the flag's default.  *)
(*                                                                         *)
(* A value keeps the type its source gives it: an int or a bool from a     *)
(* flag of that type, and a string from one of any other scalar type, such *)
(* as float64; a string from the environment; YAML's own type from a file. *)
(* Of a number in a string, n is the number.  The sources of a run are     *)
(*   flag, env: the keys set there;                                        *)
(*   disk: the locations that have a file, each with its values or broken; *)
(*   home: the home directory is known;  module: there is a module root;   *)
(*   config: the --config argument, if given, with or without a file       *)
(*   extension, and whether it is a file.                                  *)
(***************************************************************************)
EXTENDS Integers, Sequences, FiniteSetsExt

isSpecificFile(src) == src.config.given /\ src.config.ext

(* defaultConfigPaths; it gives up when there is no home directory.        *)
defaultConfigPaths(src) ==
    <<"etc", "xdg">>
    \o IF ~src.home THEN <<>>
       ELSE <<"home">> \o (IF src.module THEN <<"root">> ELSE <<>>) \o <<".">>

(* Faulty variant: the default locations are searched after --config.      *)
configPathsAll(src) == <<"config">> \o defaultConfigPaths(src)

configPaths(src) == IF src.config.given THEN <<"config">> ELSE defaultConfigPaths(src)

(* viper.ReadInConfig: the first location that has a file.  A --config     *)
(* without an extension is taken for a directory.                          *)
HasFile(src, path) ==
    path \in DOMAIN src.disk /\ (path = "config" => src.config.ext = src.config.isFile)

ReadInConfig(src) ==
    LET paths == configPaths(src)
        found == {k \in DOMAIN paths : HasFile(src, paths[k])}
    IN  IF found = {} THEN [ok |-> FALSE, values |-> <<>>] ELSE src.disk[paths[Min(found)]]

(* Init: only a file named by --config must be readable; any other error   *)
(* leaves the file out.                                                    *)
InitError(src) == isSpecificFile(src) /\ ~ReadInConfig(src).ok

Registry(src, defaults) ==
    LET file == IF ReadInConfig(src).ok THEN ReadInConfig(src).values ELSE <<>>
    IN  [key \in DOMAIN defaults |->
            IF key \in DOMAIN src.flag THEN src.flag[key]
            ELSE IF key \in DOMAIN src.env THEN src.env[key]
            ELSE IF key \in DOMAIN file THEN file[key]
            ELSE defaults[key]]

(* Get[T]: a value of another type than T reads as zero.                   *)
GetAs(T, value) == IF value.type = T THEN value.n ELSE 0
=============================================================================
