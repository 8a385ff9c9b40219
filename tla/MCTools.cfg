SPECIFICATION Spec
CONSTANTS
  MaxObjects = 2
  Texts = {
    {}, {"open"}, {"timer", "stop"}, {"timer", "view"}}
  Labels = {"mug", "laptop"}
  Places = {"desk"}
  Alike = {{"mug", "laptop"}}
  Opened = {"media_player"}
  Feed = {"clear", "mist"}
INVARIANTS
  HologramsConform OnlyTheAskedForIsRefused
