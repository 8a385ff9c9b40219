SPECIFICATION Spec
CONSTANT Plays <- MCPlays
INVARIANT OnlyPerceivingIsMissed
