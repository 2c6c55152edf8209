SPECIFICATION FairSpec
CONSTANTS
  ha = ha
  hb = hb
  l1 = l1
  l2 = l2
  l3 = l3
  Host <- MCHost
  Line <- MCLine
  Hours = 3
  RunHours <- MCScheduledAndMidnight
  Faults <- MCAnyFault
INVARIANTS NoLineLost PartsCutTheDayFile
PROPERTIES CalledJobArchives
