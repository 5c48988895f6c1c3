SPECIFICATION Spec
CONSTANTS
  Rec = {0, 1}
  MaxBoots = 1
PROPERTIES
  TagsComeBack
